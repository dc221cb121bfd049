------------------------ MODULE NSUndoManager_proofs ------------------------
(***************************************************************************)
(* For any document, names and levels: the redo stack goes on from the     *)
(* document as it is, the stacks keep to the limit and hold no empty       *)
(* group, whatever is called inside an undo; and without exceptions and    *)
(* removals an undo gives back the document of before the last change, a   *)
(* redo the one after it (AbstractUndo).                                   *)
(***************************************************************************)
EXTENDS NSUndoManager, Subsequences_proofs

Docs == [Keys -> Values]

--------------------------------------------------------------------------
(* What invoking actions makes of a document.                               *)
LEMMA MinOf ==
  ASSUME NEW n \in Nat, NEW m \in Nat, NEW S \in SUBSET (m .. n)
  PROVE  /\ S # {} => Min(S) \in S /\ \A j \in S : Min(S) <= j
         /\ \A i \in S : (\A j \in S : i <= j) => Min(S) = i
<1>1. S \in SUBSET Nat /\ IsFiniteSet(S)
  <2>1. IsFiniteSet(m .. n) /\ m .. n \in SUBSET Nat
    BY FS_Interval
  <2>2. IsFiniteSet(S)
    BY <2>1, FS_Subset
  <2>3. S \in SUBSET Nat
    OBVIOUS
  <2> QED BY <2>2, <2>3
<1>2. ASSUME S # {} PROVE Min(S) \in S /\ \A j \in S : Min(S) <= j
  <2>1. PICK i \in S : \A j \in S : i <= j
    BY <1>1, <1>2, LeastOf
  <2> QED BY <2>1 DEF Min
<1>3. ASSUME NEW i \in S, \A j \in S : i <= j PROVE Min(S) = i
  <2>1. Min(S) \in S /\ Min(S) <= i /\ i <= Min(S)
    BY <1>2, <1>3
  <2>2. i \in Nat /\ Min(S) \in Nat
    BY <1>1, <2>1
  <2> QED BY <2>1, <2>2
<1> QED BY <1>2, <1>3

(* The first action on a key says its value.                                *)
Sets(actions, j, k) ==
  /\ j \in 1 .. Len(actions) /\ actions[j].key = k
  /\ \A i \in 1 .. Len(actions) : i < j => actions[i].key # k

Untouched(actions, k) == \A i \in 1 .. Len(actions) : actions[i].key # k

LEMMA PerformIs ==
  ASSUME NEW acts \in Seq(Action), NEW d \in Docs, NEW k \in Keys
  PROVE  /\ Untouched(acts, k) => Perform(acts, d)[k] = d[k]
         /\ \A j : Sets(acts, j, k) => Perform(acts, d)[k] = acts[j].value
         /\ Untouched(acts, k) \/ \E j \in 1 .. Len(acts) : Sets(acts, j, k)
<1> DEFINE S == On(acts, k)
<1>1. Len(acts) \in Nat /\ S \subseteq 1 .. Len(acts)
  BY DEF On
<1>2. /\ S # {} => Min(S) \in S /\ \A j \in S : Min(S) <= j
      /\ \A i \in S : (\A j \in S : i <= j) => Min(S) = i
  <2> DEFINE n == Len(acts)
  <2>1. n \in Nat /\ 1 \in Nat /\ S \in SUBSET (1 .. n)
    BY <1>1
  <2> HIDE DEF n, S
  <2> QED BY <2>1, MinOf
<1>3. Untouched(acts, k) <=> S = {}
  BY DEF Untouched, On
<1>4. ASSUME S = {} PROVE Perform(acts, d)[k] = d[k]
  BY <1>4 DEF Perform
<1>5. ASSUME NEW j, Sets(acts, j, k) PROVE Perform(acts, d)[k] = acts[j].value
  <2>1. j \in S /\ \A i \in S : j <= i
    BY <1>1, <1>5 DEF Sets, On
  <2>2. Min(S) = j
    BY <1>2, <2>1
  <2> QED BY <2>1, <2>2 DEF Perform
<1>6. ASSUME S # {} PROVE \E j \in 1 .. Len(acts) : Sets(acts, j, k)
  <2>1. PICK m \in S : \A j \in S : m <= j
    BY <1>2, <1>6
  <2>2. m \in 1 .. Len(acts) /\ acts[m].key = k
    BY DEF On
  <2>3. ASSUME NEW i \in 1 .. Len(acts), i < m PROVE acts[i].key # k
    <3>1. i \in S => m <= i
      BY <2>1
    <3>2. i \notin S
      BY <1>1, <2>2, <2>3, <3>1
    <3> QED BY <3>2 DEF On
  <2> QED BY <2>2, <2>3 DEF Sets
<1> QED BY <1>3, <1>4, <1>5, <1>6

LEMMA PerformType ==
  ASSUME NEW acts \in Seq(Action), NEW d \in Docs
  PROVE  Perform(acts, d) \in Docs
<1>1. ASSUME NEW k \in Keys PROVE Perform(acts, d)[k] \in Values
  <2>1. CASE Untouched(acts, k)
    BY <2>1, PerformIs DEF Docs
  <2>2. CASE \E j \in 1 .. Len(acts) : Sets(acts, j, k)
    <3>1. PICK j \in 1 .. Len(acts) : Sets(acts, j, k)
      BY <2>2
    <3>2. acts[j] \in Action
      OBVIOUS
    <3>3. Perform(acts, d)[k] = acts[j].value
      BY <3>1, PerformIs
    <3> QED BY <3>2, <3>3 DEF Action
  <2> QED BY <2>1, <2>2, PerformIs
<1> QED BY <1>1 DEF Perform, Docs

(* Two documents are the same if every key is.                              *)
LEMMA SameDoc ==
  ASSUME NEW d \in Docs, NEW e \in Docs, \A k \in Keys : d[k] = e[k]
  PROVE  d = e
BY DEF Docs

LEMMA PerformEmpty ==
  ASSUME NEW d \in Docs
  PROVE  Perform(<<>>, d) = d
<1>1. <<>> \in Seq(Action) /\ \A k \in Keys : Untouched(<<>>, k)
  BY DEF Untouched
<1>2. \A k \in Keys : Perform(<<>>, d)[k] = d[k]
  BY <1>1, PerformIs
<1> QED BY <1>1, <1>2, PerformType, SameDoc

LEMMA ConcatIs ==
  ASSUME NEW T, NEW a \in Seq(T), NEW b \in Seq(T)
  PROVE  /\ a \o b \in Seq(T) /\ Len(a) \in Nat /\ Len(b) \in Nat
         /\ Len(a \o b) = Len(a) + Len(b)
         /\ \A i \in 1 .. Len(a) : i \in 1 .. Len(a \o b) /\ (a \o b)[i] = a[i]
         /\ \A i \in 1 .. Len(b) : Len(a) + i \in 1 .. Len(a \o b)
                                   /\ (a \o b)[Len(a) + i] = b[i]
         /\ \A i \in 1 .. Len(a \o b) :
              i \in 1 .. Len(a) \/ i - Len(a) \in 1 .. Len(b)
OBVIOUS

LEMMA PerformConcat ==
  ASSUME NEW a \in Seq(Action), NEW b \in Seq(Action), NEW d \in Docs
  PROVE  Perform(a \o b, d) = Perform(a, Perform(b, d))
<1> DEFINE c == a \o b
           e == Perform(b, d)
<1>1. c \in Seq(Action) /\ e \in Docs
  BY ConcatIs, PerformType
<1>a. /\ Len(a) \in Nat /\ Len(b) \in Nat /\ Len(c) = Len(a) + Len(b)
      /\ \A i \in 1 .. Len(a) : i \in 1 .. Len(c) /\ c[i] = a[i]
      /\ \A i \in 1 .. Len(b) : Len(a) + i \in 1 .. Len(c) /\ c[Len(a) + i] = b[i]
      /\ \A i \in 1 .. Len(c) : i \in 1 .. Len(a) \/ i - Len(a) \in 1 .. Len(b)
  BY ConcatIs
<1>b. \A k \in Keys :
        /\ Untouched(b, k) => e[k] = d[k]
        /\ \A j : Sets(b, j, k) => e[k] = b[j].value
        /\ Untouched(b, k) \/ \E j \in 1 .. Len(b) : Sets(b, j, k)
  BY PerformIs
<1> HIDE DEF c, e
<1>2. ASSUME NEW k \in Keys PROVE Perform(c, d)[k] = Perform(a, e)[k]
  <2>1. ASSUME NEW j \in 1 .. Len(a), Sets(a, j, k) PROVE Sets(c, j, k)
    <3>1. j \in 1 .. Len(c) /\ c[j] = a[j] /\ Len(a) \in Nat
      BY <1>a
    <3>2. ASSUME NEW i \in 1 .. Len(c), i < j PROVE c[i].key # k
      <4>1. i \in 1 .. Len(a) /\ c[i] = a[i]
        BY <3>1, <3>2, <1>a
      <4> QED BY <2>1, <3>2, <4>1 DEF Sets
    <3> QED BY <2>1, <3>1, <3>2 DEF Sets
  <2>2. ASSUME NEW j \in 1 .. Len(b), Sets(b, j, k), Untouched(a, k)
        PROVE  Sets(c, Len(a) + j, k) /\ c[Len(a) + j] = b[j]
    <3>1. Len(a) + j \in 1 .. Len(c) /\ c[Len(a) + j] = b[j] /\ Len(a) \in Nat /\ Len(b) \in Nat
      BY <1>a
    <3>2. ASSUME NEW i \in 1 .. Len(c), i < Len(a) + j PROVE c[i].key # k
      <4>1. CASE i \in 1 .. Len(a)
        BY <2>2, <4>1, <1>a DEF Untouched
      <4>2. CASE i - Len(a) \in 1 .. Len(b)
        <5>1. c[Len(a) + (i - Len(a))] = b[i - Len(a)] /\ i - Len(a) < j
          BY <3>1, <3>2, <4>2, <1>a
        <5>2. Len(a) + (i - Len(a)) = i
          BY <3>1, <3>2
        <5> QED BY <2>2, <4>2, <5>1, <5>2 DEF Sets
      <4> QED BY <4>1, <4>2, <1>a
    <3> QED BY <2>2, <3>1, <3>2 DEF Sets
  <2>3. ASSUME Untouched(a, k), Untouched(b, k) PROVE Untouched(c, k)
    <3> SUFFICES ASSUME NEW i \in 1 .. Len(c) PROVE c[i].key # k
      BY DEF Untouched
    <3>1. CASE i \in 1 .. Len(a)
      BY <2>3, <3>1, <1>a DEF Untouched
    <3>2. CASE i - Len(a) \in 1 .. Len(b)
      <4>1. c[Len(a) + (i - Len(a))] = b[i - Len(a)] /\ Len(a) + (i - Len(a)) = i
        BY <3>2, <1>a
      <4> QED BY <2>3, <3>2, <4>1 DEF Untouched
    <3> QED BY <3>1, <3>2, <1>a
  <2>4. CASE \E j \in 1 .. Len(a) : Sets(a, j, k)
    <3>1. PICK j \in 1 .. Len(a) : Sets(a, j, k)
      BY <2>4
    <3>2. c[j] = a[j]
      BY <1>a
    <3>3. Perform(c, d)[k] = c[j].value /\ Perform(a, e)[k] = a[j].value
      BY <1>1, <2>1, <3>1, PerformIs
    <3> QED BY <3>2, <3>3
  <2>5. CASE Untouched(a, k) /\ \E j \in 1 .. Len(b) : Sets(b, j, k)
    <3>1. PICK j \in 1 .. Len(b) : Sets(b, j, k)
      BY <2>5
    <3>2. Perform(a, e)[k] = e[k] /\ e[k] = b[j].value
      BY <1>1, <1>b, <2>5, <3>1, PerformIs
    <3>3. Perform(c, d)[k] = c[Len(a) + j].value /\ c[Len(a) + j] = b[j]
      BY <1>1, <2>2, <2>5, <3>1, PerformIs
    <3> QED BY <3>2, <3>3
  <2>6. CASE Untouched(a, k) /\ Untouched(b, k)
    BY <1>1, <1>b, <2>3, <2>6, PerformIs
  <2> QED BY <1>b, <2>4, <2>5, <2>6, PerformIs
<1>3. Perform(c, d) \in Docs /\ Perform(a, e) \in Docs
  BY <1>1, PerformType
<1>4. Perform(c, d) = Perform(a, e)
  BY <1>2, <1>3, SameDoc
<1> QED BY <1>4 DEF c, e

(* An action that undoes what set a key undoes just that.                   *)
LEMMA PerformAppend ==
  ASSUME NEW acts \in Seq(Action), NEW a \in Action, NEW d \in Docs
  PROVE  /\ Append(acts, a) \in Seq(Action)
         /\ [d EXCEPT ![a.key] = a.value] \in Docs
         /\ Perform(Append(acts, a), d) = Perform(acts, [d EXCEPT ![a.key] = a.value])
<1> DEFINE b == <<a>>
           e == [d EXCEPT ![a.key] = a.value]
<1>1. a.key \in Keys /\ a.value \in Values /\ b \in Seq(Action) /\ Len(b) = 1 /\ b[1] = a
  BY DEF Action
<1>2. e \in Docs
  BY <1>1 DEF Docs
<1> HIDE DEF b
<1>3. ASSUME NEW k \in Keys PROVE Perform(b, d)[k] = e[k]
  <2>1. CASE k = a.key
    <3>1. Sets(b, 1, k)
      BY <1>1, <2>1 DEF Sets
    <3>2. Perform(b, d)[k] = a.value
      BY <1>1, <3>1, PerformIs
    <3> QED BY <2>1, <3>2 DEF Docs
  <2>2. CASE k # a.key
    <3>1. Untouched(b, k)
      BY <1>1, <2>2 DEF Untouched
    <3>2. Perform(b, d)[k] = d[k]
      BY <1>1, <3>1, PerformIs
    <3> QED BY <2>2, <3>2 DEF Docs
  <2> QED BY <2>1, <2>2
<1>4. Perform(b, d) \in Docs
  BY <1>1, PerformType
<1> HIDE DEF e
<1>5. Perform(b, d) = e
  BY <1>2, <1>3, <1>4, SameDoc
<1>6. Append(acts, a) = acts \o b /\ Append(acts, a) \in Seq(Action)
  BY DEF b
<1>7. Perform(acts \o b, d) = Perform(acts, e)
  BY <1>1, <1>5, PerformConcat
<1> QED BY <1>2, <1>6, <1>7 DEF e

(* One action more, which is invoked last.                                  *)
LEMMA PerformFrom ==
  ASSUME NEW acts \in Seq(Action), NEW n \in 1 .. Len(acts), NEW d \in Docs
  PROVE  LET rest == SubSeq(acts, n + 1, Len(acts)) IN
         /\ rest \in Seq(Action) /\ acts[n] \in Action
         /\ Perform(SubSeq(acts, n, Len(acts)), d) =
              [Perform(rest, d) EXCEPT ![acts[n].key] = acts[n].value]
<1> DEFINE rest == SubSeq(acts, n + 1, Len(acts))
           a == acts[n]
           b == <<a>>
<1>1. rest \in Seq(Action) /\ a \in Action /\ b \in Seq(Action)
  OBVIOUS
<1>2. SubSeq(acts, n, Len(acts)) = b \o rest
  OBVIOUS
<1>3. Perform(rest, d) \in Docs
  BY <1>1, PerformType
<1> HIDE DEF rest, a
<1>4. Perform(b \o rest, d) = Perform(b, Perform(rest, d))
  BY <1>1, PerformConcat
<1>5. Append(<<>>, a) = b /\ <<>> \in Seq(Action)
  OBVIOUS
<1> HIDE DEF b
<1>6. /\ [Perform(rest, d) EXCEPT ![a.key] = a.value] \in Docs
      /\ Perform(b, Perform(rest, d)) =
           Perform(<<>>, [Perform(rest, d) EXCEPT ![a.key] = a.value])
  BY <1>1, <1>3, <1>5, PerformAppend
<1>7. Perform(b, Perform(rest, d)) = [Perform(rest, d) EXCEPT ![a.key] = a.value]
  BY <1>6, PerformEmpty
<1> QED BY <1>1, <1>2, <1>4, <1>7 DEF rest, a

(* The same for groups: the first that sets a key says what it was.         *)
NotSet(groups, i, k) == \A j \in i .. Len(groups) : Untouched(groups[j].actions, k)
SetBy(groups, i, j, k) ==
  /\ j \in i .. Len(groups) /\ ~ Untouched(groups[j].actions, k)
  /\ \A h \in i .. Len(groups) : h < j => Untouched(groups[h].actions, k)

LEMMA BeforeIs ==
  ASSUME NEW gs \in Seq(Group), NEW i \in Nat \ {0}, NEW d \in Docs, NEW k \in Keys
  PROVE  /\ NotSet(gs, i, k) => Before(gs, i, d)[k] = d[k]
         /\ \A j : SetBy(gs, i, j, k) => Before(gs, i, d)[k] = Perform(gs[j].actions, d)[k]
         /\ NotSet(gs, i, k) \/ \E j \in i .. Len(gs) : SetBy(gs, i, j, k)
<1> DEFINE S == Setting(gs, i, k)
<1>0. \A j \in i .. Len(gs) : j \in S <=> ~ Untouched(gs[j].actions, k)
  BY DEF Setting, On, Untouched
<1>1. Len(gs) \in Nat /\ S \subseteq i .. Len(gs)
  BY DEF Setting
<1>2. /\ S # {} => Min(S) \in S /\ \A j \in S : Min(S) <= j
      /\ \A j \in S : (\A h \in S : j <= h) => Min(S) = j
  <2> DEFINE n == Len(gs)
  <2>1. n \in Nat /\ i \in Nat /\ S \in SUBSET (i .. n)
    BY <1>1
  <2> HIDE DEF n, S
  <2> QED BY <2>1, MinOf
<1>3. Before(gs, i, d)[k] = IF S = {} THEN d[k] ELSE Perform(gs[Min(S)].actions, d)[k]
  BY DEF Before
<1> HIDE DEF S
<1>4. NotSet(gs, i, k) <=> S = {}
  BY <1>0, <1>1 DEF NotSet
<1>5. ASSUME NEW j, SetBy(gs, i, j, k) PROVE Before(gs, i, d)[k] = Perform(gs[j].actions, d)[k]
  <2>1. j \in S
    BY <1>0, <1>5 DEF SetBy
  <2>2. ASSUME NEW h \in S PROVE j <= h
    <3>1. h \in i .. Len(gs) /\ ~ Untouched(gs[h].actions, k)
      BY <1>0, <1>1
    <3>2. ~ (h < j)
      BY <1>5, <3>1 DEF SetBy
    <3> QED BY <1>5, <3>1, <3>2 DEF SetBy
  <2>3. Min(S) = j
    BY <1>2, <2>1, <2>2
  <2> QED BY <1>3, <2>1, <2>3
<1>6. ASSUME S # {} PROVE \E j \in i .. Len(gs) : SetBy(gs, i, j, k)
  <2>1. PICK m \in S : \A j \in S : m <= j
    BY <1>2, <1>6
  <2>2. m \in i .. Len(gs) /\ ~ Untouched(gs[m].actions, k)
    BY <1>0, <1>1
  <2>3. ASSUME NEW h \in i .. Len(gs), h < m PROVE Untouched(gs[h].actions, k)
    BY <1>0, <1>1, <2>1, <2>2, <2>3
  <2> QED BY <2>2, <2>3 DEF SetBy
<1> QED BY <1>3, <1>4, <1>5, <1>6

LEMMA GroupFields ==
  ASSUME NEW gs \in Seq(Group), NEW j \in 1 .. Len(gs)
  PROVE  gs[j] \in Group /\ gs[j].actions \in Seq(Action) /\ gs[j].name \in Names
<1>1. gs[j] \in Group
  OBVIOUS
<1> QED BY <1>1 DEF Group

LEMMA BeforeType ==
  ASSUME NEW gs \in Seq(Group), NEW i \in Nat \ {0}, NEW d \in Docs
  PROVE  Before(gs, i, d) \in Docs
<1>1. ASSUME NEW k \in Keys PROVE Before(gs, i, d)[k] \in Values
  <2>1. CASE NotSet(gs, i, k)
    BY <2>1, BeforeIs DEF Docs
  <2>2. CASE \E j \in i .. Len(gs) : SetBy(gs, i, j, k)
    <3>1. PICK j \in i .. Len(gs) : SetBy(gs, i, j, k)
      BY <2>2
    <3>2. Perform(gs[j].actions, d) \in Docs
      BY GroupFields, PerformType
    <3>3. Before(gs, i, d)[k] = Perform(gs[j].actions, d)[k]
      BY <3>1, BeforeIs
    <3> QED BY <3>2, <3>3 DEF Docs
  <2> QED BY <2>1, <2>2, BeforeIs
<1> QED BY <1>1 DEF Before, Docs

(* Nothing is set after the last group.                                     *)
LEMMA BeforeEnd ==
  ASSUME NEW gs \in Seq(Group), NEW i \in Nat \ {0}, NEW d \in Docs,
         \A j \in i .. Len(gs) : gs[j].actions = <<>>
  PROVE  Before(gs, i, d) = d
<1>1. \A k \in Keys : NotSet(gs, i, k)
  BY DEF NotSet, Untouched
<1>2. \A k \in Keys : Before(gs, i, d)[k] = d[k]
  BY <1>1, BeforeIs
<1> QED BY <1>2, BeforeType, SameDoc

(* What a key is set to by a group does not depend on what it was.          *)
LEMMA TouchedIs ==
  ASSUME NEW acts \in Seq(Action), NEW d \in Docs, NEW e \in Docs, NEW k \in Keys,
         ~ Untouched(acts, k)
  PROVE  Perform(acts, d)[k] = Perform(acts, e)[k]
<1>1. PICK j \in 1 .. Len(acts) : Sets(acts, j, k)
  BY PerformIs
<1> QED BY <1>1, PerformIs

LEMMA BeforeAppend ==
  ASSUME NEW gs \in Seq(Group), NEW g \in Group, NEW i \in 1 .. Len(gs) + 1, NEW d \in Docs
  PROVE  /\ Perform(g.actions, d) \in Docs
         /\ Before(Append(gs, g), i, d) = Before(gs, i, Perform(g.actions, d))
<1> DEFINE r == Append(gs, g)
           e == Perform(g.actions, d)
           n == Len(gs)
<1>1. g.actions \in Seq(Action)
  BY DEF Group
<1>2. e \in Docs /\ i \in Nat \ {0}
  BY <1>1, PerformType
<1>3. /\ r \in Seq(Group) /\ n \in Nat /\ Len(r) = n + 1 /\ r[n + 1] = g
      /\ \A j \in 1 .. n : r[j] = gs[j]
  OBVIOUS
<1> HIDE DEF r, e
<1>4. ASSUME NEW k \in Keys PROVE Before(r, i, d)[k] = Before(gs, i, e)[k]
  <2>1. CASE \E j \in i .. n : SetBy(gs, i, j, k)
    <3>1. PICK j \in i .. n : SetBy(gs, i, j, k)
      BY <2>1
    <3>2. j \in 1 .. n /\ r[j] = gs[j]
      BY <1>3
    <3>3. SetBy(r, i, j, k)
      BY <1>3, <3>1, <3>2 DEF SetBy
    <3>4. Perform(gs[j].actions, d)[k] = Perform(gs[j].actions, e)[k]
      BY <1>2, <3>1, <3>2, GroupFields, TouchedIs DEF SetBy
    <3>5. Before(r, i, d)[k] = Perform(r[j].actions, d)[k]
      BY <1>2, <1>3, <3>3, BeforeIs
    <3>6. Before(gs, i, e)[k] = Perform(gs[j].actions, e)[k]
      BY <1>2, <3>1, BeforeIs
    <3> QED BY <3>2, <3>4, <3>5, <3>6
  <2>2. CASE NotSet(gs, i, k) /\ ~ Untouched(g.actions, k)
    <3>1. SetBy(r, i, n + 1, k)
      BY <1>3, <2>2 DEF SetBy, NotSet
    <3>2. Before(r, i, d)[k] = Perform(r[n + 1].actions, d)[k]
      BY <1>2, <1>3, <3>1, BeforeIs
    <3>3. Before(gs, i, e)[k] = e[k]
      BY <1>2, <2>2, BeforeIs
    <3> QED BY <1>3, <3>2, <3>3 DEF e
  <2>3. CASE NotSet(gs, i, k) /\ Untouched(g.actions, k)
    <3>1. NotSet(r, i, k)
      BY <1>3, <2>3 DEF NotSet
    <3>2. Before(r, i, d)[k] = d[k] /\ Before(gs, i, e)[k] = e[k]
      BY <1>2, <1>3, <2>3, <3>1, BeforeIs
    <3>3. e[k] = d[k]
      BY <1>1, <2>3, PerformIs DEF e
    <3> QED BY <3>2, <3>3
  <2> QED BY <1>2, <2>1, <2>2, <2>3, BeforeIs
<1>5. Before(r, i, d) \in Docs /\ Before(gs, i, e) \in Docs
  BY <1>2, <1>3, BeforeType
<1>6. Before(r, i, d) = Before(gs, i, e)
  BY <1>4, <1>5, SameDoc
<1> QED BY <1>2, <1>6 DEF r, e

(* Only the groups from the given one on, and their actions, matter.        *)
LEMMA BeforeShift ==
  ASSUME NEW gs \in Seq(Group), NEW hs \in Seq(Group), NEW m \in Nat,
         Len(gs) = Len(hs) + m,
         \A j \in 1 .. Len(hs) : hs[j].actions = gs[j + m].actions,
         NEW i \in Nat \ {0}, NEW d \in Docs
  PROVE  Before(hs, i, d) = Before(gs, i + m, d)
<1>1. Len(gs) \in Nat /\ Len(hs) \in Nat /\ i + m \in Nat \ {0}
  OBVIOUS
<1>2. ASSUME NEW k \in Keys PROVE Before(hs, i, d)[k] = Before(gs, i + m, d)[k]
  <2>1. CASE \E j \in i .. Len(hs) : SetBy(hs, i, j, k)
    <3>1. PICK j \in i .. Len(hs) : SetBy(hs, i, j, k)
      BY <2>1
    <3>2. j + m \in (i + m) .. Len(gs) /\ gs[j + m].actions = hs[j].actions
      BY <1>1
    <3>3. ASSUME NEW h \in (i + m) .. Len(gs), h < j + m PROVE Untouched(gs[h].actions, k)
      <4>1. h - m \in i .. Len(hs) /\ h - m < j /\ h - m \in 1 .. Len(hs) /\ (h - m) + m = h
        BY <1>1, <3>3
      <4> QED BY <3>1, <4>1 DEF SetBy
    <3>4. SetBy(gs, i + m, j + m, k)
      BY <3>1, <3>2, <3>3 DEF SetBy
    <3>5. Before(gs, i + m, d)[k] = Perform(gs[j + m].actions, d)[k]
      BY <1>1, <3>4, BeforeIs
    <3>6. Before(hs, i, d)[k] = Perform(hs[j].actions, d)[k]
      BY <3>1, BeforeIs
    <3> QED BY <3>2, <3>5, <3>6
  <2>2. CASE NotSet(hs, i, k)
    <3>1. NotSet(gs, i + m, k)
      <4> SUFFICES ASSUME NEW h \in (i + m) .. Len(gs) PROVE Untouched(gs[h].actions, k)
        BY DEF NotSet
      <4>1. h - m \in i .. Len(hs) /\ h - m \in 1 .. Len(hs) /\ (h - m) + m = h
        BY <1>1
      <4> QED BY <2>2, <4>1 DEF NotSet
    <3> QED BY <1>1, <2>2, <3>1, BeforeIs
  <2> QED BY <2>1, <2>2, BeforeIs
<1> QED BY <1>1, <1>2, BeforeType, SameDoc

--------------------------------------------------------------------------
(* A stack within the limit, of groups that do something.                   *)
Fits(stack, n) ==
  /\ n > 0 => Len(stack) <= n
  /\ \A i \in 1 .. Len(stack) : stack[i].actions # <<>>

(* What the calls in and around an undo need: the groups put aside by a     *)
(* redo are unused, and an undo has no more to do than its group says.      *)
UInv ==
  /\ TypeOK
  /\ Fits(undoStack, levels) /\ Fits(redoStack, levels)
  /\ RedoIsFresh
  /\ Unused(call.saved) /\ call.left <= Len(call.group.actions)

LEMMA LevelsAreNat == TypeOK => levels \in Nat
BY LevelsAssumption DEF TypeOK

LEMMA NewGroupIs == /\ NewGroup \in Group /\ NewGroup.actions = <<>> /\ NewGroup.name \in Names
                    /\ <<NewGroup>> \in Seq(Group) /\ Unused(<<NewGroup>>) /\ Unused(<<>>)
                    /\ <<>> \in Seq(Group) /\ Len(<<NewGroup>>) = 1 /\ <<NewGroup>> # <<>>
BY NamesAssumption DEF NewGroup, Group, Unused

LEMMA LastIs ==
  ASSUME NEW gs \in Seq(Group), gs # <<>>
  PROVE  /\ Last(gs) \in Group /\ Last(gs).actions \in Seq(Action) /\ Last(gs).name \in Names
         /\ Last(gs) = gs[Len(gs)] /\ Len(gs) \in 1 .. Len(gs) /\ Len(gs) \in Nat
<1>1. Len(gs) \in 1 .. Len(gs) /\ Len(gs) \in Nat
  OBVIOUS
<1> QED BY <1>1, GroupFields DEF Last

LEMMA EmptyFits == \A n \in Nat : Fits(<<>>, n)
BY DEF Fits

(* A stack that keeps the last groups of another one.                       *)
LEMMA SuffixFits ==
  ASSUME NEW gs \in Seq(Group), NEW hs \in Seq(Group), NEW m \in Nat, NEW n \in Nat,
         Len(gs) = Len(hs) + m, \A j \in 1 .. Len(hs) : hs[j].actions = gs[j + m].actions,
         Fits(gs, n)
  PROVE  Fits(hs, n)
<1>1. \A j \in 1 .. Len(hs) : j + m \in 1 .. Len(gs)
  OBVIOUS
<1>2. n > 0 => Len(hs) <= n
  <2>1. Len(hs) \in Nat /\ Len(gs) \in Nat
    OBVIOUS
  <2> QED BY <2>1 DEF Fits
<1> QED BY <1>1, <1>2 DEF Fits

(* Without the first m elements, or with all of them.                       *)
LEMMA SuffixOf ==
  ASSUME NEW T, NEW seq \in Seq(T), NEW m \in Nat, m <= Len(seq)
  PROVE  LET r == SubSeq(seq, m + 1, Len(seq)) IN
         /\ r \in Seq(T) /\ Len(seq) = Len(r) + m /\ Len(r) = Len(seq) - m
         /\ \A j \in 1 .. Len(r) : r[j] = seq[j + m]
<1>1. Len(seq) \in Nat /\ Len(SubSeq(seq, m + 1, Len(seq))) = Len(seq) - m
  OBVIOUS
<1>2. \A j \in 1 .. Len(seq) - m : SubSeq(seq, m + 1, Len(seq))[j] = seq[j + m]
  BY <1>1
<1> QED BY <1>1, <1>2

LEMMA AllOf ==
  ASSUME NEW T, NEW seq \in Seq(T)
  PROVE  \E m \in Nat : /\ Len(seq) = Len(seq) + m
                       /\ \A j \in 1 .. Len(seq) : seq[j] = seq[j + m]
<1>1. Len(seq) \in Nat /\ 0 \in Nat
  OBVIOUS
<1>2. \A j \in 1 .. Len(seq) : j + 0 = j
  BY <1>1
<1> QED BY <1>1, <1>2

LEMMA TailIs ==
  ASSUME NEW T, NEW seq \in Seq(T), seq # <<>>
  PROVE  /\ Tail(seq) \in Seq(T) /\ Len(seq) = Len(Tail(seq)) + 1
         /\ \A j \in 1 .. Len(Tail(seq)) : Tail(seq)[j] = seq[j + 1]
OBVIOUS

(* What a stack has before the finished group is pushed.                    *)
Room(stack) == IF levels > 0 /\ Len(stack) = levels THEN Tail(stack) ELSE stack

LEMMA RoomIs ==
  ASSUME TypeOK, NEW stack \in Seq(Group)
  PROVE  /\ Room(stack) \in Seq(Group)
         /\ \E m \in Nat : /\ Len(stack) = Len(Room(stack)) + m
                           /\ \A j \in 1 .. Len(Room(stack)) : Room(stack)[j] = stack[j + m]
         /\ levels > 0 /\ Len(stack) <= levels => Len(Room(stack)) < levels
<1>1. levels \in Nat /\ Len(stack) \in Nat
  BY LevelsAreNat
<1>2. CASE levels > 0 /\ Len(stack) = levels
  <2>1. stack # <<>> /\ Room(stack) = Tail(stack)
    BY <1>2 DEF Room
  <2>2. /\ Tail(stack) \in Seq(Group) /\ Len(stack) = Len(Tail(stack)) + 1
        /\ \A j \in 1 .. Len(Tail(stack)) : Tail(stack)[j] = stack[j + 1]
    BY <2>1, TailIs
  <2>3. Len(Tail(stack)) \in Nat
    BY <2>2
  <2> QED BY <1>1, <1>2, <2>1, <2>2, <2>3
<1>3. CASE ~ (levels > 0 /\ Len(stack) = levels)
  <2>1. Room(stack) = stack
    BY <1>3 DEF Room
  <2> QED BY <1>1, <1>3, <2>1, AllOf
<1> QED BY <1>2, <1>3

LEMMA PushFits ==
  ASSUME TypeOK, NEW stack \in Seq(Group), NEW g \in Group
  PROVE  /\ Push(stack, g) \in Seq(Group)
         /\ Push(stack, g) = (IF g.actions = <<>> THEN stack ELSE Append(Room(stack), g))
         /\ Fits(stack, levels) => Fits(Push(stack, g), levels)
<1> DEFINE r == Room(stack)
           p == Append(r, g)
<1>1. Push(stack, g) = IF g.actions = <<>> THEN stack ELSE p
  BY DEF Push, Room
<1>2. r \in Seq(Group)
  BY RoomIs
<1>3. PICK m \in Nat : Len(stack) = Len(r) + m /\ \A j \in 1 .. Len(r) : r[j] = stack[j + m]
  BY RoomIs
<1>4. levels > 0 /\ Len(stack) <= levels => Len(r) < levels
  BY RoomIs
<1> HIDE DEF r
<1>5. /\ p \in Seq(Group) /\ Len(r) \in Nat /\ Len(p) = Len(r) + 1 /\ p[Len(r) + 1] = g
      /\ \A i \in 1 .. Len(r) : p[i] = r[i]
      /\ 1 .. Len(p) = 1 .. Len(r) \cup {Len(r) + 1}
  BY <1>2, AppendIs
<1> HIDE DEF p
<1>6. ASSUME Fits(stack, levels), g.actions # <<>> PROVE Fits(p, levels)
  <2>1. Fits(r, levels)
    BY <1>2, <1>3, <1>6, SuffixFits, LevelsAreNat
  <2>2. levels > 0 => Len(p) <= levels
    BY <1>4, <1>5, <1>6, LevelsAreNat DEF Fits
  <2> QED BY <1>5, <1>6, <2>1, <2>2 DEF Fits
<1> QED BY <1>1, <1>5, <1>6 DEF r, p

LEMMA FrontFits ==
  ASSUME NEW stack \in Seq(Group), stack # <<>>, NEW n \in Nat
  PROVE  /\ Front(stack) \in Seq(Group) /\ (Fits(stack, n) => Fits(Front(stack), n))
         /\ stack = Append(Front(stack), Last(stack))
<1>1. /\ Front(stack) \in Seq(Group) /\ Len(stack) \in Nat /\ Len(Front(stack)) = Len(stack) - 1
      /\ \A i \in 1 .. Len(Front(stack)) : i \in 1 .. Len(stack) /\ Front(stack)[i] = stack[i]
  BY FrontIs
<1>2. Fits(stack, n) => Fits(Front(stack), n)
  BY <1>1 DEF Fits
<1>3. stack = Append(Front(stack), Last(stack))
  <2>1. Last(stack) = stack[Len(stack)] /\ Last(stack) \in Group /\ Len(stack) \in 1 .. Len(stack)
    BY LastIs
  <2> DEFINE r == Front(stack)
             x == Last(stack)
  <2>2. /\ r \in Seq(Group) /\ x \in Group /\ Len(r) = Len(stack) - 1 /\ x = stack[Len(stack)]
        /\ \A i \in 1 .. Len(r) : r[i] = stack[i]
    BY <1>1, <2>1
  <2> HIDE DEF r, x
  <2> QED BY <1>1, <2>2 DEF r, x
<1> QED BY <1>1, <1>2, <1>3

LEMMA RenamedIs ==
  ASSUME NEW stack \in Seq(Group), call.group.name \in Names
  PROVE  /\ Renamed(stack) \in Seq(Group) /\ Len(Renamed(stack)) = Len(stack)
         /\ Len(stack) \in Nat
         /\ \A i \in 1 .. Len(stack) :
              Renamed(stack)[i] = IF i = Len(stack) THEN [stack[i] EXCEPT !.name = call.group.name]
                                                    ELSE stack[i]
         /\ \A i \in 1 .. Len(stack) : Renamed(stack)[i].actions = stack[i].actions
<1>1. Len(stack) \in Nat
  OBVIOUS
<1>2. CASE stack = <<>>
  BY <1>2 DEF Renamed
<1>3. CASE stack # <<>>
  <2> DEFINE g == [stack[Len(stack)] EXCEPT !.name = call.group.name]
             r == [stack EXCEPT ![Len(stack)] = g]
  <2>1. Len(stack) \in 1 .. Len(stack) /\ stack[Len(stack)] \in Group
    BY <1>3, LastIs
  <2>2. g \in Group /\ g.actions = stack[Len(stack)].actions
    BY <2>1 DEF Group
  <2>3. Renamed(stack) = r
    BY <1>3 DEF Renamed
  <2> HIDE DEF g
  <2>4. /\ r \in Seq(Group) /\ Len(r) = Len(stack)
        /\ \A i \in 1 .. Len(stack) : r[i] = IF i = Len(stack) THEN g ELSE stack[i]
    BY <2>1, <2>2
  <2> QED BY <1>1, <2>2, <2>3, <2>4 DEF g
<1> QED BY <1>2, <1>3

LEMMA RenamedFits ==
  ASSUME NEW stack \in Seq(Group), call.group.name \in Names, NEW n \in Nat, Fits(stack, n)
  PROVE  Renamed(stack) \in Seq(Group) /\ Fits(Renamed(stack), n)
BY RenamedIs DEF Fits

LEMMA WithoutFits ==
  ASSUME NEW stack \in Seq(Group), NEW k, NEW n \in Nat, Fits(stack, n)
  PROVE  /\ Without(stack, k) \in Seq(Group) /\ Fits(Without(stack, k), n)
         /\ Len(Without(stack, k)) <= Len(stack) /\ Len(stack) \in Nat
<1> DEFINE S == {a \in Action : a.key # k}
           left == [i \in 1 .. Len(stack) |-> [stack[i] EXCEPT !.actions = Only(@, S)]]
           r == Only(left, {g \in ToSet(left) : g.actions # <<>>})
<1>1. Without(stack, k) = r
  BY DEF Without
<1> HIDE DEF S
<1>2. \A i \in 1 .. Len(stack) : [stack[i] EXCEPT !.actions = Only(@, S)] \in Group
  <2> SUFFICES ASSUME NEW i \in 1 .. Len(stack)
               PROVE  [stack[i] EXCEPT !.actions = Only(@, S)] \in Group
    OBVIOUS
  <2>1. stack[i] \in Group /\ stack[i].actions \in Seq(Action)
    BY GroupFields
  <2>2. Only(stack[i].actions, S) \in Seq(Action)
    BY <2>1, OnlyKeeps
  <2> QED BY <2>1, <2>2 DEF Group
<1>3. left \in Seq(Group) /\ Len(left) = Len(stack) /\ Len(stack) \in Nat
  BY <1>2
<1> HIDE DEF left
<1>4. /\ r \in Seq(Group) /\ Len(r) <= Len(left) /\ Len(r) \in Nat
      /\ ToSet(r) = ToSet(left) \cap {g \in ToSet(left) : g.actions # <<>>}
  <2>1. r \in Seq(Group) /\ Len(r) <= Len(left)
    BY <1>3, OnlyComesFrom
  <2>2. ToSet(r) = ToSet(left) \cap {g \in ToSet(left) : g.actions # <<>>}
    BY <1>3, OnlyKeeps
  <2> HIDE DEF r
  <2> QED BY <2>1, <2>2
<1> HIDE DEF r
<1>5. \A i \in 1 .. Len(r) : r[i] \in ToSet(r)
  BY <1>4, InSetOf
<1>6. Fits(r, n)
  BY <1>3, <1>4, <1>5 DEF Fits
<1> QED BY <1>1, <1>3, <1>4, <1>6

LEMMA TruncatedIs ==
  ASSUME NEW stack \in Seq(Group), NEW n \in Nat
  PROVE  /\ Truncated(n, stack) \in Seq(Group)
         /\ \E m \in Nat :
              /\ Len(stack) = Len(Truncated(n, stack)) + m
              /\ \A j \in 1 .. Len(Truncated(n, stack)) : Truncated(n, stack)[j] = stack[j + m]
         /\ n > 0 => Len(Truncated(n, stack)) <= n
<1>1. Len(stack) \in Nat
  OBVIOUS
<1>2. CASE n > 0 /\ Len(stack) > n
  <2> DEFINE m == Len(stack) - n
  <2>1. m \in Nat /\ Truncated(n, stack) = SubSeq(stack, m + 1, Len(stack)) /\ Len(stack) = n + m
    BY <1>1, <1>2 DEF Truncated, LastOf
  <2> HIDE DEF m
  <2> DEFINE r == SubSeq(stack, m + 1, Len(stack))
  <2>2. m <= Len(stack)
    BY <1>1, <2>1
  <2>3. /\ r \in Seq(Group) /\ Len(stack) = Len(r) + m /\ Len(r) = Len(stack) - m
        /\ \A j \in 1 .. Len(r) : r[j] = stack[j + m]
    BY <2>1, <2>2, SuffixOf
  <2> HIDE DEF r
  <2>4. Truncated(n, stack) = r
    BY <2>1 DEF r
  <2>5. Len(r) <= n
    BY <1>1, <2>1, <2>3
  <2> QED BY <2>1, <2>3, <2>4, <2>5
<1>3. CASE ~ (n > 0 /\ Len(stack) > n)
  <2>1. Truncated(n, stack) = stack
    BY <1>3 DEF Truncated
  <2> QED BY <1>1, <1>3, <2>1, AllOf
<1> QED BY <1>2, <1>3

LEMMA TruncatedFits ==
  ASSUME NEW stack \in Seq(Group), NEW n \in Nat, NEW l \in Nat, Fits(stack, l)
  PROVE  Fits(Truncated(n, stack), n)
<1>1. PICK m \in Nat :
        /\ Len(stack) = Len(Truncated(n, stack)) + m
        /\ \A j \in 1 .. Len(Truncated(n, stack)) : Truncated(n, stack)[j] = stack[j + m]
  BY TruncatedIs
<1>2. Truncated(n, stack) \in Seq(Group) /\ (n > 0 => Len(Truncated(n, stack)) <= n)
  BY TruncatedIs
<1> DEFINE r == Truncated(n, stack)
<1> HIDE DEF r
<1>3. \A j \in 1 .. Len(r) : j + m \in 1 .. Len(stack)
  BY <1>1, <1>2 DEF r
<1> QED BY <1>1, <1>2, <1>3 DEF Fits, r

--------------------------------------------------------------------------
(* Sequences are equal that agree at every place.                           *)
LEMMA SameSeq ==
  ASSUME NEW T, NEW a \in Seq(T), NEW b \in Seq(T), Len(a) = Len(b),
         \A i \in 1 .. Len(a) : a[i] = b[i]
  PROVE  a = b
OBVIOUS

(* The last of the open groups gets more actions, or a name.                *)
LEMMA LastBecomes ==
  ASSUME NEW gs \in Seq(Group), gs # <<>>, NEW g \in Group
  PROVE  LET r == [gs EXCEPT ![Len(gs)] = g] IN
         /\ r \in Seq(Group) /\ Len(r) = Len(gs) /\ r # <<>>
         /\ r = Append(Front(gs), g) /\ Front(gs) \in Seq(Group)
         /\ Front(r) = Front(gs) /\ Last(r) = g
         /\ \A i \in 1 .. Len(gs) : r[i] = IF i = Len(gs) THEN g ELSE gs[i]
<1> DEFINE r == [gs EXCEPT ![Len(gs)] = g]
           f == Front(gs)
<1>1. Len(gs) \in Nat /\ Len(gs) \in 1 .. Len(gs)
  BY LastIs
<1>2. /\ r \in Seq(Group) /\ Len(r) = Len(gs) /\ r # <<>>
      /\ \A i \in 1 .. Len(gs) : r[i] = IF i = Len(gs) THEN g ELSE gs[i]
  BY <1>1
<1> HIDE DEF r
<1>3. /\ f \in Seq(Group) /\ Len(f) = Len(gs) - 1
      /\ \A i \in 1 .. Len(f) : i \in 1 .. Len(gs) /\ f[i] = gs[i]
  BY FrontIs
<1>4. /\ Front(r) \in Seq(Group) /\ Len(Front(r)) = Len(r) - 1
      /\ \A i \in 1 .. Len(Front(r)) : i \in 1 .. Len(r) /\ Front(r)[i] = r[i]
  BY <1>2, FrontIs
<1> HIDE DEF f
<1>5. r = Append(f, g)
  <2>1. /\ Append(f, g) \in Seq(Group) /\ Len(Append(f, g)) = Len(r)
        /\ \A i \in 1 .. Len(f) : Append(f, g)[i] = gs[i]
        /\ Append(f, g)[Len(gs)] = g
    BY <1>1, <1>2, <1>3
  <2>2. \A i \in 1 .. Len(gs) : i = Len(gs) \/ i \in 1 .. Len(f)
    BY <1>1, <1>3
  <2>3. \A i \in 1 .. Len(gs) : Append(f, g)[i] = r[i]
    BY <2>1, <2>2, <1>1, <1>2, <1>3
  <2> QED BY <2>1, <2>3, <1>2, SameSeq
<1>6. Front(r) = f
  <2>1. Len(Front(r)) = Len(f) /\ \A i \in 1 .. Len(f) : i # Len(gs)
    BY <1>1, <1>2, <1>3, <1>4
  <2>2. \A i \in 1 .. Len(f) : Front(r)[i] = f[i]
    BY <2>1, <1>2, <1>3, <1>4
  <2> QED BY <2>1, <2>2, <1>3, <1>4, SameSeq
<1>7. Last(r) = g
  BY <1>1, <1>2 DEF Last
<1> QED BY <1>2, <1>3, <1>5, <1>6, <1>7 DEF r, f

LEMMA MoreActions ==
  ASSUME NEW g \in Group, NEW acts \in Seq(Action)
  PROVE  /\ [g EXCEPT !.actions = acts] \in Group
         /\ [g EXCEPT !.actions = acts].actions = acts
         /\ [g EXCEPT !.actions = acts].name = g.name
BY DEF Group

LEMMA NewName ==
  ASSUME NEW g \in Group, NEW n \in Names
  PROVE  /\ [g EXCEPT !.name = n] \in Group
         /\ [g EXCEPT !.name = n].actions = g.actions
         /\ [g EXCEPT !.name = n].name = n
BY DEF Group

(* The open groups after an action is registered.                           *)
Opened == IF open = <<>> THEN <<NewGroup>> ELSE open
Extended(gs, a) == [Last(gs) EXCEPT !.actions = Append(@, a)]

LEMMA WithActionIs ==
  ASSUME open \in Seq(Group), NEW a \in Action, WithAction(a)
  PROVE  /\ Opened \in Seq(Group) /\ Opened # <<>> /\ Extended(Opened, a) \in Group
         /\ Extended(Opened, a).actions = Append(Last(Opened).actions, a)
         /\ Extended(Opened, a).name = Last(Opened).name
         /\ open' = [Opened EXCEPT ![Len(Opened)] = Extended(Opened, a)]
         /\ open' \in Seq(Group) /\ open' # <<>> /\ Len(open') = Len(Opened)
<1>1. Opened \in Seq(Group) /\ Opened # <<>>
  BY NewGroupIs DEF Opened
<1> DEFINE o == Opened
           g == Last(o)
<1>2. g \in Group /\ g.actions \in Seq(Action) /\ g = o[Len(o)] /\ Len(o) \in 1 .. Len(o)
  BY <1>1, LastIs
<1>3. open' = [o EXCEPT ![Len(o)].actions = Append(@, a)]
  BY DEF WithAction, Opened
<1>4. Append(g.actions, a) \in Seq(Action)
  BY <1>2
<1>5. /\ Extended(o, a) = [g EXCEPT !.actions = Append(g.actions, a)]
      /\ Extended(o, a) \in Group
      /\ Extended(o, a).actions = Append(g.actions, a) /\ Extended(o, a).name = g.name
  BY <1>2, <1>4, MoreActions DEF Extended
<1>6. open' = [o EXCEPT ![Len(o)] = Extended(o, a)]
  BY <1>2, <1>3, <1>5
<1>7. open' \in Seq(Group) /\ Len(open') = Len(o) /\ open' # <<>>
  BY <1>1, <1>5, <1>6, LastBecomes
<1> QED BY <1>1, <1>5, <1>6, <1>7

(* What the end of a group makes of the open groups and the stacks.         *)
Merged == [Last(Front(open)) EXCEPT !.actions = @ \o Last(open).actions]

LEMMA EndGroupIs ==
  ASSUME TypeOK, open # <<>>, EndGroup
  PROVE  /\ Front(open) \in Seq(Group) /\ Last(open) \in Group
         /\ open' \in Seq(Group) /\ undoStack' \in Seq(Group) /\ redoStack' \in Seq(Group)
         /\ \/ /\ Front(open) = <<>> /\ open' = <<>>
               /\ IF isUndoing
                  THEN redoStack' = Push(redoStack, Last(open)) /\ UNCHANGED undoStack
                  ELSE undoStack' = Push(undoStack, Last(open)) /\ UNCHANGED redoStack
            \/ /\ Front(open) # <<>> /\ UNCHANGED stacks
               /\ Merged \in Group
               /\ Merged.actions = Last(Front(open)).actions \o Last(open).actions
               /\ Merged.name = Last(Front(open)).name
               /\ open' = [Front(open) EXCEPT ![Len(Front(open))] = Merged]
<1> DEFINE f == Front(open)
           g == Last(open)
<1>0. open \in Seq(Group) /\ undoStack \in Seq(Group) /\ redoStack \in Seq(Group)
  BY DEF TypeOK
<1>1. f \in Seq(Group) /\ g \in Group /\ g.actions \in Seq(Action)
  BY <1>0, FrontIs, LastIs
<1>2. CASE f = <<>>
  <2>1. /\ open' = <<>>
        /\ IF isUndoing
           THEN redoStack' = Push(redoStack, g) /\ UNCHANGED undoStack
           ELSE undoStack' = Push(undoStack, g) /\ UNCHANGED redoStack
    BY <1>2 DEF EndGroup
  <2>2. Push(undoStack, g) \in Seq(Group) /\ Push(redoStack, g) \in Seq(Group)
    BY <1>0, <1>1, PushFits
  <2> QED BY <1>0, <1>1, <1>2, <2>1, <2>2, NewGroupIs
<1>3. CASE f # <<>>
  <2>1. /\ UNCHANGED stacks
        /\ open' = [f EXCEPT ![Len(f)].actions = @ \o g.actions]
    BY <1>3 DEF EndGroup
  <2>2. /\ Last(f) \in Group /\ Last(f).actions \in Seq(Action) /\ Last(f) = f[Len(f)]
        /\ Len(f) \in 1 .. Len(f)
    BY <1>1, <1>3, LastIs
  <2>3. Last(f).actions \o g.actions \in Seq(Action)
    BY <1>1, <2>2, ConcatIs
  <2>4. /\ Merged = [Last(f) EXCEPT !.actions = Last(f).actions \o g.actions]
        /\ Merged \in Group /\ Merged.actions = Last(f).actions \o g.actions
        /\ Merged.name = Last(f).name
    BY <2>2, <2>3, MoreActions DEF Merged
  <2> HIDE DEF f, g
  <2>5. open' = [f EXCEPT ![Len(f)] = Merged]
    BY <2>1, <2>2, <2>4
  <2>6. open' \in Seq(Group)
    BY <1>1, <1>3, <2>4, <2>5, LastBecomes
  <2> QED BY <1>0, <1>1, <1>3, <2>1, <2>4, <2>5, <2>6 DEF stacks, f, g
<1> QED BY <1>2, <1>3

--------------------------------------------------------------------------
(* UInv is inductive: one lemma per action.                                 *)
LEMMA SetKeyIs ==
  ASSUME TypeOK, NEW k \in Keys, NEW v \in Values, SetKey(k, v)
  PROVE  /\ doc' \in Docs /\ doc' = [doc EXCEPT ![k] = v]
         /\ open' \in Seq(Group) /\ pending' \in BOOLEAN
         /\ [key |-> k, value |-> doc[k]] \in Action
         /\ redoStack' = redoStack \/ redoStack' = <<>>
         /\ \/ disableCount > 0 /\ UNCHANGED <<open, redoStack>>
            \/ /\ disableCount = 0
               /\ WithAction([key |-> k, value |-> doc[k]])
               /\ redoStack' = IF Busy THEN redoStack ELSE <<>>
<1> DEFINE a == [key |-> k, value |-> doc[k]]
<1>1. doc \in Docs /\ open \in Seq(Group) /\ disableCount \in Nat /\ pending \in BOOLEAN
      /\ groupsByEvent \in BOOLEAN
  BY DEF TypeOK, Docs
<1>2. a \in Action
  BY <1>1 DEF Action, Docs
<1>3. doc' \in Docs /\ doc' = [doc EXCEPT ![k] = v] /\ Register(a)
  BY <1>1 DEF SetKey, Docs
<1> HIDE DEF a
<1>4. CASE disableCount > 0
  BY <1>1, <1>2, <1>3, <1>4 DEF Register, a
<1>5. CASE ~ (disableCount > 0)
  <2>1. /\ WithAction(a) /\ redoStack' = (IF Busy THEN redoStack ELSE <<>>)
        /\ pending' = (pending \/ groupsByEvent)
    BY <1>3, <1>5 DEF Register
  <2>2. open' \in Seq(Group)
    BY <1>1, <1>2, <2>1, WithActionIs
  <2>3. disableCount = 0
    BY <1>1, <1>5
  <2> QED BY <1>1, <1>2, <1>3, <2>1, <2>2, <2>3 DEF a
<1> QED BY <1>4, <1>5

(* What the flags, settings and the call need of a step.                    *)
StillTyped ==
  /\ {isUndoing, isRedoing, groupsByEvent, pending} \subseteq BOOLEAN
  /\ disableCount \in Nat /\ levels \in Levels \cup {0}
  /\ call \in [kind : {"none", "undo", "redo"}, group : Group, left : Nat,
               saved : Seq(Group)]
  /\ Unused(call.saved) /\ call.left <= Len(call.group.actions)

LEMMA UInvIs ==
  UInv <=> /\ StillTyped /\ doc \in Docs
           /\ open \in Seq(Group) /\ undoStack \in Seq(Group) /\ redoStack \in Seq(Group)
           /\ Fits(undoStack, levels) /\ Fits(redoStack, levels)
           /\ RedoIsFresh
BY DEF UInv, TypeOK, StillTyped, Docs

LEMMA UInvIsNext ==
  UInv' <=> /\ StillTyped' /\ doc' \in Docs
            /\ open' \in Seq(Group) /\ undoStack' \in Seq(Group) /\ redoStack' \in Seq(Group)
            /\ Fits(undoStack', levels') /\ Fits(redoStack', levels')
            /\ RedoIsFresh'
BY DEF UInv, TypeOK, StillTyped, Docs, Fits

LEMMA SameCall ==
  ASSUME UInv, UNCHANGED <<isUndoing, isRedoing, groupsByEvent, disableCount, levels, call>>,
         pending' \in BOOLEAN
  PROVE  StillTyped'
BY UInvIs DEF StillTyped, Unused

LEMMA NoCallIs ==
  /\ NoCall \in [kind : {"none", "undo", "redo"}, group : Group, left : Nat, saved : Seq(Group)]
  /\ Unused(NoCall.saved) /\ NoCall.left <= Len(NoCall.group.actions)
  /\ NoCall.group.actions = <<>> /\ NoCall.kind = "none"
BY NewGroupIs DEF NoCall, Unused

LEMMA UInvInit == Init => UInv
<1> SUFFICES ASSUME Init PROVE UInv
  OBVIOUS
<1>1. StillTyped /\ doc \in Docs
  BY NoCallIs DEF Init, StillTyped, Docs
<1>2. /\ open \in Seq(Group) /\ undoStack \in Seq(Group) /\ redoStack \in Seq(Group)
      /\ Fits(undoStack, levels) /\ Fits(redoStack, levels) /\ RedoIsFresh
  BY NewGroupIs, EmptyFits DEF Init, RedoIsFresh
<1> QED BY <1>1, <1>2, UInvIs

LEMMA UInvEdit ==
  ASSUME UInv, NEW k \in Keys, NEW v \in Values, Edit(k, v)
  PROVE  UInv'
<1>1. TypeOK /\ SetKey(k, v) /\ UNCHANGED <<undoStack, isUndoing, isRedoing, settings, call>>
  BY DEF UInv, Edit
<1>2. /\ doc' \in Docs /\ open' \in Seq(Group) /\ pending' \in BOOLEAN
      /\ redoStack' = redoStack \/ redoStack' = <<>>
      /\ UNCHANGED <<open, redoStack>> \/ redoStack' = IF Busy THEN redoStack ELSE <<>>
  BY <1>1, SetKeyIs
<1>3. StillTyped'
  BY <1>1, <1>2, SameCall DEF settings
<1>4. RedoIsFresh'
  BY <1>1, <1>2, UInvIs DEF RedoIsFresh, Busy, Unused
<1>5. levels' = levels /\ levels \in Nat
  BY <1>1, LevelsAreNat DEF settings
<1> QED BY <1>1, <1>2, <1>3, <1>4, <1>5, UInvIs, UInvIsNext, EmptyFits, NewGroupIs

(* The end of a group, at the end of an event or anywhere.                  *)
LEMMA EndGroupKeeps ==
  ASSUME UInv, open # <<>>, EndGroup, UNCHANGED <<isUndoing, isRedoing>>
  PROVE  /\ open' \in Seq(Group) /\ undoStack' \in Seq(Group) /\ redoStack' \in Seq(Group)
         /\ Fits(undoStack', levels) /\ Fits(redoStack', levels)
         /\ RedoIsFresh'
<1>0. /\ TypeOK /\ open \in Seq(Group) /\ undoStack \in Seq(Group) /\ redoStack \in Seq(Group)
      /\ Fits(undoStack, levels) /\ Fits(redoStack, levels) /\ RedoIsFresh
  BY UInvIs DEF UInv
<1>1. /\ Front(open) \in Seq(Group) /\ Last(open) \in Group
      /\ open' \in Seq(Group) /\ undoStack' \in Seq(Group) /\ redoStack' \in Seq(Group)
  BY <1>0, EndGroupIs
<1>2. CASE /\ open' = <<>>
           /\ IF isUndoing
              THEN redoStack' = Push(redoStack, Last(open)) /\ UNCHANGED undoStack
              ELSE undoStack' = Push(undoStack, Last(open)) /\ UNCHANGED redoStack
  <2>1. Fits(Push(redoStack, Last(open)), levels) /\ Fits(Push(undoStack, Last(open)), levels)
    BY <1>0, <1>1, PushFits
  <2>2. Unused(open')
    BY <1>2 DEF Unused
  <2> QED BY <1>0, <1>1, <1>2, <2>1, <2>2 DEF RedoIsFresh
<1>3. CASE /\ Front(open) # <<>> /\ UNCHANGED stacks
           /\ Merged \in Group
           /\ Merged.actions = Last(Front(open)).actions \o Last(open).actions
           /\ open' = [Front(open) EXCEPT ![Len(Front(open))] = Merged]
  <2> DEFINE f == Front(open)
  <2>1. /\ f \in Seq(Group) /\ Len(open) \in Nat /\ Len(f) = Len(open) - 1
        /\ \A i \in 1 .. Len(f) : i \in 1 .. Len(open) /\ f[i] = open[i]
    BY <1>0, FrontIs
  <2>2. Last(open) = open[Len(open)] /\ Len(open) \in 1 .. Len(open)
    BY <1>0, LastIs
  <2>3. Last(f) = f[Len(f)] /\ Len(f) \in 1 .. Len(f)
    BY <1>3, <2>1, LastIs
  <2> HIDE DEF f
  <2>4. Len(open') = Len(f) /\ \A i \in 1 .. Len(f) : open'[i] = IF i = Len(f) THEN Merged ELSE f[i]
    BY <1>3, <2>1, LastBecomes DEF f
  <2>5. Unused(open) => Unused(open')
    <3> SUFFICES ASSUME Unused(open), NEW i \in 1 .. Len(open') PROVE open'[i].actions = <<>>
      BY DEF Unused
    <3>1. f[i].actions = <<>>
      BY <2>1, <2>4 DEF Unused
    <3>2. Last(f).actions = <<>> /\ Last(open).actions = <<>>
      BY <2>1, <2>2, <2>3 DEF Unused
    <3>3. Merged.actions = <<>>
      BY <1>3, <3>2 DEF f
    <3> QED BY <2>4, <3>1, <3>3
  <2> QED BY <1>0, <1>1, <1>3, <2>5 DEF stacks, RedoIsFresh, Busy
<1> QED BY <1>0, <1>1, <1>2, <1>3, EndGroupIs

LEMMA UInvBeginUndoGrouping == ASSUME UInv, BeginUndoGrouping PROVE UInv'
<1> DEFINE o == IF open = <<>> /\ groupsByEvent THEN <<NewGroup>> ELSE open
<1>1. open \in Seq(Group) /\ open' = o \o <<NewGroup>> /\ pending \in BOOLEAN
  BY UInvIs DEF BeginUndoGrouping, StillTyped
<1>2. /\ o \in Seq(Group) /\ <<NewGroup>> \in Seq(Group) /\ Len(<<NewGroup>>) = 1
      /\ <<NewGroup>>[1] = NewGroup /\ NewGroup.actions = <<>>
      /\ Unused(open) => Unused(o)
  BY <1>1, NewGroupIs
<1>3. UNCHANGED <<doc, undoStack, redoStack, isUndoing, isRedoing, disableCount, groupsByEvent,
                  levels, pending, call>>
  BY DEF BeginUndoGrouping, stacks, settings
<1>4. StillTyped'
  BY <1>1, <1>3, SameCall
<1> HIDE DEF o
<1>5. /\ open' \in Seq(Group) /\ Len(o) \in Nat /\ Len(open') = Len(o) + 1
      /\ \A i \in 1 .. Len(o) : open'[i] = o[i]
      /\ open'[Len(o) + 1] = NewGroup
  BY <1>1, <1>2
<1>6. Unused(open) => Unused(open')
  BY <1>2, <1>5 DEF Unused
<1>7. RedoIsFresh'
  BY <1>3, <1>6, UInvIs DEF RedoIsFresh, Busy
<1> QED BY <1>3, <1>4, <1>5, <1>7, UInvIs, UInvIsNext

LEMMA UInvEndUndoGrouping == ASSUME UInv, EndUndoGrouping PROVE UInv'
<1>1. open # <<>> /\ EndGroup /\ pending \in BOOLEAN
  BY UInvIs DEF EndUndoGrouping, StillTyped
<1>2. UNCHANGED <<doc, isUndoing, isRedoing, disableCount, groupsByEvent, levels, pending, call>>
  BY DEF EndUndoGrouping, settings
<1>3. StillTyped'
  BY <1>1, <1>2, SameCall
<1> QED BY <1>1, <1>2, <1>3, EndGroupKeeps, UInvIs, UInvIsNext

LEMMA UInvLoop == ASSUME UInv, Loop PROVE UInv'
<1>1. /\ pending' \in BOOLEAN
      /\ (open # <<>> /\ EndGroup) \/ UNCHANGED <<open, undoStack, redoStack>>
  BY DEF Loop, stacks
<1>2. UNCHANGED <<doc, isUndoing, isRedoing, disableCount, groupsByEvent, levels, call>>
  BY DEF Loop, settings
<1>3. StillTyped'
  BY <1>1, <1>2, SameCall
<1>4. CASE UNCHANGED <<open, undoStack, redoStack>>
  <2>1. RedoIsFresh'
    BY <1>2, <1>4, UInvIs DEF RedoIsFresh, Busy, Unused
  <2> QED BY <1>2, <1>3, <1>4, <2>1, UInvIs, UInvIsNext
<1>5. CASE open # <<>> /\ EndGroup
  BY <1>2, <1>3, <1>5, EndGroupKeeps, UInvIs, UInvIsNext
<1> QED BY <1>1, <1>4, <1>5

(* The group the call takes, and what its fields are.                       *)
LEMMA CallIs ==
  ASSUME NEW g \in Group, NEW kind \in {"none", "undo", "redo"}, NEW gs \in Seq(Group),
         Unused(gs), NEW c,
         c = [kind |-> kind, group |-> g, left |-> Len(g.actions), saved |-> gs]
  PROVE  /\ c \in [kind : {"none", "undo", "redo"}, group : Group, left : Nat,
                   saved : Seq(Group)]
         /\ Unused(c.saved) /\ c.left <= Len(c.group.actions)
<1>1. g.actions \in Seq(Action) /\ Len(g.actions) \in Nat
  BY DEF Group
<1> QED BY <1>1

LEMMA UInvUndo == ASSUME UInv, Undo PROVE UInv'
<1> DEFINE ended == IF open = <<>> THEN NewGroup ELSE open[1]
           undos == IF isUndoing THEN undoStack ELSE Push(undoStack, ended)
           redos == IF isUndoing THEN Push(redoStack, ended) ELSE redoStack
           started == [kind |-> "undo", group |-> Last(undos),
                       left |-> Len(Last(undos).actions), saved |-> <<>>]
<1>0. /\ TypeOK /\ open \in Seq(Group) /\ undoStack \in Seq(Group) /\ redoStack \in Seq(Group)
      /\ Fits(undoStack, levels) /\ Fits(redoStack, levels) /\ RedoIsFresh
      /\ levels \in Nat /\ isUndoing \in BOOLEAN /\ isRedoing \in BOOLEAN
  BY UInvIs, LevelsAreNat DEF UInv, TypeOK
<1>1. ended \in Group
  <2>1. open # <<>> => open[1] \in Group
    BY <1>0
  <2> QED BY <2>1, NewGroupIs
<1>2. /\ redoStack' = redos
      /\ UNCHANGED <<doc, isRedoing, disableCount, groupsByEvent, levels, pending>>
      /\ IF Busy \/ undos = <<>>
         THEN undoStack' = undos /\ open' = <<>> /\ UNCHANGED <<isUndoing, call>>
         ELSE /\ undoStack' = Front(undos) /\ open' = <<NewGroup>>
              /\ isUndoing' = TRUE /\ call' = started
  BY DEF Undo, settings
<1> HIDE DEF ended
<1>3. undos \in Seq(Group) /\ redos \in Seq(Group) /\ Fits(undos, levels) /\ Fits(redos, levels)
  BY <1>0, <1>1, PushFits
<1> HIDE DEF undos, redos
<1>4. undos # <<>> => Front(undos) \in Seq(Group) /\ Fits(Front(undos), levels)
                      /\ Last(undos) \in Group
  BY <1>0, <1>3, FrontFits, LastIs
<1>5. Unused(open') /\ open' \in Seq(Group)
  BY <1>2, NewGroupIs
<1>6. RedoIsFresh'
  BY <1>5 DEF RedoIsFresh
<1>7. StillTyped'
  <2>1. CASE Busy \/ undos = <<>>
    <3>1. pending' \in BOOLEAN
      BY <1>2, UInvIs DEF StillTyped
    <3> QED BY <1>2, <2>1, <3>1, SameCall
  <2>2. CASE ~ (Busy \/ undos = <<>>)
    <3>1. /\ call' \in [kind : {"none", "undo", "redo"}, group : Group, left : Nat,
                        saved : Seq(Group)]
          /\ Unused((call').saved) /\ (call').left <= Len((call').group.actions)
      BY <1>2, <1>4, <2>2, CallIs, NewGroupIs
    <3> QED BY <1>2, <2>2, <3>1, UInvIs DEF StillTyped, Unused
  <2> QED BY <2>1, <2>2
<1>8. /\ undoStack' \in Seq(Group) /\ redoStack' \in Seq(Group)
      /\ Fits(undoStack', levels) /\ Fits(redoStack', levels)
  BY <1>2, <1>3, <1>4
<1> QED BY <1>2, <1>5, <1>6, <1>7, <1>8, UInvIs, UInvIsNext

LEMMA UInvRedo == ASSUME UInv, Redo PROVE UInv'
<1> DEFINE g == Last(redoStack)
           started == [kind |-> "redo", group |-> g, left |-> Len(g.actions), saved |-> open]
<1>1. /\ redoStack' = Front(redoStack) /\ redoStack # <<>> /\ open' = <<NewGroup>>
      /\ isRedoing' = TRUE /\ call' = started /\ ~ Busy
      /\ UNCHANGED <<doc, undoStack, isUndoing, disableCount, groupsByEvent, levels, pending>>
  BY DEF Redo, settings
<1>2. /\ redoStack \in Seq(Group) /\ levels \in Nat /\ open \in Seq(Group) /\ Unused(open)
  BY <1>1, UInvIs, LevelsAreNat DEF UInv, RedoIsFresh
<1>3. /\ Front(redoStack) \in Seq(Group) /\ Fits(Front(redoStack), levels)
      /\ g \in Group
  BY <1>1, <1>2, FrontFits, LastIs, UInvIs
<1>4. Unused(open') /\ open' \in Seq(Group)
  BY <1>1, NewGroupIs
<1>5. RedoIsFresh'
  BY <1>4 DEF RedoIsFresh
<1> HIDE DEF g
<1>6. /\ call' \in [kind : {"none", "undo", "redo"}, group : Group, left : Nat,
                    saved : Seq(Group)]
      /\ Unused((call').saved) /\ (call').left <= Len((call').group.actions)
  BY <1>1, <1>2, <1>3, CallIs
<1>7. StillTyped'
  BY <1>1, <1>6, UInvIs DEF StillTyped, Unused
<1> QED BY <1>1, <1>3, <1>4, <1>5, <1>7, UInvIs, UInvIsNext

LEMMA ToInvokeIs ==
  ASSUME StillTyped, call.left > 0
  PROVE  /\ ToInvoke \in Action /\ ToInvoke.key \in Keys /\ ToInvoke.value \in Values
         /\ call.left \in 1 .. Len(call.group.actions) /\ call.group.actions \in Seq(Action)
<1>1. call.group.actions \in Seq(Action) /\ call.left \in 1 .. Len(call.group.actions)
  BY DEF StillTyped, Group
<1>2. ToInvoke \in Action
  BY <1>1 DEF ToInvoke
<1> QED BY <1>1, <1>2 DEF Action

LEMMA UInvInvoke == ASSUME UInv, Invoke PROVE UInv'
<1>0. /\ TypeOK /\ StillTyped /\ levels \in Nat
  BY UInvIs, LevelsAreNat DEF UInv
<1>1. /\ call.left > 0 /\ SetKey(ToInvoke.key, ToInvoke.value)
      /\ call' = [call EXCEPT !.left = call.left - 1]
      /\ UNCHANGED <<undoStack, isUndoing, isRedoing, disableCount, groupsByEvent, levels>>
  BY DEF Invoke, settings
<1>2. /\ doc' \in Docs /\ open' \in Seq(Group) /\ pending' \in BOOLEAN
      /\ redoStack' = redoStack \/ redoStack' = <<>>
      /\ UNCHANGED <<open, redoStack>> \/ redoStack' = IF Busy THEN redoStack ELSE <<>>
  BY <1>0, <1>1, ToInvokeIs, SetKeyIs
<1>3. /\ call' \in [kind : {"none", "undo", "redo"}, group : Group, left : Nat,
                    saved : Seq(Group)]
      /\ (call').saved = call.saved /\ (call').left <= Len((call').group.actions)
  BY <1>0, <1>1, ToInvokeIs DEF StillTyped
<1>4. StillTyped'
  BY <1>0, <1>1, <1>2, <1>3 DEF StillTyped, Unused
<1>5. RedoIsFresh'
  BY <1>1, <1>2, UInvIs DEF RedoIsFresh, Busy, Unused
<1> QED BY <1>0, <1>1, <1>2, <1>4, <1>5, UInvIs, UInvIsNext, EmptyFits, NewGroupIs

LEMMA UInvFinish == ASSUME UInv, Finish PROVE UInv'
<1> DEFINE g == Last(open)
           undos == IF isUndoing THEN undoStack ELSE Push(undoStack, g)
           redos == IF isUndoing THEN Push(redoStack, g) ELSE redoStack
<1>0. /\ TypeOK /\ StillTyped /\ open \in Seq(Group) /\ undoStack \in Seq(Group)
      /\ redoStack \in Seq(Group) /\ levels \in Nat
      /\ Fits(undoStack, levels) /\ Fits(redoStack, levels)
  BY UInvIs, LevelsAreNat DEF UInv
<1>1. /\ open # <<>> /\ open' = call.saved /\ call' = NoCall /\ Stop
      /\ UNCHANGED <<doc, disableCount, groupsByEvent, levels, pending>>
  BY DEF Finish, settings
<1>2. \/ undoStack' = undos /\ redoStack' = Renamed(redos)
      \/ undoStack' = Renamed(undos) /\ redoStack' = redos
  BY DEF Finish
<1>3. g \in Group /\ call.group.name \in Names
  BY <1>0, <1>1, LastIs DEF StillTyped, Group
<1> HIDE DEF g
<1>4. undos \in Seq(Group) /\ redos \in Seq(Group) /\ Fits(undos, levels) /\ Fits(redos, levels)
  BY <1>0, <1>3, PushFits
<1> HIDE DEF undos, redos
<1>5. /\ undoStack' \in Seq(Group) /\ redoStack' \in Seq(Group)
      /\ Fits(undoStack', levels) /\ Fits(redoStack', levels)
  BY <1>0, <1>2, <1>3, <1>4, RenamedFits
<1>6. open' \in Seq(Group) /\ Unused(open')
  BY <1>0, <1>1 DEF StillTyped
<1>7. StillTyped'
  BY <1>0, <1>1, NoCallIs DEF StillTyped, Stop, Unused
<1>8. RedoIsFresh'
  BY <1>6 DEF RedoIsFresh
<1> QED BY <1>1, <1>5, <1>6, <1>7, <1>8, UInvIs, UInvIsNext

LEMMA UInvRaise == ASSUME UInv, Raise PROVE UInv'
<1>1. /\ call' = NoCall
      /\ UNCHANGED <<doc, open, undoStack, redoStack, isUndoing, isRedoing, disableCount,
                     groupsByEvent, levels, pending>>
  BY DEF Raise, stacks, settings
<1>2. StillTyped'
  BY <1>1, NoCallIs, UInvIs DEF StillTyped, Unused
<1>3. RedoIsFresh'
  BY <1>1, UInvIs DEF RedoIsFresh, Busy, Unused
<1> QED BY <1>1, <1>2, <1>3, UInvIs, UInvIsNext

LEMMA UInvRemoveAllActions == ASSUME UInv, RemoveAllActions PROVE UInv'
<1>1. /\ open' = <<>> /\ undoStack' = <<>> /\ redoStack' = <<>>
      /\ isUndoing' = FALSE /\ isRedoing' = FALSE /\ disableCount' = 0
      /\ UNCHANGED <<doc, groupsByEvent, levels, pending, call>>
  BY DEF RemoveAllActions
<1>2. StillTyped'
  BY <1>1, UInvIs DEF StillTyped, Unused
<1>3. RedoIsFresh'
  BY <1>1 DEF RedoIsFresh
<1> QED BY <1>1, <1>2, <1>3, UInvIs, UInvIsNext, EmptyFits, NewGroupIs, LevelsAreNat DEF UInv

LEMMA UInvRemoveAllActionsWithTarget ==
  ASSUME UInv, NEW k \in Keys, RemoveAllActionsWithTarget(k)
  PROVE  UInv'
<1>0. undoStack \in Seq(Group) /\ redoStack \in Seq(Group) /\ levels \in Nat
      /\ Fits(undoStack, levels) /\ Fits(redoStack, levels)
  BY UInvIs, LevelsAreNat DEF UInv
<1>1. /\ undoStack' = Without(undoStack, k) /\ redoStack' = Without(redoStack, k)
      /\ UNCHANGED <<doc, open, isUndoing, isRedoing, disableCount, groupsByEvent, levels,
                     pending, call>>
  BY DEF RemoveAllActionsWithTarget, settings
<1>2. /\ undoStack' \in Seq(Group) /\ redoStack' \in Seq(Group)
      /\ Fits(undoStack', levels) /\ Fits(redoStack', levels)
      /\ Len(redoStack') <= Len(redoStack)
  BY <1>0, <1>1, WithoutFits
<1>3. StillTyped'
  BY <1>1, UInvIs, SameCall DEF StillTyped
<1>4. redoStack = <<>> => redoStack' = <<>>
  BY <1>0, <1>2
<1>5. RedoIsFresh'
  BY <1>1, <1>4, UInvIs DEF RedoIsFresh, Busy, Unused
<1> QED BY <1>1, <1>2, <1>3, <1>5, UInvIs, UInvIsNext

LEMMA UInvSetActionName ==
  ASSUME UInv, NEW n \in Names, SetActionName(n)
  PROVE  UInv'
<1> DEFINE g == [Last(open) EXCEPT !.name = n]
<1>0. open \in Seq(Group) /\ levels \in Nat
  BY UInvIs, LevelsAreNat DEF UInv
<1>1. /\ open # <<>> /\ open' = [open EXCEPT ![Len(open)].name = n]
      /\ UNCHANGED <<doc, undoStack, redoStack, isUndoing, isRedoing, disableCount,
                     groupsByEvent, levels, pending, call>>
  BY DEF SetActionName, stacks, settings
<1>2. /\ Last(open) \in Group /\ Last(open) = open[Len(open)] /\ Len(open) \in 1 .. Len(open)
  BY <1>0, <1>1, LastIs
<1>3. g \in Group /\ g.actions = Last(open).actions
  BY <1>2, NewName
<1>4. open' = [open EXCEPT ![Len(open)] = g]
  BY <1>1, <1>2
<1> HIDE DEF g
<1> DEFINE r == [open EXCEPT ![Len(open)] = g]
<1>a. /\ r \in Seq(Group) /\ Len(r) = Len(open)
      /\ \A i \in 1 .. Len(open) : r[i] = IF i = Len(open) THEN g ELSE open[i]
  BY <1>0, <1>1, <1>3, LastBecomes
<1> HIDE DEF r
<1>5. /\ open' \in Seq(Group) /\ Len(open') = Len(open)
      /\ \A i \in 1 .. Len(open) : open'[i] = IF i = Len(open) THEN g ELSE open[i]
  BY <1>4, <1>a DEF r
<1>6. Unused(open) => Unused(open')
  BY <1>2, <1>3, <1>5 DEF Unused
<1>7. StillTyped'
  BY <1>1, UInvIs, SameCall DEF StillTyped
<1>8. RedoIsFresh'
  BY <1>1, <1>6, UInvIs DEF RedoIsFresh, Busy
<1> QED BY <1>1, <1>5, <1>7, <1>8, UInvIs, UInvIsNext

LEMMA UInvSettings ==
  ASSUME UInv,
         \/ SetGroupsByEvent \/ DisableUndoRegistration \/ EnableUndoRegistration
  PROVE  UInv'
<1>0. groupsByEvent \in BOOLEAN /\ disableCount \in Nat
  BY UInvIs DEF StillTyped
<1>1. /\ UNCHANGED <<doc, open, undoStack, redoStack, isUndoing, isRedoing, levels,
                     pending, call>>
      /\ groupsByEvent' \in BOOLEAN /\ disableCount' \in Nat
  <2>1. CASE SetGroupsByEvent
    BY <1>0, <2>1 DEF SetGroupsByEvent, stacks
  <2>2. CASE DisableUndoRegistration
    BY <1>0, <2>2 DEF DisableUndoRegistration, stacks
  <2>3. CASE EnableUndoRegistration
    BY <1>0, <2>3 DEF EnableUndoRegistration, stacks
  <2> QED BY <2>1, <2>2, <2>3
<1>2. StillTyped'
  BY <1>1, UInvIs DEF StillTyped, Unused
<1>3. RedoIsFresh'
  BY <1>1, UInvIs DEF RedoIsFresh, Busy, Unused
<1> QED BY <1>1, <1>2, <1>3, UInvIs, UInvIsNext

LEMMA UInvSetLevelsOfUndo ==
  ASSUME UInv, NEW n \in Levels, SetLevelsOfUndo(n)
  PROVE  UInv'
<1>0. undoStack \in Seq(Group) /\ redoStack \in Seq(Group) /\ levels \in Nat /\ n \in Nat
      /\ Fits(undoStack, levels) /\ Fits(redoStack, levels)
  BY UInvIs, LevelsAreNat, LevelsAssumption DEF UInv
<1>1. /\ undoStack' = Truncated(n, undoStack) /\ redoStack' = Truncated(n, redoStack)
      /\ levels' = n
      /\ UNCHANGED <<doc, open, isUndoing, isRedoing, disableCount, groupsByEvent,
                     pending, call>>
  BY DEF SetLevelsOfUndo
<1>2. /\ undoStack' \in Seq(Group) /\ redoStack' \in Seq(Group)
      /\ Fits(undoStack', levels') /\ Fits(redoStack', levels')
  BY <1>0, <1>1, TruncatedIs, TruncatedFits
<1>3. StillTyped'
  BY <1>1, UInvIs DEF StillTyped, Unused
<1>4. redoStack = <<>> => redoStack' = <<>>
  BY <1>0, <1>1 DEF Truncated
<1>5. RedoIsFresh'
  BY <1>1, <1>4, UInvIs DEF RedoIsFresh, Busy, Unused
<1> QED BY <1>1, <1>2, <1>3, <1>5, UInvIs, UInvIsNext

LEMMA UInvStutter == ASSUME UInv, UNCHANGED vars PROVE UInv'
<1>1. UNCHANGED <<doc, open, undoStack, redoStack, isUndoing, isRedoing, disableCount,
                  groupsByEvent, levels, pending, call>>
  BY DEF vars, stacks, settings
<1>2. StillTyped' /\ RedoIsFresh'
  BY <1>1, UInvIs DEF StillTyped, Unused, RedoIsFresh, Busy
<1> QED BY <1>1, <1>2, UInvIs, UInvIsNext

LEMMA UInvNext == UInv /\ [Next]_vars => UInv'
<1> SUFFICES ASSUME UInv, [Next]_vars PROVE UInv'
  OBVIOUS
<1>1. ASSUME NEW k \in Keys, NEW v \in Values, Edit(k, v) PROVE UInv'
  BY <1>1, UInvEdit
<1>2. CASE BeginUndoGrouping \/ EndUndoGrouping \/ Loop
  BY <1>2, UInvBeginUndoGrouping, UInvEndUndoGrouping, UInvLoop
<1>3. CASE Undo \/ Redo \/ Invoke \/ Finish \/ Raise
  BY <1>3, UInvUndo, UInvRedo, UInvInvoke, UInvFinish, UInvRaise
<1>4. CASE RemoveAllActions
  BY <1>4, UInvRemoveAllActions
<1>5. ASSUME NEW k \in Keys, RemoveAllActionsWithTarget(k) PROVE UInv'
  BY <1>5, UInvRemoveAllActionsWithTarget
<1>6. ASSUME NEW n \in Names, SetActionName(n) PROVE UInv'
  BY <1>6, UInvSetActionName
<1>7. CASE SetGroupsByEvent \/ DisableUndoRegistration \/ EnableUndoRegistration
  BY <1>7, UInvSettings
<1>8. ASSUME NEW n \in Levels, SetLevelsOfUndo(n) PROVE UInv'
  BY <1>8, UInvSetLevelsOfUndo
<1>9. CASE UNCHANGED vars
  BY <1>9, UInvStutter
<1> QED BY <1>1, <1>2, <1>3, <1>4, <1>5, <1>6, <1>7, <1>8, <1>9 DEF Next

LEMMA UInvAlways == Spec => []UInv
BY UInvInit, UInvNext, PTL DEF Spec

(* The document, the groups and the stacks stay what they should be,        *)
(* whatever is called in the middle of an undo or a redo (every method of   *)
(* NSUndoManager.m).                                                        *)
THEOREM UndoTypeOK == Spec => []TypeOK
<1>1. UInv => TypeOK
  BY DEF UInv
<1> QED BY <1>1, UInvAlways, PTL

(* What can be redone goes on from the document as it is: registering       *)
(* clears the redo stack, a redo puts aside only groups that are unused,    *)
(* and they are still unused when it is done (registerUndoWithTarget:, the  *)
(* end of undoNestedGroup and redo).                                        *)
THEOREM RedoStaysFresh == Spec => []RedoIsFresh
<1>1. UInv => RedoIsFresh
  BY DEF UInv
<1> QED BY <1>1, UInvAlways, PTL

(* Neither stack grows beyond levelsOfUndo and neither holds an empty       *)
(* group, with any calls in any order: endUndoGrouping pushes no empty      *)
(* group, removeAllActionsWithTarget: drops those it empties and            *)
(* setLevelsOfUndo: cuts the stacks.                                        *)
THEOREM StacksStayFit == Spec => []StacksFit
<1>1. UInv => StacksFit
  BY DEF UInv, StacksFit, Fits
<1> QED BY <1>1, UInvAlways, PTL

--------------------------------------------------------------------------
(* A stack as the documents it leads back to.                               *)
Entries == [doc : Docs, name : Names]
EntryOf(d, n) == [doc |-> d, name |-> n]

LEMMA LeadsIs ==
  ASSUME NEW gs \in Seq(Group), NEW d \in Docs
  PROVE  /\ LeadsTo(gs, d) \in Seq(Entries) /\ Len(LeadsTo(gs, d)) = Len(gs) /\ Len(gs) \in Nat
         /\ \A i \in 1 .. Len(gs) :
              LeadsTo(gs, d)[i] = EntryOf(Before(gs, i, d), gs[i].name)
<1>1. Len(gs) \in Nat
  OBVIOUS
<1>2. \A i \in 1 .. Len(gs) : EntryOf(Before(gs, i, d), gs[i].name) \in Entries
  BY <1>1, BeforeType, GroupFields DEF Entries, EntryOf
<1>3. LeadsTo(gs, d) = [i \in 1 .. Len(gs) |-> EntryOf(Before(gs, i, d), gs[i].name)]
  BY DEF LeadsTo, EntryOf
<1> QED BY <1>1, <1>2, <1>3

LEMMA LeadsAppend ==
  ASSUME NEW gs \in Seq(Group), NEW g \in Group, NEW d \in Docs
  PROVE  LET e == Perform(g.actions, d) IN
         /\ e \in Docs /\ EntryOf(e, g.name) \in Entries
         /\ LeadsTo(Append(gs, g), d) = Append(LeadsTo(gs, e), EntryOf(e, g.name))
<1> DEFINE e == Perform(g.actions, d)
           r == Append(gs, g)
           x == EntryOf(e, g.name)
           s == LeadsTo(gs, e)
           t == Append(s, x)
           l == LeadsTo(r, d)
<1>1. g.actions \in Seq(Action) /\ g.name \in Names
  BY DEF Group
<1>2. e \in Docs /\ x \in Entries
  BY <1>1, PerformType DEF Entries, EntryOf
<1>3. /\ r \in Seq(Group) /\ Len(gs) \in Nat /\ Len(r) = Len(gs) + 1
      /\ r[Len(gs) + 1] = g /\ \A i \in 1 .. Len(gs) : r[i] = gs[i]
      /\ 1 .. Len(r) = 1 .. Len(gs) \cup {Len(gs) + 1}
  BY AppendIs
<1>4. \A i \in 1 .. Len(gs) + 1 : Before(r, i, d) = Before(gs, i, e)
  BY BeforeAppend
<1> HIDE DEF e, r
<1>5. Before(gs, Len(gs) + 1, e) = e
  <2>1. Len(gs) + 1 \in Nat \ {0} /\ \A j \in (Len(gs) + 1) .. Len(gs) : gs[j].actions = <<>>
    BY <1>3
  <2> QED BY <1>2, <2>1, BeforeEnd
<1>6. /\ s \in Seq(Entries) /\ Len(s) = Len(gs)
      /\ \A i \in 1 .. Len(gs) : s[i] = EntryOf(Before(gs, i, e), gs[i].name)
  BY <1>2, LeadsIs
<1>7. /\ l \in Seq(Entries) /\ Len(l) = Len(r)
      /\ \A i \in 1 .. Len(r) : l[i] = EntryOf(Before(r, i, d), r[i].name)
  BY <1>3, LeadsIs
<1> HIDE DEF s, x, l
<1>8. /\ t \in Seq(Entries) /\ Len(t) = Len(s) + 1 /\ t[Len(s) + 1] = x
      /\ \A i \in 1 .. Len(s) : t[i] = s[i]
  BY <1>2, <1>6, AppendIs
<1> HIDE DEF t
<1>9. \A i \in 1 .. Len(l) : l[i] = t[i]
  <2> SUFFICES ASSUME NEW i \in 1 .. Len(l) PROVE l[i] = t[i]
    OBVIOUS
  <2>1. l[i] = EntryOf(Before(gs, i, e), r[i].name)
    BY <1>3, <1>4, <1>7
  <2>2. CASE i \in 1 .. Len(gs)
    BY <1>3, <1>6, <1>8, <2>1, <2>2
  <2>3. CASE i = Len(gs) + 1
    BY <1>3, <1>5, <1>6, <1>8, <2>1, <2>3 DEF x
  <2> QED BY <1>3, <1>7, <2>2, <2>3
<1>10. Len(l) = Len(t)
  BY <1>3, <1>6, <1>7, <1>8
<1>11. l = t
  BY <1>7, <1>8, <1>9, <1>10, SameSeq
<1> QED BY <1>2, <1>11 DEF e, r, s, t, l, x

(* What is left of a stack is a part of what it led back to.                *)
LEMMA LeadsSuffix ==
  ASSUME NEW gs \in Seq(Group), NEW hs \in Seq(Group), NEW m \in Nat, NEW d \in Docs,
         Len(gs) = Len(hs) + m, \A j \in 1 .. Len(hs) : hs[j] = gs[j + m]
  PROVE  LeadsTo(hs, d) = SubSeq(LeadsTo(gs, d), m + 1, Len(LeadsTo(gs, d)))
<1>0. ASSUME NEW i \in Nat \ {0} PROVE Before(hs, i, d) = Before(gs, i + m, d)
  <2>1. \A j \in 1 .. Len(hs) : hs[j].actions = gs[j + m].actions
    OBVIOUS
  <2> QED BY ONLY <2>1, BeforeShift, gs \in Seq(Group), hs \in Seq(Group), m \in Nat,
                  d \in Docs, Len(gs) = Len(hs) + m, i \in Nat \ {0}
<1> DEFINE a == LeadsTo(gs, d)
           b == LeadsTo(hs, d)
           r == SubSeq(a, m + 1, Len(a))
<1>1. /\ a \in Seq(Entries) /\ Len(a) = Len(gs) /\ Len(gs) \in Nat
      /\ \A i \in 1 .. Len(gs) : a[i] = EntryOf(Before(gs, i, d), gs[i].name)
  BY LeadsIs
<1>2. /\ b \in Seq(Entries) /\ Len(b) = Len(hs) /\ Len(hs) \in Nat
      /\ \A i \in 1 .. Len(hs) : b[i] = EntryOf(Before(hs, i, d), hs[i].name)
  BY LeadsIs
<1> HIDE DEF a, b
<1>3. /\ r \in Seq(Entries) /\ Len(r) = Len(a) - m /\ \A j \in 1 .. Len(r) : r[j] = a[j + m]
  <2>1. m <= Len(a)
    BY <1>1, <1>2
  <2> QED BY <1>1, <2>1, SuffixOf
<1> HIDE DEF r
<1>4. \A i \in 1 .. Len(b) : b[i] = r[i]
  <2> SUFFICES ASSUME NEW i \in 1 .. Len(b) PROVE b[i] = r[i]
    OBVIOUS
  <2>1. i \in Nat \ {0} /\ i + m \in 1 .. Len(gs) /\ hs[i] = gs[i + m] /\ i \in 1 .. Len(r)
    BY <1>1, <1>2, <1>3
  <2> QED BY <1>1, <1>2, <1>3, <1>0, <2>1
<1>5. Len(b) = Len(r)
  BY <1>1, <1>2, <1>3
<1>6. b = r
  BY <1>2, <1>3, <1>4, <1>5, SameSeq
<1> QED BY <1>6 DEF a, b, r

Later(entries) == {SubSeq(entries, i, Len(entries)) : i \in 1 .. Len(entries) + 1}

LEMMA LeadsLater ==
  ASSUME NEW gs \in Seq(Group), NEW hs \in Seq(Group), NEW m \in Nat, NEW d \in Docs,
         Len(gs) = Len(hs) + m, \A j \in 1 .. Len(hs) : hs[j] = gs[j + m]
  PROVE  LeadsTo(hs, d) \in Later(LeadsTo(gs, d))
<1>1. LeadsTo(hs, d) = SubSeq(LeadsTo(gs, d), m + 1, Len(LeadsTo(gs, d)))
  BY LeadsSuffix
<1>2. Len(LeadsTo(gs, d)) = Len(gs) /\ Len(gs) \in Nat /\ Len(hs) \in Nat
  BY LeadsIs
<1>3. m + 1 \in 1 .. Len(LeadsTo(gs, d)) + 1
  BY <1>2
<1> QED BY <1>1, <1>3 DEF Later

LEMMA LaterAppend ==
  ASSUME NEW T, NEW seq \in Seq(T), NEW x \in T, NEW r \in Later(seq)
  PROVE  r \in Seq(T) /\ Append(r, x) \in Later(Append(seq, x)) /\ Append(r, x) # <<>>
<1>1. PICK i \in 1 .. Len(seq) + 1 : r = SubSeq(seq, i, Len(seq))
  BY DEF Later
<1> DEFINE a == Append(seq, x)
           b == SubSeq(a, i, Len(a))
<1>2. Len(seq) \in Nat /\ r \in Seq(T) /\ a \in Seq(T) /\ Len(a) = Len(seq) + 1
      /\ Len(r) = Len(seq) + 1 - i
  BY <1>1
<1>3. \A j \in 1 .. Len(r) : r[j] = seq[j + i - 1]
  BY <1>1, <1>2
<1>4. b \in Seq(T) /\ Len(b) = Len(r) + 1 /\ \A j \in 1 .. Len(b) : b[j] = a[j + i - 1]
  BY <1>2
<1>5. Append(r, x) \in Seq(T) /\ Len(Append(r, x)) = Len(r) + 1 /\ Append(r, x)[Len(r) + 1] = x
      /\ \A j \in 1 .. Len(r) : Append(r, x)[j] = r[j]
  BY <1>2
<1>6. \A j \in 1 .. Len(seq) : a[j] = seq[j]
  OBVIOUS
<1>7. a[Len(seq) + 1] = x
  OBVIOUS
<1> HIDE DEF a, b
<1>8. \A j \in 1 .. Len(b) : b[j] = Append(r, x)[j]
  <2> SUFFICES ASSUME NEW j \in 1 .. Len(b) PROVE b[j] = Append(r, x)[j]
    OBVIOUS
  <2>1. CASE j \in 1 .. Len(r)
    <3>1. j + i - 1 \in 1 .. Len(seq)
      BY <1>2, <2>1
    <3> QED BY <1>3, <1>4, <1>5, <1>6, <2>1, <3>1
  <2>2. CASE j = Len(r) + 1
    <3>1. j + i - 1 = Len(seq) + 1
      BY <1>2, <2>2
    <3> QED BY <1>4, <1>5, <1>7, <2>2, <3>1
  <2>3. Len(r) \in Nat /\ Len(b) = Len(r) + 1
    BY <1>2, <1>4
  <2>4. j \in 1 .. Len(r) \/ j = Len(r) + 1
    BY <2>3
  <2> QED BY <2>1, <2>2, <2>4
<1>9. Append(r, x) = b
  BY <1>4, <1>5, <1>8, SameSeq
<1>10. i \in 1 .. Len(a) + 1
  BY <1>2
<1>11. Append(r, x) # <<>>
  <2>1. Len(r) \in Nat
    BY <1>2
  <2> QED BY <2>1, <1>5
<1> QED BY <1>2, <1>5, <1>9, <1>10, <1>11 DEF Later, a, b

(* The last of a sequence that is appended to.                              *)
LEMMA AppendLast ==
  ASSUME NEW T, NEW seq \in Seq(T), NEW x \in T
  PROVE  /\ Append(seq, x) # <<>> /\ Last(Append(seq, x)) = x /\ Front(Append(seq, x)) = seq
         /\ seq \o <<x>> = Append(seq, x) /\ seq \o <<>> = seq
         /\ \A y \in T : [Append(seq, x) EXCEPT ![Len(Append(seq, x))] = y] = Append(seq, y)
<1> DEFINE a == Append(seq, x)
<1>1. a \in Seq(T) /\ Len(a) = Len(seq) + 1 /\ a # <<>> /\ Len(seq) \in Nat
      /\ a[Len(seq) + 1] = x /\ \A i \in 1 .. Len(seq) : a[i] = seq[i]
  OBVIOUS
<1>2. seq \o <<x>> = a /\ seq \o <<>> = seq
  OBVIOUS
<1>3. ASSUME NEW y \in T PROVE [a EXCEPT ![Len(a)] = y] = Append(seq, y)
  <2> DEFINE b == [a EXCEPT ![Len(a)] = y]
             c == Append(seq, y)
  <2>1. c \in Seq(T) /\ Len(c) = Len(seq) + 1 /\ c[Len(seq) + 1] = y
        /\ \A i \in 1 .. Len(seq) : c[i] = seq[i]
    OBVIOUS
  <2> HIDE DEF a, c
  <2>2. b \in Seq(T) /\ Len(b) = Len(a) /\ b[Len(a)] = y
        /\ \A i \in 1 .. Len(seq) : b[i] = a[i]
    BY <1>1
  <2> HIDE DEF b
  <2>3. \A i \in 1 .. Len(b) : b[i] = c[i]
    BY <1>1, <2>1, <2>2
  <2>4. b = c
    BY <1>1, <2>1, <2>2, <2>3, SameSeq
  <2> QED BY <2>4 DEF b, c
<1> HIDE DEF a
<1>4. Last(a) = x
  BY <1>1 DEF Last
<1>5. /\ Front(a) \in Seq(T) /\ Len(Front(a)) = Len(a) - 1
      /\ \A i \in 1 .. Len(Front(a)) : i \in 1 .. Len(a) /\ Front(a)[i] = a[i]
  BY <1>1, FrontIs
<1>6. Front(a) = seq
  <2>1. Len(Front(a)) = Len(seq) /\ \A i \in 1 .. Len(Front(a)) : Front(a)[i] = seq[i]
    BY <1>1, <1>5
  <2> QED BY <1>5, <2>1, SameSeq
<1> QED BY <1>1, <1>2, <1>3, <1>4, <1>6 DEF a

--------------------------------------------------------------------------
(* Without exceptions, removals and runs of the loop in the middle of a     *)
(* call, disabling and the removal of one target's actions, a call undoes   *)
(* or redoes from an open group of its own, which registers what has been   *)
(* invoked of the group it took.                                            *)
Undisturbed == Calls \subseteq {"levels", "byEvent", "group", "remove"}

Invoked(n) == SubSeq(call.group.actions, n + 1, Len(call.group.actions))

CInv ==
  /\ disableCount = 0
  /\ isUndoing <=> call.kind = "undo"
  /\ isRedoing <=> call.kind = "redo"
  /\ Idle => call.left = 0
  /\ ~ Idle =>
       /\ Len(open) = 1 /\ call.group.actions # <<>>
       /\ Len(open[1].actions) = Len(call.group.actions) - call.left
       /\ doc = Perform(Invoked(call.left), BeforeOpen)

SInv == UInv /\ CInv

LEMMA BeforeOne ==
  ASSUME NEW g \in Group, NEW d \in Docs
  PROVE  /\ Before(<<g>>, 1, d) = Perform(g.actions, d)
         /\ Perform(g.actions, d) \in Docs
         /\ g.actions = <<>> => Before(<<g>>, 1, d) = d
<1>1. <<>> \in Seq(Group) /\ Append(<<>>, g) = <<g>> /\ 1 \in 1 .. Len(<<>>) + 1
  OBVIOUS
<1>2. /\ Perform(g.actions, d) \in Docs
      /\ Before(<<g>>, 1, d) = Before(<<>>, 1, Perform(g.actions, d))
  <2> DEFINE gs == <<>>
  <2>1. gs \in Seq(Group) /\ 1 \in 1 .. Len(gs) + 1
    BY <1>1
  <2> HIDE DEF gs
  <2>2. Perform(g.actions, d) \in Docs
        /\ Before(Append(gs, g), 1, d) = Before(gs, 1, Perform(g.actions, d))
    BY <2>1, BeforeAppend
  <2> QED BY <1>1, <2>2 DEF gs
<1>3. \A e \in Docs : Before(<<>>, 1, e) = e
  <2> DEFINE gs == <<>>
  <2>1. gs \in Seq(Group) /\ \A j \in 1 .. Len(gs) : gs[j].actions = <<>>
    OBVIOUS
  <2> HIDE DEF gs
  <2>2. \A e \in Docs : Before(gs, 1, e) = e
    BY <2>1, BeforeEnd
  <2> QED BY <2>2 DEF gs
<1> QED BY <1>2, <1>3, PerformEmpty

LEMMA BeforeUnused ==
  ASSUME NEW gs \in Seq(Group), NEW d \in Docs, Unused(gs)
  PROVE  Before(gs, 1, d) = d
BY BeforeEnd DEF Unused

LEMMA OnlyOne ==
  ASSUME NEW gs \in Seq(Group), Len(gs) = 1
  PROVE  gs = <<gs[1]>> /\ gs[1] \in Group /\ gs # <<>> /\ Last(gs) = gs[1]
<1>1. gs = <<gs[1]>> /\ gs[1] \in Group /\ gs # <<>>
  OBVIOUS
<1> QED BY <1>1, LastIs

(* The abstract state, outside and in the middle of an undo or a redo.      *)
IdlePast(d, o, u) ==
  IF Unused(o) THEN LeadsTo(u, d)
  ELSE Append(LeadsTo(u, Before(o, 1, d)), EntryOf(Before(o, 1, d), o[1].name))

LEMMA UnusedIs ==
  ASSUME NEW gs \in Seq(Group), ~ Unused(gs)
  PROVE  gs # <<>> /\ gs[1] \in Group /\ gs[1].name \in Names
<1>1. gs # <<>>
  BY DEF Unused
<1>2. 1 \in 1 .. Len(gs)
  BY <1>1
<1> QED BY <1>1, <1>2, GroupFields

LEMMA PastIs ==
  ASSUME NEW u \in Seq(Group), NEW o \in Seq(Group), NEW d \in Docs
  PROVE  /\ IdlePast(d, o, u) =
              LeadsTo(u \o <<>>, Before(o, 1, d))
                \o IF ~ Unused(o) THEN <<[doc |-> Before(o, 1, d), name |-> o[1].name]>> ELSE <<>>
         /\ Before(o, 1, d) \in Docs
         /\ \A e \in Docs : LeadsTo(u \o <<>>, e) = LeadsTo(u, e)
         /\ \A e \in Docs, g \in Group :
              LeadsTo(u \o <<g>>, e) \o <<>> = LeadsTo(Append(u, g), e)
<1> DEFINE b == Before(o, 1, d)
           x == EntryOf(b, o[1].name)
<1>1. b \in Docs
  BY BeforeType
<1>2. u \o <<>> = u /\ \A g \in Group : u \o <<g>> = Append(u, g) /\ Append(u, g) \in Seq(Group)
  BY AppendLast
<1>3. \A v \in Seq(Group), e \in Docs : LeadsTo(v, e) \in Seq(Entries)
  BY LeadsIs
<1>4. \A s \in Seq(Entries) : s \o <<>> = s
  OBVIOUS
<1>5. Unused(o) => b = d
  BY BeforeUnused
<1> HIDE DEF b
<1>6. ~ Unused(o) => x \in Entries
  BY <1>1, UnusedIs DEF Entries, EntryOf
<1>7. \A s \in Seq(Entries), y \in Entries : s \o <<y>> = Append(s, y)
  OBVIOUS
<1>8. IdlePast(d, o, u) = LeadsTo(u, b) \o IF ~ Unused(o) THEN <<x>> ELSE <<>>
  <2>1. CASE Unused(o)
    <3>1. IdlePast(d, o, u) = LeadsTo(u, b)
      BY <1>5, <2>1 DEF IdlePast
    <3>2. LeadsTo(u, b) \o <<>> = LeadsTo(u, b)
      BY <1>1, <1>3, <1>4
    <3> QED BY <2>1, <3>1, <3>2
  <2>2. CASE ~ Unused(o)
    <3>1. IdlePast(d, o, u) = Append(LeadsTo(u, b), x)
      BY <2>2 DEF IdlePast, b
    <3>2. LeadsTo(u, b) \o <<x>> = Append(LeadsTo(u, b), x)
      BY <1>1, <1>3, <1>6, <1>7, <2>2
    <3> QED BY <2>2, <3>1, <3>2
  <2> QED BY <2>1, <2>2
<1>9. x = [doc |-> b, name |-> o[1].name]
  BY DEF EntryOf
<1>10. \A e \in Docs, g \in Group : LeadsTo(u \o <<g>>, e) \o <<>> = LeadsTo(Append(u, g), e)
  BY <1>2, <1>3, <1>4
<1> QED BY <1>1, <1>2, <1>8, <1>9, <1>10 DEF b

LEMMA IdleView ==
  ASSUME UInv, isUndoing = FALSE, isRedoing = FALSE
  PROVE  /\ Present = doc /\ Past = IdlePast(doc, open, undoStack)
         /\ Future = LeadsTo(redoStack, doc)
         /\ IsOpen <=> ~ Unused(open)
<1>1. doc \in Docs /\ open \in Seq(Group) /\ undoStack \in Seq(Group) /\ redoStack \in Seq(Group)
  BY UInvIs
<1>2. Present = doc /\ (IsOpen <=> ~ Unused(open)) /\ Taken(isUndoing) = <<>> /\ Taken(isRedoing) = <<>>
  BY DEF Present, IsOpen, Busy, Taken
<1>3. Past = IdlePast(doc, open, undoStack)
  BY <1>1, <1>2, PastIs DEF Past, BeforeOpen
<1>4. Future = LeadsTo(redoStack, doc)
  BY <1>1, <1>2, PastIs DEF Future
<1> QED BY <1>2, <1>3, <1>4

LEMMA IdleViewNext ==
  ASSUME UInv', isUndoing' = FALSE, isRedoing' = FALSE
  PROVE  /\ Present' = doc' /\ Past' = IdlePast(doc', open', undoStack')
         /\ Future' = LeadsTo(redoStack', doc')
         /\ IsOpen' <=> ~ Unused(open')
<1>1. doc' \in Docs /\ open' \in Seq(Group) /\ undoStack' \in Seq(Group)
      /\ redoStack' \in Seq(Group)
  BY UInvIsNext
<1>2. /\ Present' = doc' /\ (IsOpen' <=> ~ Unused(open')) /\ Taken(isUndoing)' = <<>>
      /\ Taken(isRedoing)' = <<>>
  BY DEF Present, IsOpen, Busy, Taken, Unused
<1>3. Past' = IdlePast(doc', open', undoStack')
  BY <1>1, <1>2, PastIs DEF Past, BeforeOpen
<1>4. Future' = LeadsTo(redoStack', doc')
  BY <1>1, <1>2, PastIs DEF Future
<1> QED BY <1>2, <1>3, <1>4

LEMMA BusyView ==
  ASSUME UInv, isUndoing # isRedoing
  PROVE  /\ BeforeOpen \in Docs /\ call.group \in Group
         /\ Present = BeforeOpen /\ IsOpen = FALSE
         /\ Past = IF isUndoing THEN LeadsTo(Append(undoStack, call.group), BeforeOpen)
                                ELSE LeadsTo(undoStack, BeforeOpen)
         /\ Future = IF isRedoing THEN LeadsTo(Append(redoStack, call.group), BeforeOpen)
                                  ELSE LeadsTo(redoStack, BeforeOpen)
<1>1. /\ doc \in Docs /\ open \in Seq(Group) /\ undoStack \in Seq(Group)
      /\ redoStack \in Seq(Group) /\ call.group \in Group
      /\ isUndoing \in BOOLEAN /\ isRedoing \in BOOLEAN
  BY UInvIs DEF StillTyped
<1> DEFINE b == BeforeOpen
<1>2. b \in Docs
  BY <1>1, BeforeType DEF BeforeOpen
<1>3. Present = b /\ IsOpen = FALSE
  BY <1>1 DEF Present, IsOpen, Busy
<1>4. /\ \A g \in Group : undoStack \o <<g>> = Append(undoStack, g)
                          /\ redoStack \o <<g>> = Append(redoStack, g)
      /\ undoStack \o <<>> = undoStack /\ redoStack \o <<>> = redoStack
  BY <1>1
<1>5. \A s \in Seq(Group) : LeadsTo(s, b) \o <<>> = LeadsTo(s, b)
  BY <1>2, LeadsIs, AppendLast
<1>6. Append(undoStack, call.group) \in Seq(Group) /\ Append(redoStack, call.group) \in Seq(Group)
  BY <1>1
<1> HIDE DEF b
<1>7. Past = IF isUndoing THEN LeadsTo(Append(undoStack, call.group), b)
                          ELSE LeadsTo(undoStack, b)
  BY <1>1, <1>3, <1>4, <1>5, <1>6 DEF Past, Taken, b
<1>8. Future = IF isRedoing THEN LeadsTo(Append(redoStack, call.group), b)
                            ELSE LeadsTo(redoStack, b)
  BY <1>1, <1>3, <1>4, <1>6 DEF Future, Taken
<1> QED BY <1>1, <1>2, <1>3, <1>7, <1>8 DEF b

LEMMA BusyViewNext ==
  ASSUME UInv', isUndoing' # isRedoing'
  PROVE  /\ BeforeOpen' \in Docs /\ BeforeOpen' = Before(open', 1, doc')
         /\ Present' = BeforeOpen' /\ IsOpen' = FALSE
         /\ Past' = IF isUndoing' THEN LeadsTo(Append(undoStack', (call').group), BeforeOpen')
                                  ELSE LeadsTo(undoStack', BeforeOpen')
         /\ Future' = IF isRedoing' THEN LeadsTo(Append(redoStack', (call').group), BeforeOpen')
                                    ELSE LeadsTo(redoStack', BeforeOpen')
<1>1. /\ doc' \in Docs /\ open' \in Seq(Group) /\ undoStack' \in Seq(Group)
      /\ redoStack' \in Seq(Group) /\ (call').group \in Group
      /\ isUndoing' \in BOOLEAN /\ isRedoing' \in BOOLEAN
  BY UInvIsNext DEF StillTyped
<1> DEFINE b == Before(open', 1, doc')
           g == (call').group
<1>2. b \in Docs /\ b = BeforeOpen'
  BY <1>1, BeforeType DEF BeforeOpen
<1>3. Present' = b /\ IsOpen' = FALSE
  BY <1>1 DEF Present, IsOpen, Busy, BeforeOpen
<1>4. /\ undoStack' \o <<g>> = Append(undoStack', g) /\ redoStack' \o <<g>> = Append(redoStack', g)
      /\ undoStack' \o <<>> = undoStack' /\ redoStack' \o <<>> = redoStack'
  BY <1>1
<1>5. \A s \in Seq(Group) : LeadsTo(s, b) \o <<>> = LeadsTo(s, b)
  BY <1>2, LeadsIs, AppendLast
<1>6. Append(undoStack', g) \in Seq(Group) /\ Append(redoStack', g) \in Seq(Group)
  BY <1>1
<1>7. Past' = LeadsTo(undoStack' \o (IF isUndoing' THEN <<g>> ELSE <<>>), b) \o <<>>
  BY <1>3 DEF Past, Taken, BeforeOpen
<1>8. Future' = LeadsTo(redoStack' \o (IF isRedoing' THEN <<g>> ELSE <<>>), b)
  BY <1>3 DEF Future, Taken
<1> HIDE DEF b, g
<1>9. Past' = IF isUndoing' THEN LeadsTo(Append(undoStack', g), b) ELSE LeadsTo(undoStack', b)
  BY <1>1, <1>4, <1>5, <1>6, <1>7
<1>10. Future' = IF isRedoing' THEN LeadsTo(Append(redoStack', g), b) ELSE LeadsTo(redoStack', b)
  BY <1>1, <1>4, <1>6, <1>8
<1> QED BY <1>1, <1>2, <1>3, <1>9, <1>10 DEF g, b

--------------------------------------------------------------------------
(* What a step of the abstract manager is.                                  *)
AStep == [Abstract!ANext]_Abstract!avars

LEMMA SameStep ==
  ASSUME Present' = Present, Past' = Past, Future' = Future, IsOpen' <=> IsOpen
  PROVE  AStep
BY DEF AStep, Abstract!avars

LEMMA ChangeStep ==
  ASSUME Present' \in Docs, Future' = <<>>, IsOpen',
         \/ IsOpen /\ Past' = Past
         \/ ~ IsOpen /\ \E n \in Names : Past' = Append(Past, EntryOf(Present, n))
  PROVE  AStep
BY DEF AStep, Abstract!ANext, Abstract!Change, Abstract!Entry, EntryOf, Docs

LEMMA NameStep ==
  ASSUME IsOpen, IsOpen', Present' = Present, Future' = Future, NEW n \in Names,
         Past' = [Past EXCEPT ![Len(Past)].name = n]
  PROVE  AStep
BY DEF AStep, Abstract!ANext, Abstract!Name

LEMMA CloseStep ==
  ASSUME IsOpen, ~ IsOpen', Present' = Present, Future' = Future, Past' \in Later(Past)
  PROVE  AStep
BY DEF AStep, Abstract!ANext, Abstract!Close, Abstract!Later, Later

LEMMA UndoStep ==
  ASSUME ~ IsOpen, ~ IsOpen', Past # <<>>, Present' = Last(Past).doc, Past' = Front(Past),
         NEW f \in Later(Future), Future' = Append(f, EntryOf(Present, Last(Past).name))
  PROVE  AStep
<1>1. Present' = Abstract!Last(Past).doc /\ Past' = Abstract!Front(Past)
  BY DEF Last, Front, Abstract!Last, Abstract!Front
<1>2. Append(f, EntryOf(Present, Last(Past).name)) =
        Append(f, Abstract!Entry(Present, Abstract!Last(Past).name))
  BY DEF Last, Abstract!Last, EntryOf, Abstract!Entry
<1>3. f \in Abstract!Later(Future)
  BY DEF Later, Abstract!Later
<1>4. UNCHANGED IsOpen
  BY DEF IsOpen
<1>5. Abstract!AUndo
  BY <1>1, <1>2, <1>3, <1>4 DEF Abstract!AUndo
<1> QED BY <1>5 DEF AStep, Abstract!ANext

LEMMA RedoStep ==
  ASSUME ~ IsOpen, ~ IsOpen', Future # <<>>, Present' = Last(Future).doc,
         Future' = Front(Future),
         NEW p \in Later(Past), Past' = Append(p, EntryOf(Present, Last(Future).name))
  PROVE  AStep
<1>1. Present' = Abstract!Last(Future).doc /\ Future' = Abstract!Front(Future)
  BY DEF Last, Front, Abstract!Last, Abstract!Front
<1>2. Append(p, EntryOf(Present, Last(Future).name)) =
        Append(p, Abstract!Entry(Present, Abstract!Last(Future).name))
  BY DEF Last, Abstract!Last, EntryOf, Abstract!Entry
<1>3. p \in Abstract!Later(Past)
  BY DEF Later, Abstract!Later
<1>4. UNCHANGED IsOpen
  BY DEF IsOpen
<1>5. Abstract!ARedo
  BY <1>1, <1>2, <1>3, <1>4 DEF Abstract!ARedo
<1> QED BY <1>5 DEF AStep, Abstract!ANext

LEMMA ForgetStep ==
  ASSUME IsOpen' <=> IsOpen, Present' = Present, Past' \in Later(Past),
         Future' \in Later(Future), IsOpen => Past' # <<>>
  PROVE  AStep
BY DEF AStep, Abstract!ANext, Abstract!Forget, Abstract!Later, Later

LEMMA ForgetAllStep ==
  ASSUME ~ IsOpen', Present' \in Docs, Past' = <<>>, Future' = <<>>
  PROVE  AStep
BY DEF AStep, Abstract!ANext, Abstract!ForgetAll, Docs

--------------------------------------------------------------------------
(* Every step of the manager is one of the abstract manager, or none.       *)
LEMMA PushLeads ==
  ASSUME TypeOK, NEW stack \in Seq(Group), NEW g \in Group, g.actions # <<>>, NEW d \in Docs
  PROVE  LET e == Perform(g.actions, d) IN
         \E p \in Later(LeadsTo(stack, e)) :
           LeadsTo(Push(stack, g), d) = Append(p, EntryOf(e, g.name))
<1> DEFINE e == Perform(g.actions, d)
           r == Room(stack)
<1>1. r \in Seq(Group) /\ Push(stack, g) = Append(r, g)
  BY RoomIs, PushFits
<1>2. PICK m \in Nat : Len(stack) = Len(r) + m /\ \A j \in 1 .. Len(r) : r[j] = stack[j + m]
  BY RoomIs
<1> HIDE DEF r
<1>3. e \in Docs /\ LeadsTo(Append(r, g), d) = Append(LeadsTo(r, e), EntryOf(e, g.name))
  BY <1>1, LeadsAppend
<1> HIDE DEF e
<1>4. LeadsTo(r, e) \in Later(LeadsTo(stack, e))
  BY <1>1, <1>2, <1>3, LeadsLater
<1>5. \E p \in Later(LeadsTo(stack, e)) :
        LeadsTo(Push(stack, g), d) = Append(p, EntryOf(e, g.name))
  BY <1>1, <1>3, <1>4
<1> QED BY <1>5 DEF e

LEMMA Closed ==
  ASSUME UInv, isUndoing = FALSE, isRedoing = FALSE, NEW g \in Group,
         (open = <<>> /\ g = NewGroup) \/ open = <<g>>
  PROVE  IF Unused(open) THEN LeadsTo(Push(undoStack, g), doc) = Past
                         ELSE LeadsTo(Push(undoStack, g), doc) \in Later(Past)
<1>0. /\ TypeOK /\ doc \in Docs /\ open \in Seq(Group) /\ undoStack \in Seq(Group)
  BY UInvIs DEF UInv
<1>1. Past = IdlePast(doc, open, undoStack)
  BY IdleView
<1>2. CASE g.actions = <<>>
  <2>1. Unused(open)
    BY <1>2 DEF Unused
  <2>2. Push(undoStack, g) = undoStack
    BY <1>2 DEF Push
  <2> QED BY <1>1, <2>1, <2>2 DEF IdlePast
<1>3. CASE g.actions # <<>>
  <2> DEFINE e == Perform(g.actions, doc)
  <2>1. open = <<g>> /\ Len(<<g>>) = 1 /\ <<g>>[1] = g
    BY <1>3, NewGroupIs
  <2>2. ~ Unused(open)
    BY <1>3, <2>1 DEF Unused
  <2>3. Before(open, 1, doc) = e /\ e \in Docs
    BY <1>0, <2>1, BeforeOne
  <2>4. Past = Append(LeadsTo(undoStack, e), EntryOf(e, g.name))
    BY <1>1, <2>1, <2>2, <2>3 DEF IdlePast
  <2>5. PICK p \in Later(LeadsTo(undoStack, e)) :
          LeadsTo(Push(undoStack, g), doc) = Append(p, EntryOf(e, g.name))
    BY <1>0, <1>3, PushLeads
  <2>6. g.name \in Names
    BY DEF Group
  <2> HIDE DEF e
  <2>7. LeadsTo(undoStack, e) \in Seq(Entries) /\ EntryOf(e, g.name) \in Entries
    BY <1>0, <2>3, <2>6, LeadsIs DEF Entries, EntryOf
  <2>8. Append(p, EntryOf(e, g.name)) \in Later(Past)
    BY <2>4, <2>7, LaterAppend
  <2> QED BY <2>2, <2>5, <2>8
<1> QED BY <1>2, <1>3

LEMMA CInvIdleNext ==
  ASSUME disableCount' = 0, isUndoing' = FALSE, isRedoing' = FALSE, (call').kind = "none",
         (call').left = 0
  PROVE  CInv'
BY DEF CInv, Idle

LEMMA IdleIs ==
  ASSUME SInv, Idle
  PROVE  /\ UInv /\ disableCount = 0 /\ isUndoing = FALSE /\ isRedoing = FALSE /\ ~ Busy
         /\ call.kind = "none" /\ call.left = 0
BY UInvIs DEF SInv, CInv, Idle, StillTyped, Busy

LEMMA BusyIs ==
  ASSUME SInv, ~ Idle
  PROVE  /\ UInv /\ disableCount = 0 /\ isUndoing # isRedoing /\ Busy
         /\ isUndoing = (call.kind = "undo") /\ isRedoing = (call.kind = "redo")
         /\ Len(open) = 1 /\ open = <<open[1]>> /\ open[1] \in Group /\ Last(open) = open[1]
         /\ open[1].actions \in Seq(Action) /\ BeforeOpen = Perform(open[1].actions, doc)
         /\ call.group.actions # <<>> /\ call.group \in Group
         /\ call.group.actions \in Seq(Action)
         /\ Len(open[1].actions) = Len(call.group.actions) - call.left
         /\ doc = Perform(Invoked(call.left), BeforeOpen)
<1>1. /\ UInv /\ disableCount = 0 /\ Len(open) = 1 /\ call.group.actions # <<>>
      /\ Len(open[1].actions) = Len(call.group.actions) - call.left
      /\ doc = Perform(Invoked(call.left), BeforeOpen)
  BY DEF SInv, CInv
<1>2. /\ call.kind \in {"undo", "redo"} /\ call.group \in Group
      /\ isUndoing \in BOOLEAN /\ isRedoing \in BOOLEAN
      /\ doc \in Docs /\ open \in Seq(Group)
  BY <1>1, UInvIs DEF StillTyped, Idle
<1>3. isUndoing = (call.kind = "undo") /\ isRedoing = (call.kind = "redo")
  BY <1>2 DEF SInv, CInv
<1>4. open = <<open[1]>> /\ open[1] \in Group /\ Last(open) = open[1]
  BY <1>1, <1>2, OnlyOne
<1>5. open[1].actions \in Seq(Action) /\ call.group.actions \in Seq(Action)
  BY <1>2, <1>4 DEF Group
<1>6. BeforeOpen = Perform(open[1].actions, doc)
  <2> DEFINE g == open[1]
  <2>1. Before(<<g>>, 1, doc) = Perform(g.actions, doc)
    BY <1>2, <1>4, BeforeOne
  <2> QED BY <1>4, <2>1 DEF BeforeOpen
<1>7. isUndoing # isRedoing /\ Busy
  BY <1>2, <1>3 DEF Busy
<1> QED BY <1>1, <1>2, <1>3, <1>4, <1>5, <1>6, <1>7

(* What is registered with a change of the document takes it back.          *)
LEMMA RegisterUndoes ==
  ASSUME UInv, NEW k \in Keys, NEW v \in Values, SetKey(k, v), disableCount = 0
  PROVE  /\ Before(open', 1, doc') = Before(open, 1, doc)
         /\ ~ Unused(open') /\ open'[1].name \in Names
         /\ open # <<>> => open'[1].name = open[1].name
         /\ Len(open) = 1 => /\ Len(open') = 1
                             /\ Len(open'[1].actions) = Len(open[1].actions) + 1
<1> DEFINE a == [key |-> k, value |-> doc[k]]
           o == Opened
           f == Front(o)
           l == Last(o)
           x == Extended(o, a)
<1>0. TypeOK /\ doc \in Docs /\ open \in Seq(Group)
  BY UInvIs DEF UInv
<1>1. /\ doc' \in Docs /\ doc' = [doc EXCEPT ![k] = v] /\ a \in Action /\ WithAction(a)
      /\ a.key = k /\ a.value = doc[k]
  BY <1>0, SetKeyIs
<1> HIDE DEF a
<1>2. /\ o \in Seq(Group) /\ o # <<>> /\ x \in Group
      /\ x.actions = Append(l.actions, a) /\ x.name = l.name
      /\ open' = [o EXCEPT ![Len(o)] = x] /\ open' \in Seq(Group) /\ open' # <<>>
  BY <1>0, <1>1, WithActionIs
<1> HIDE DEF o, x
<1>3. f \in Seq(Group) /\ o = Append(f, l)
  BY <1>2, FrontFits
<1>4. l \in Group /\ l.actions \in Seq(Action) /\ l = o[Len(o)] /\ Len(o) \in 1 .. Len(o)
  BY <1>2, LastIs
<1> DEFINE r == [o EXCEPT ![Len(o)] = x]
<1>a. /\ r = Append(f, x) /\ Len(r) = Len(o)
      /\ \A i \in 1 .. Len(o) : r[i] = IF i = Len(o) THEN x ELSE o[i]
  BY <1>2, LastBecomes
<1> HIDE DEF f, l, r
<1>5. /\ open' = Append(f, x) /\ Len(open') = Len(o)
      /\ \A i \in 1 .. Len(o) : open'[i] = IF i = Len(o) THEN x ELSE o[i]
  BY <1>2, <1>a DEF r
<1>b. x.actions # <<>> /\ Len(x.actions) = Len(l.actions) + 1
  <2> DEFINE w == l.actions
  <2>1. w \in Seq(Action) /\ x.actions = Append(w, a)
    BY <1>2, <1>4
  <2> HIDE DEF w
  <2>2. Append(w, a) # <<>> /\ Len(Append(w, a)) = Len(w) + 1
    BY <1>1, <2>1
  <2> QED BY <2>1, <2>2 DEF w
<1>6. Perform(x.actions, doc') = Perform(l.actions, doc)
  <2>1. [doc' EXCEPT ![k] = doc[k]] = doc
    BY <1>0, <1>1 DEF Docs
  <2>2. Perform(Append(l.actions, a), doc') = Perform(l.actions, [doc' EXCEPT ![a.key] = a.value])
    BY <1>1, <1>4, PerformAppend
  <2> QED BY <1>1, <1>2, <2>1, <2>2
<1>7. Before(open', 1, doc') = Before(o, 1, doc)
  <2>1. 1 \in 1 .. Len(f) + 1
    BY <1>3
  <2> DEFINE e == doc'
  <2>0. e \in Docs
    BY <1>1
  <2> HIDE DEF e
  <2>2. Before(Append(f, x), 1, e) = Before(f, 1, Perform(x.actions, e))
    BY <1>2, <1>3, <2>0, <2>1, BeforeAppend
  <2>3. Before(Append(f, l), 1, doc) = Before(f, 1, Perform(l.actions, doc))
    BY <1>0, <1>3, <1>4, <2>1, BeforeAppend
  <2> QED BY <1>3, <1>5, <1>6, <2>2, <2>3 DEF e
<1>8. Before(o, 1, doc) = Before(open, 1, doc)
  <2>1. CASE open = <<>>
    <3>1. Unused(o) /\ Unused(open)
      BY <2>1, NewGroupIs DEF o, Opened
    <3> QED BY <1>0, <1>2, <3>1, BeforeUnused
  <2>2. CASE open # <<>>
    BY <2>2 DEF o, Opened
  <2> QED BY <2>1, <2>2
<1>9. ~ Unused(open')
  <2>1. x.actions # <<>>
    BY <1>b
  <2>2. open'[Len(o)] = x /\ Len(o) \in 1 .. Len(open')
    BY <1>4, <1>5
  <2> QED BY <2>1, <2>2 DEF Unused
<1>10. open'[1].name = o[1].name /\ o[1].name \in Names
  <2>1. 1 \in 1 .. Len(o)
    BY <1>4
  <2>2. o[1].name \in Names
    BY <1>2, <2>1, GroupFields
  <2> QED BY <1>2, <1>4, <1>5, <2>1, <2>2
<1>11. open # <<>> => o = open
  BY DEF o, Opened
<1>12. ASSUME Len(open) = 1
       PROVE  Len(open') = 1 /\ Len(open'[1].actions) = Len(open[1].actions) + 1
  <2>1. o = open
    BY <1>0, <1>11, <1>12
  <2>2. Len(o) = 1 /\ Len(open') = 1
    BY <1>5, <1>12, <2>1
  <2>3. open'[1] = x /\ l = open[1]
    BY <1>4, <1>5, <2>1, <2>2
  <2> QED BY <1>b, <2>2, <2>3
<1> QED BY <1>7, <1>8, <1>9, <1>10, <1>11, <1>12

LEMMA StepEdit ==
  ASSUME SInv, UInv', NEW k \in Keys, NEW v \in Values, Edit(k, v)
  PROVE  CInv' /\ AStep
<1>0. UInv /\ disableCount = 0 /\ isUndoing = FALSE /\ isRedoing = FALSE /\ ~ Busy
      /\ call.kind = "none" /\ call.left = 0
  BY IdleIs DEF Edit
<1>1. SetKey(k, v) /\ UNCHANGED <<undoStack, isUndoing, isRedoing, disableCount, call>>
  BY DEF Edit, settings
<1>2. CInv'
  BY <1>0, <1>1, CInvIdleNext
<1> DEFINE b == Before(open, 1, doc)
<1>3. /\ Before(open', 1, doc') = b
      /\ ~ Unused(open') /\ open'[1].name \in Names
      /\ open # <<>> => open'[1].name = open[1].name
  BY <1>0, <1>1, RegisterUndoes
<1>4. /\ doc \in Docs /\ open \in Seq(Group) /\ undoStack \in Seq(Group) /\ doc' \in Docs
  BY <1>0, UInvIs, UInvIsNext
<1>5. redoStack' = <<>>
  <2>1. TypeOK
    BY <1>0 DEF UInv
  <2>2. ~ (disableCount > 0)
    BY <1>0
  <2>3. redoStack' = IF Busy THEN redoStack ELSE <<>>
    BY <1>1, <2>1, <2>2, SetKeyIs
  <2> QED BY <1>0, <2>3
<1>6. /\ Present = doc /\ Past = IdlePast(doc, open, undoStack)
      /\ IsOpen <=> ~ Unused(open)
  BY <1>0, IdleView
<1>7. /\ Present' = doc' /\ Past' = IdlePast(doc', open', undoStack')
      /\ Future' = LeadsTo(redoStack', doc')
      /\ IsOpen' <=> ~ Unused(open')
  BY <1>0, <1>1, IdleViewNext
<1>8. Future' = <<>>
  <2>1. LeadsTo(<<>>, doc') = <<>>
    BY DEF LeadsTo
  <2> QED BY <1>5, <1>7, <2>1
<1> HIDE DEF b
<1>9. Past' = Append(LeadsTo(undoStack, b), EntryOf(b, open'[1].name))
  BY <1>1, <1>3, <1>7 DEF IdlePast
<1>10. CASE Unused(open)
  <2>1. b = doc /\ Past = LeadsTo(undoStack, doc)
    BY <1>4, <1>6, <1>10, BeforeUnused DEF b, IdlePast
  <2> QED BY <1>2, <1>3, <1>4, <1>6, <1>7, <1>8, <1>9, <1>10, <2>1, ChangeStep
<1>11. CASE ~ Unused(open)
  <2>1. open # <<>>
    BY <1>4, <1>11, UnusedIs
  <2>2. Past = Append(LeadsTo(undoStack, b), EntryOf(b, open[1].name))
    BY <1>6, <1>11 DEF IdlePast, b
  <2> QED BY <1>2, <1>3, <1>4, <1>6, <1>7, <1>8, <1>9, <1>11, <2>1, <2>2, ChangeStep
<1> QED BY <1>10, <1>11

(* Nothing but the open groups changes, and they lead back to the same.     *)
LEMMA SameGroups ==
  ASSUME SInv, UInv', Idle,
         UNCHANGED <<doc, undoStack, redoStack, isUndoing, isRedoing, disableCount, call>>,
         Unused(open') <=> Unused(open),
         Before(open', 1, doc) = Before(open, 1, doc),
         ~ Unused(open) => open'[1].name = open[1].name
  PROVE  CInv' /\ AStep
<1>0. UInv /\ disableCount = 0 /\ isUndoing = FALSE /\ isRedoing = FALSE
      /\ call.kind = "none" /\ call.left = 0
  BY IdleIs
<1>1. CInv'
  BY <1>0, CInvIdleNext
<1>2. /\ Present = doc /\ Past = IdlePast(doc, open, undoStack)
      /\ Future = LeadsTo(redoStack, doc) /\ (IsOpen <=> ~ Unused(open))
  BY <1>0, IdleView
<1>3. /\ Present' = doc' /\ Past' = IdlePast(doc', open', undoStack')
      /\ Future' = LeadsTo(redoStack', doc') /\ (IsOpen' <=> ~ Unused(open'))
  BY <1>0, IdleViewNext
<1>4. Past' = Past
  BY <1>2, <1>3 DEF IdlePast
<1> QED BY <1>1, <1>2, <1>3, <1>4, SameStep

LEMMA StepBeginUndoGrouping ==
  ASSUME SInv, UInv', BeginUndoGrouping
  PROVE  CInv' /\ AStep
<1> DEFINE o == IF open = <<>> /\ groupsByEvent THEN <<NewGroup>> ELSE open
<1>0. /\ doc \in Docs /\ open \in Seq(Group)
  BY UInvIs DEF SInv
<1>1. /\ Idle /\ open' = o \o <<NewGroup>>
      /\ UNCHANGED <<doc, undoStack, redoStack, isUndoing, isRedoing, disableCount, call>>
  BY DEF BeginUndoGrouping, stacks, settings
<1>2. /\ o \in Seq(Group) /\ NewGroup \in Group /\ NewGroup.actions = <<>>
      /\ Unused(open) <=> Unused(o)
      /\ ~ Unused(open) => o = open
  BY <1>0, NewGroupIs
<1>3. Before(o, 1, doc) = Before(open, 1, doc)
  BY <1>0, <1>2, BeforeUnused
<1> HIDE DEF o
<1>4. open' = Append(o, NewGroup)
  BY <1>1, <1>2, AppendLast
<1>5. Before(open', 1, doc) = Before(o, 1, doc)
  <2>1. 1 \in 1 .. Len(o) + 1
    BY <1>2
  <2>2. Before(Append(o, NewGroup), 1, doc) = Before(o, 1, Perform(NewGroup.actions, doc))
    BY <1>0, <1>2, <2>1, BeforeAppend
  <2> QED BY <1>0, <1>2, <1>4, <2>2, PerformEmpty
<1>6. /\ Len(open') = Len(o) + 1 /\ Len(o) \in Nat /\ open'[Len(o) + 1] = NewGroup
      /\ \A i \in 1 .. Len(o) : open'[i] = o[i]
  BY <1>2, <1>4
<1>7. Unused(open') <=> Unused(o)
  <2>1. \A i \in 1 .. Len(o) : i \in 1 .. Len(open')
    BY <1>6
  <2>2. \A i \in 1 .. Len(open') : i \in 1 .. Len(o) \/ i = Len(o) + 1
    BY <1>6
  <2> QED BY <1>2, <1>6, <2>1, <2>2 DEF Unused
<1>8. ~ Unused(open) => open'[1].name = open[1].name
  <2>1. ~ Unused(open) => 1 \in 1 .. Len(o)
    BY <1>0, <1>2, <1>6, UnusedIs
  <2> QED BY <1>2, <1>6, <2>1
<1> QED BY <1>1, <1>2, <1>3, <1>5, <1>7, <1>8, SameGroups

(* The end of a nested group leaves its actions to the one around it.       *)
LEMMA MergedLeads ==
  ASSUME UInv, Front(open) # <<>>, open # <<>>, Merged \in Group,
         Merged.actions = Last(Front(open)).actions \o Last(open).actions,
         Merged.name = Last(Front(open)).name,
         open' = [Front(open) EXCEPT ![Len(Front(open))] = Merged]
  PROVE  /\ Before(open', 1, doc) = Before(open, 1, doc)
         /\ Unused(open') <=> Unused(open)
         /\ ~ Unused(open) => open'[1].name = open[1].name
<1> DEFINE f == Front(open)
           g == Last(open)
           q == Front(f)
           p == Last(f)
           x == Merged
           r == [f EXCEPT ![Len(f)] = x]
<1>0. doc \in Docs /\ open \in Seq(Group)
  BY UInvIs
<1>1. /\ f \in Seq(Group) /\ f # <<>> /\ open = Append(f, g) /\ g \in Group
      /\ Len(open) \in Nat /\ Len(f) = Len(open) - 1
      /\ \A i \in 1 .. Len(f) : f[i] = open[i]
      /\ g = open[Len(open)] /\ g.actions \in Seq(Action)
  BY <1>0, FrontFits, LastIs, FrontIs
<1>2. x \in Group /\ x.actions = p.actions \o g.actions /\ x.name = p.name /\ open' = r
  OBVIOUS
<1> HIDE DEF f, g, x
<1>3. q \in Seq(Group) /\ f = Append(q, p)
  BY <1>1, FrontFits
<1>4. p \in Group /\ p.actions \in Seq(Action) /\ p = f[Len(f)] /\ Len(f) \in 1 .. Len(f)
  BY <1>1, LastIs
<1>5. /\ r = Append(q, x) /\ Len(r) = Len(f)
      /\ \A i \in 1 .. Len(f) : r[i] = IF i = Len(f) THEN x ELSE f[i]
  BY <1>1, <1>2, LastBecomes
<1> HIDE DEF q, p, r
<1>6. Before(r, 1, doc) = Before(open, 1, doc)
  <2> DEFINE e == Perform(g.actions, doc)
  <2>0. e \in Docs
    BY <1>0, <1>1, PerformType
  <2>1. 1 \in 1 .. Len(f) + 1 /\ 1 \in 1 .. Len(q) + 1
    BY <1>1, <1>3
  <2>2. Before(open, 1, doc) = Before(f, 1, e)
    BY <1>0, <1>1, <2>1, BeforeAppend
  <2>3. Perform(x.actions, doc) = Perform(p.actions, e)
    BY <1>0, <1>1, <1>2, <1>4, PerformConcat
  <2> HIDE DEF e
  <2>4. Before(f, 1, e) = Before(q, 1, Perform(p.actions, e))
    BY <1>3, <1>4, <2>0, <2>1, BeforeAppend
  <2>5. Before(r, 1, doc) = Before(q, 1, Perform(x.actions, doc))
    BY <1>0, <1>2, <1>3, <1>5, <2>1, BeforeAppend
  <2> QED BY <2>2, <2>3, <2>4, <2>5
<1>7. x.actions = <<>> <=> p.actions = <<>> /\ g.actions = <<>>
  <2> DEFINE a == p.actions
             b == g.actions
  <2>1. a \in Seq(Action) /\ b \in Seq(Action) /\ x.actions = a \o b
    BY <1>1, <1>2, <1>4
  <2> HIDE DEF a, b
  <2>2. a \o b = <<>> <=> a = <<>> /\ b = <<>>
    BY <2>1
  <2> QED BY <2>1, <2>2 DEF a, b
<1>8. Unused(r) <=> Unused(open)
  <2>1. /\ \A i \in 1 .. Len(f) : i \in 1 .. Len(open)
        /\ \A i \in 1 .. Len(open) : i \in 1 .. Len(f) \/ i = Len(open)
        /\ Len(open) \in 1 .. Len(open)
    BY <1>1, <1>4
  <2>2. ASSUME Unused(open) PROVE Unused(r)
    <3>1. \A i \in 1 .. Len(f) : f[i].actions = <<>>
      BY <1>1, <2>1, <2>2 DEF Unused
    <3>2. p.actions = <<>> /\ g.actions = <<>>
      BY <1>1, <1>4, <2>1, <2>2, <3>1 DEF Unused
    <3>3. \A i \in 1 .. Len(r) : r[i].actions = <<>>
      BY <1>5, <1>7, <3>1, <3>2
    <3> QED BY <3>3 DEF Unused
  <2>3. ASSUME Unused(r) PROVE Unused(open)
    <3>1. x.actions = <<>>
      BY <1>4, <1>5, <2>3 DEF Unused
    <3>2. \A i \in 1 .. Len(f) : f[i].actions = <<>>
      BY <1>4, <1>5, <1>7, <2>3, <3>1 DEF Unused
    <3> QED BY <1>1, <1>7, <2>1, <3>1, <3>2 DEF Unused
  <2> QED BY <2>2, <2>3
<1>9. r[1].name = open[1].name
  <2>1. 1 \in 1 .. Len(f)
    BY <1>4
  <2> QED BY <1>1, <1>2, <1>4, <1>5, <2>1
<1> QED BY <1>2, <1>6, <1>8, <1>9

LEMMA StepEndGroup ==
  ASSUME SInv, UInv', Idle, open # <<>>, EndGroup,
         UNCHANGED <<doc, isUndoing, isRedoing, disableCount, call>>
  PROVE  CInv' /\ AStep
<1>0. UInv /\ disableCount = 0 /\ isUndoing = FALSE /\ isRedoing = FALSE
      /\ call.kind = "none" /\ call.left = 0 /\ TypeOK
  BY IdleIs DEF UInv
<1>1. doc \in Docs /\ open \in Seq(Group)
  BY <1>0, UInvIs
<1>2. CASE /\ Front(open) # <<>> /\ UNCHANGED stacks
           /\ Merged \in Group
           /\ Merged.actions = Last(Front(open)).actions \o Last(open).actions
           /\ Merged.name = Last(Front(open)).name
           /\ open' = [Front(open) EXCEPT ![Len(Front(open))] = Merged]
  <2>1. /\ Before(open', 1, doc) = Before(open, 1, doc)
        /\ Unused(open') <=> Unused(open)
        /\ ~ Unused(open) => open'[1].name = open[1].name
    BY <1>0, <1>2, MergedLeads
  <2> QED BY <1>2, <2>1, SameGroups DEF stacks
<1>3. CASE /\ Front(open) = <<>> /\ open' = <<>>
           /\ undoStack' = Push(undoStack, Last(open)) /\ UNCHANGED redoStack
  <2> DEFINE g == Last(open)
  <2>1. /\ open = <<g>> /\ g \in Group
    <3>1. open = Append(Front(open), g) /\ g \in Group
      BY <1>1, FrontFits, LastIs
    <3> QED BY <1>3, <3>1
  <2> HIDE DEF g
  <2>2. IF Unused(open) THEN LeadsTo(Push(undoStack, g), doc) = Past
                        ELSE LeadsTo(Push(undoStack, g), doc) \in Later(Past)
    BY <1>0, <2>1, Closed
  <2>3. Present = doc /\ Future = LeadsTo(redoStack, doc) /\ (IsOpen <=> ~ Unused(open))
    BY <1>0, IdleView
  <2>4. Unused(open')
    BY <1>3, NewGroupIs
  <2>5. /\ Present' = doc' /\ Past' = IdlePast(doc', open', undoStack')
        /\ Future' = LeadsTo(redoStack', doc') /\ (IsOpen' <=> ~ Unused(open'))
    BY <1>0, IdleViewNext
  <2>6. Past' = LeadsTo(Push(undoStack, g), doc)
    BY <1>3, <2>4, <2>5 DEF IdlePast, g
  <2>7. CInv'
    BY <1>0, CInvIdleNext
  <2>8. CASE Unused(open)
    BY <1>3, <2>2, <2>3, <2>4, <2>5, <2>6, <2>7, <2>8, SameStep
  <2>9. CASE ~ Unused(open)
    BY <1>3, <2>2, <2>3, <2>4, <2>5, <2>6, <2>7, <2>9, CloseStep
  <2> QED BY <2>8, <2>9
<1> QED BY <1>0, <1>2, <1>3, EndGroupIs

LEMMA StepEndUndoGrouping ==
  ASSUME SInv, UInv', EndUndoGrouping
  PROVE  CInv' /\ AStep
BY StepEndGroup DEF EndUndoGrouping, settings

LEMMA StepSame ==
  ASSUME SInv, UInv',
         UNCHANGED <<doc, open, undoStack, redoStack, isUndoing, isRedoing, disableCount, call>>
  PROVE  CInv' /\ AStep
<1>1. Present' = Present /\ Past' = Past /\ Future' = Future /\ (IsOpen' <=> IsOpen)
  BY DEF Present, Past, Future, IsOpen, BeforeOpen, Busy, Taken, Unused
<1>2. CInv'
  BY DEF SInv, CInv, Idle, Invoked, BeforeOpen
<1> QED BY <1>1, <1>2, SameStep

LEMMA StepLoop ==
  ASSUME SInv, UInv', Undisturbed, Loop
  PROVE  CInv' /\ AStep
<1>1. Idle /\ UNCHANGED <<doc, isUndoing, isRedoing, disableCount, call>>
  BY DEF Loop, Undisturbed, settings
<1>2. (open # <<>> /\ EndGroup) \/ UNCHANGED <<open, undoStack, redoStack>>
  BY DEF Loop, stacks
<1> QED BY <1>1, <1>2, StepEndGroup, StepSame

(* An undo takes the last group, that of the event if it is still open.     *)
LEMMA StepUndo ==
  ASSUME SInv, UInv', Undo
  PROVE  CInv' /\ AStep
<1> DEFINE g == IF open = <<>> THEN NewGroup ELSE open[1]
           undos == Push(undoStack, g)
           x == Last(undos)
           q == Front(undos)
<1>0. UInv /\ disableCount = 0 /\ isUndoing = FALSE /\ isRedoing = FALSE
      /\ call.kind = "none" /\ call.left = 0 /\ TypeOK /\ ~ Busy
  BY IdleIs DEF UInv, Undo
<1>1. doc \in Docs /\ open \in Seq(Group) /\ undoStack \in Seq(Group) /\ redoStack \in Seq(Group)
      /\ Fits(undoStack, levels) /\ levels \in Nat
  BY <1>0, UInvIs, LevelsAreNat
<1>2. g \in Group /\ ((open = <<>> /\ g = NewGroup) \/ open = <<g>>)
  <2>1. CASE open = <<>>
    BY <2>1, NewGroupIs
  <2>2. CASE open # <<>>
    <3>1. Len(open) <= 1
      BY DEF Undo
    <3> DEFINE n == Len(open)
    <3>a. n \in Nat /\ n \in 1 .. n /\ n <= 1
      BY <1>1, <2>2, <3>1, LastIs
    <3> HIDE DEF n
    <3>b. n = 1
      BY <3>a
    <3>2. Len(open) = 1
      BY <3>b DEF n
    <3> QED BY <1>1, <2>2, <3>2, OnlyOne
  <2> QED BY <2>1, <2>2
<1>3. /\ redoStack' = redoStack /\ UNCHANGED <<doc, isRedoing, disableCount>>
      /\ IF undos = <<>>
         THEN undoStack' = undos /\ open' = <<>> /\ UNCHANGED <<isUndoing, call>>
         ELSE /\ undoStack' = q /\ open' = <<NewGroup>> /\ isUndoing' = TRUE
              /\ call' = [kind |-> "undo", group |-> x, left |-> Len(x.actions), saved |-> <<>>]
  BY <1>0 DEF Undo, settings
<1> HIDE DEF g
<1>4. IF Unused(open) THEN LeadsTo(undos, doc) = Past ELSE LeadsTo(undos, doc) \in Later(Past)
  BY <1>0, <1>2, Closed
<1>5. Present = doc /\ Future = LeadsTo(redoStack, doc) /\ (IsOpen <=> ~ Unused(open))
  BY <1>0, IdleView
<1>6. undos \in Seq(Group) /\ Fits(undos, levels)
  BY <1>0, <1>1, <1>2, PushFits
<1> HIDE DEF undos
<1>7. CASE undos = <<>>
  <2>1. Unused(open')
    BY <1>3, <1>7, NewGroupIs
  <2>2. /\ Present' = doc' /\ Past' = IdlePast(doc', open', undoStack')
        /\ Future' = LeadsTo(redoStack', doc') /\ (IsOpen' <=> ~ Unused(open'))
    BY <1>0, <1>3, <1>7, IdleViewNext
  <2>3. Past' = LeadsTo(undos, doc)
    BY <1>3, <1>7, <2>1, <2>2 DEF IdlePast
  <2>4. CInv'
    BY <1>0, <1>3, <1>7, CInvIdleNext
  <2>5. CASE Unused(open)
    BY <1>3, <1>4, <1>5, <2>1, <2>2, <2>3, <2>4, <2>5, SameStep
  <2>6. CASE ~ Unused(open)
    BY <1>3, <1>4, <1>5, <2>1, <2>2, <2>3, <2>4, <2>6, CloseStep
  <2> QED BY <2>5, <2>6
<1>8. CASE undos # <<>>
  <2>1. /\ q \in Seq(Group) /\ x \in Group /\ undos = Append(q, x)
        /\ x = undos[Len(undos)] /\ Len(undos) \in 1 .. Len(undos) /\ x.actions \in Seq(Action)
    BY <1>6, <1>8, FrontFits, LastIs
  <2>2. x.actions # <<>>
    BY <1>6, <2>1 DEF Fits
  <2> HIDE DEF q, x
  <2>3. /\ undoStack' = q /\ open' = <<NewGroup>> /\ isUndoing' = TRUE /\ isRedoing' = FALSE
        /\ (call').group = x /\ (call').left = Len(x.actions) /\ (call').kind = "undo"
    BY <1>0, <1>3, <1>8
  <2>4. Before(open', 1, doc') = doc /\ BeforeOpen' = doc
    <3>1. Before(<<NewGroup>>, 1, doc) = doc
      BY <1>1, BeforeUnused, NewGroupIs
    <3> QED BY <1>3, <2>3, <3>1 DEF BeforeOpen
  <2>5. /\ Present' = BeforeOpen' /\ IsOpen' = FALSE
        /\ Past' = LeadsTo(Append(undoStack', (call').group), BeforeOpen')
        /\ Future' = LeadsTo(redoStack', BeforeOpen')
    BY <2>3, BusyViewNext
  <2>6. Past' = LeadsTo(undos, doc)
    BY <2>1, <2>3, <2>4, <2>5
  <2>7. CInv'
    <3>1. SubSeq(x.actions, Len(x.actions) + 1, Len(x.actions)) = <<>>
      BY <2>1
    <3>2. doc' = Perform(SubSeq(x.actions, Len(x.actions) + 1, Len(x.actions)), BeforeOpen')
      BY <1>1, <1>3, <2>4, <3>1, PerformEmpty
    <3>3. doc' = Perform(Invoked(call.left), BeforeOpen)'
      BY <2>3, <3>2 DEF Invoked, Perform, On
    <3>4. /\ Len(open') = 1 /\ (call').group.actions # <<>>
          /\ Len(open'[1].actions) = Len((call').group.actions) - (call').left
      BY <2>1, <2>2, <2>3, NewGroupIs
    <3>5. disableCount' = 0 /\ isUndoing' = TRUE /\ isRedoing' = FALSE /\ (call').kind = "undo"
      BY <1>0, <1>3, <2>3
    <3> QED BY <3>3, <3>4, <3>5 DEF CInv, Idle
  <2>8. CASE Unused(open)
    BY <1>3, <1>4, <1>5, <2>4, <2>5, <2>6, <2>7, <2>8, SameStep
  <2>9. CASE ~ Unused(open)
    BY <1>3, <1>4, <1>5, <2>4, <2>5, <2>6, <2>7, <2>9, CloseStep
  <2> QED BY <2>8, <2>9
<1> QED BY <1>7, <1>8

LEMMA StepRedo ==
  ASSUME SInv, UInv', Redo
  PROVE  CInv' /\ AStep
<1> DEFINE x == Last(redoStack)
           q == Front(redoStack)
<1>0. UInv /\ disableCount = 0 /\ isUndoing = FALSE /\ isRedoing = FALSE
      /\ call.kind = "none" /\ call.left = 0 /\ ~ Busy
  BY IdleIs DEF Redo
<1>1. doc \in Docs /\ open \in Seq(Group) /\ undoStack \in Seq(Group) /\ redoStack \in Seq(Group)
      /\ Fits(redoStack, levels) /\ redoStack # <<>>
  BY <1>0, UInvIs DEF Redo
<1>2. Unused(open)
  BY <1>0, <1>1 DEF UInv, RedoIsFresh
<1>3. /\ q \in Seq(Group) /\ x \in Group /\ redoStack = Append(q, x)
      /\ x = redoStack[Len(redoStack)] /\ Len(redoStack) \in 1 .. Len(redoStack)
      /\ x.actions \in Seq(Action)
  BY <1>1, FrontFits, LastIs
<1>4. x.actions # <<>>
  BY <1>1, <1>3 DEF Fits
<1>5. /\ redoStack' = q /\ open' = <<NewGroup>> /\ isRedoing' = TRUE /\ isUndoing' = FALSE
      /\ (call').group = x /\ (call').left = Len(x.actions) /\ (call').kind = "redo"
      /\ UNCHANGED <<doc, undoStack, disableCount>>
  BY <1>0 DEF Redo, settings
<1>6. /\ Present = doc /\ Past = IdlePast(doc, open, undoStack)
      /\ Future = LeadsTo(redoStack, doc) /\ (IsOpen <=> ~ Unused(open))
  BY <1>0, IdleView
<1> HIDE DEF q, x
<1>7. Before(open', 1, doc') = doc /\ BeforeOpen' = doc
  <2>1. Before(<<NewGroup>>, 1, doc) = doc
    BY <1>1, BeforeUnused, NewGroupIs
  <2> QED BY <1>5, <2>1 DEF BeforeOpen
<1>8. /\ Present' = BeforeOpen' /\ IsOpen' = FALSE
      /\ Past' = LeadsTo(undoStack', BeforeOpen')
      /\ Future' = LeadsTo(Append(redoStack', (call').group), BeforeOpen')
  BY <1>5, BusyViewNext
<1>9. Past' = Past /\ Future' = Future /\ Present' = Present
  BY <1>2, <1>3, <1>5, <1>6, <1>7, <1>8 DEF IdlePast
<1>10. CInv'
  <2>1. SubSeq(x.actions, Len(x.actions) + 1, Len(x.actions)) = <<>>
    BY <1>3
  <2>2. doc' = Perform(SubSeq(x.actions, Len(x.actions) + 1, Len(x.actions)), BeforeOpen')
    BY <1>1, <1>5, <1>7, <2>1, PerformEmpty
  <2>3. doc' = Perform(Invoked(call.left), BeforeOpen)'
    BY <1>5, <2>2 DEF Invoked, Perform, On
  <2>4. /\ Len(open') = 1 /\ (call').group.actions # <<>>
        /\ Len(open'[1].actions) = Len((call').group.actions) - (call').left
    BY <1>3, <1>4, <1>5, NewGroupIs
  <2>5. disableCount' = 0 /\ isUndoing' = FALSE /\ isRedoing' = TRUE /\ (call').kind = "redo"
    BY <1>0, <1>5
  <2> QED BY <2>3, <2>4, <2>5 DEF CInv, Idle
<1> QED BY <1>2, <1>6, <1>8, <1>9, <1>10, SameStep

(* Each action that is invoked registers what takes it back.                *)
LEMMA StepInvoke ==
  ASSUME SInv, UInv', Invoke
  PROVE  CInv' /\ AStep
<1> DEFINE a == ToInvoke
           acts == call.group.actions
           n == call.left
           b == BeforeOpen
<1>0. UInv /\ StillTyped /\ n > 0
  BY UInvIs DEF SInv, UInv, Invoke
<1>1. ~ Idle
  BY <1>0 DEF SInv, CInv
<1>2. /\ disableCount = 0 /\ isUndoing # isRedoing /\ Busy
      /\ Len(open) = 1 /\ acts # <<>> /\ acts \in Seq(Action)
      /\ Len(open[1].actions) = Len(acts) - n
      /\ doc = Perform(Invoked(n), b)
      /\ isUndoing = (call.kind = "undo") /\ isRedoing = (call.kind = "redo")
  BY <1>1, BusyIs
<1>3. /\ a \in Action /\ a.key \in Keys /\ a.value \in Values /\ n \in 1 .. Len(acts)
      /\ a = acts[n]
  BY <1>0, ToInvokeIs DEF ToInvoke
<1>4. /\ SetKey(a.key, a.value)
      /\ UNCHANGED <<undoStack, isUndoing, isRedoing, disableCount>>
      /\ call' = [call EXCEPT !.left = n - 1]
  BY DEF Invoke, settings
<1>5. /\ (call').kind = call.kind /\ (call').group = call.group /\ (call').left = n - 1
  BY <1>0, <1>4 DEF StillTyped
<1>6. redoStack' = redoStack /\ doc' = [doc EXCEPT ![a.key] = a.value]
  <2>1. TypeOK /\ ~ (disableCount > 0)
    BY <1>0, <1>2 DEF UInv
  <2>2. redoStack' = (IF Busy THEN redoStack ELSE <<>>) /\ doc' = [doc EXCEPT ![a.key] = a.value]
    BY <1>3, <1>4, <2>1, SetKeyIs
  <2> QED BY <1>2, <2>2
<1>7. /\ Before(open', 1, doc') = b
      /\ Len(open') = 1 /\ Len(open'[1].actions) = Len(open[1].actions) + 1
  BY <1>0, <1>2, <1>3, <1>4, RegisterUndoes DEF BeforeOpen
<1>8. /\ b \in Docs /\ Present = b /\ IsOpen = FALSE
      /\ Past = IF isUndoing THEN LeadsTo(Append(undoStack, call.group), b)
                             ELSE LeadsTo(undoStack, b)
      /\ Future = IF isRedoing THEN LeadsTo(Append(redoStack, call.group), b)
                               ELSE LeadsTo(redoStack, b)
  BY <1>0, <1>2, BusyView
<1>9. /\ BeforeOpen' = Before(open', 1, doc')
      /\ Present' = BeforeOpen' /\ IsOpen' = FALSE
      /\ Past' = IF isUndoing' THEN LeadsTo(Append(undoStack', (call').group), BeforeOpen')
                               ELSE LeadsTo(undoStack', BeforeOpen')
      /\ Future' = IF isRedoing' THEN LeadsTo(Append(redoStack', (call').group), BeforeOpen')
                                 ELSE LeadsTo(redoStack', BeforeOpen')
  BY <1>2, <1>4, BusyViewNext
<1> HIDE DEF a, b
<1>10. BeforeOpen' = b
  BY <1>7, <1>9
<1>11. Present' = Present /\ Past' = Past /\ Future' = Future /\ (IsOpen' <=> IsOpen)
  BY <1>4, <1>5, <1>6, <1>8, <1>9, <1>10
<1>12. doc' = Perform(SubSeq(acts, n, Len(acts)), b)
  <2>1. Perform(SubSeq(acts, n, Len(acts)), b) =
          [Perform(SubSeq(acts, n + 1, Len(acts)), b) EXCEPT ![acts[n].key] = acts[n].value]
    BY <1>2, <1>3, <1>8, PerformFrom
  <2>2. doc = Perform(SubSeq(acts, n + 1, Len(acts)), b)
    BY <1>2 DEF Invoked
  <2> QED BY <1>3, <1>6, <2>1, <2>2
<1>13. CInv'
  <2>1. n = (n - 1) + 1 /\ n - 1 = (call').left
    BY <1>3, <1>5
  <2>2. doc' = Perform(SubSeq((call').group.actions, (call').left + 1, Len((call').group.actions)),
                       BeforeOpen')
    BY <1>5, <1>10, <1>12, <2>1
  <2>3. doc' = Perform(Invoked(call.left), BeforeOpen)'
    BY <2>2 DEF Invoked, Perform, On
  <2>4. Len(open'[1].actions) = Len((call').group.actions) - (call').left
    BY <1>2, <1>3, <1>5, <1>7
  <2>5. ~ Idle'
    BY <1>1, <1>5 DEF Idle
  <2>6. /\ disableCount' = 0 /\ isUndoing' = ((call').kind = "undo")
        /\ isRedoing' = ((call').kind = "redo") /\ (call').group.actions # <<>>
    BY <1>2, <1>4, <1>5
  <2> QED BY <1>7, <2>3, <2>4, <2>5, <2>6 DEF CInv
<1> QED BY <1>11, <1>13, SameStep

LEMMA RenamedPush ==
  ASSUME TypeOK, NEW stack \in Seq(Group), NEW g \in Group, g.actions # <<>>,
         call.group.name \in Names
  PROVE  LET h == [g EXCEPT !.name = call.group.name] IN
         /\ h \in Group /\ h.actions = g.actions /\ h.name = call.group.name
         /\ Renamed(Push(stack, g)) = Push(stack, h)
<1> DEFINE h == [g EXCEPT !.name = call.group.name]
           r == Room(stack)
           p == Append(r, g)
<1>1. h \in Group /\ h.actions = g.actions /\ h.name = call.group.name
  BY NewName
<1>2. r \in Seq(Group) /\ Push(stack, g) = p /\ Push(stack, h) = Append(r, h)
  BY <1>1, RoomIs, PushFits
<1> HIDE DEF r
<1>3. p # <<>> /\ p \in Seq(Group) /\ p[Len(p)] = g /\ Len(p) \in 1 .. Len(p)
  BY <1>2
<1>4. Renamed(p) = [p EXCEPT ![Len(p)] = h]
  BY <1>3 DEF Renamed
<1>5. \A y \in Group : [p EXCEPT ![Len(p)] = y] = Append(r, y)
  BY <1>2, AppendLast
<1> QED BY <1>1, <1>2, <1>4, <1>5

(* At the end of the call the document is the one the group leads back to,  *)
(* and what was registered leads to the one of before.                      *)
LEMMA StepFinish ==
  ASSUME SInv, UInv', Finish
  PROVE  CInv' /\ AStep
<1> DEFINE x == call.group
           y == open[1]
           b == BeforeOpen
           h == [y EXCEPT !.name = x.name]
           back == EntryOf(b, x.name)
<1>0. /\ ~ Idle /\ call.left = 0 /\ open' = call.saved /\ call' = NoCall /\ Stop
      /\ UNCHANGED <<doc, disableCount>>
  BY DEF Finish, settings
<1>1. /\ UInv /\ disableCount = 0 /\ isUndoing # isRedoing
      /\ isUndoing = (call.kind = "undo") /\ isRedoing = (call.kind = "redo")
      /\ Last(open) = y /\ y \in Group /\ y.actions \in Seq(Action)
      /\ b = Perform(y.actions, doc)
      /\ x.actions # <<>> /\ x \in Group /\ x.actions \in Seq(Action)
      /\ Len(y.actions) = Len(x.actions) - 0
      /\ doc = Perform(Invoked(0), b)
  BY <1>0, BusyIs
<1>2. /\ TypeOK /\ doc \in Docs /\ undoStack \in Seq(Group) /\ redoStack \in Seq(Group)
      /\ Unused(call.saved) /\ isUndoing \in BOOLEAN /\ isRedoing \in BOOLEAN
      /\ call.kind \in {"undo", "redo"}
  BY <1>0, <1>1, UInvIs DEF UInv, StillTyped, Idle
<1>3. /\ b \in Docs /\ Present = b /\ IsOpen = FALSE
      /\ Past = IF isUndoing THEN LeadsTo(Append(undoStack, x), b) ELSE LeadsTo(undoStack, b)
      /\ Future = IF isRedoing THEN LeadsTo(Append(redoStack, x), b) ELSE LeadsTo(redoStack, b)
  BY <1>1, BusyView
<1>4. doc = Perform(x.actions, b)
  <2>1. Invoked(0) = x.actions
    <3>1. SubSeq(x.actions, 0 + 1, Len(x.actions)) = x.actions
      BY <1>1
    <3> QED BY <3>1 DEF Invoked
  <2> QED BY <1>1, <2>1
<1>5. y.actions # <<>>
  <2>1. Len(x.actions) # 0 /\ Len(y.actions) = Len(x.actions)
    BY <1>1
  <2> QED BY <2>1
<1>6. x.name \in Names /\ back \in Entries
  BY <1>1, <1>3 DEF Group, Entries, EntryOf
<1>7. \A s \in Seq(Group) :
        LeadsTo(Append(s, x), b) = Append(LeadsTo(s, doc), EntryOf(doc, x.name))
  <2> SUFFICES ASSUME NEW s \in Seq(Group)
               PROVE LeadsTo(Append(s, x), b) = Append(LeadsTo(s, doc), EntryOf(doc, x.name))
    OBVIOUS
  <2>1. LeadsTo(Append(s, x), b) =
          Append(LeadsTo(s, Perform(x.actions, b)), EntryOf(Perform(x.actions, b), x.name))
    BY <1>1, <1>3, LeadsAppend
  <2> QED BY <1>4, <2>1
<1>8. \A s \in Seq(Group) :
        /\ Renamed(Push(s, y)) = Push(s, h)
        /\ \E p \in Later(LeadsTo(s, b)) : LeadsTo(Push(s, h), doc) = Append(p, back)
  <2> SUFFICES ASSUME NEW s \in Seq(Group)
               PROVE /\ Renamed(Push(s, y)) = Push(s, h)
                     /\ \E p \in Later(LeadsTo(s, b)) : LeadsTo(Push(s, h), doc) = Append(p, back)
    OBVIOUS
  <2>1. h \in Group /\ h.actions = y.actions /\ h.name = x.name
        /\ Renamed(Push(s, y)) = Push(s, h)
    BY <1>1, <1>2, <1>5, <1>6, RenamedPush
  <2> HIDE DEF h
  <2>2. \E p \in Later(LeadsTo(s, Perform(h.actions, doc))) :
          LeadsTo(Push(s, h), doc) = Append(p, EntryOf(Perform(h.actions, doc), h.name))
    BY <1>2, <1>5, <2>1, PushLeads
  <2> QED BY <1>1, <2>1, <2>2
<1>9. isUndoing' = FALSE /\ isRedoing' = FALSE
  BY <1>0, <1>1, <1>2 DEF Stop
<1>10. CInv'
  BY <1>0, <1>1, <1>9, NoCallIs, CInvIdleNext DEF NoCall
<1>11. Unused(open')
  BY <1>0, <1>2
<1>12. /\ Present' = doc /\ Past' = LeadsTo(undoStack', doc)
       /\ Future' = LeadsTo(redoStack', doc) /\ ~ IsOpen'
  BY <1>0, <1>9, <1>11, IdleViewNext DEF IdlePast
<1>13. \A s \in Seq(Group) : LeadsTo(s, doc) \in Seq(Entries) /\ EntryOf(doc, x.name) \in Entries
  BY <1>2, <1>6, LeadsIs DEF Entries, EntryOf
<1> HIDE DEF x, y, b, h
<1>14. CASE call.kind = "undo"
  <2> DEFINE u == LeadsTo(undoStack, doc)
             e == EntryOf(doc, x.name)
  <2>1. isUndoing = TRUE /\ isRedoing = FALSE
    BY <1>1, <1>2, <1>14
  <2>2. undoStack' = undoStack /\ redoStack' = Push(redoStack, h)
    <3>1. undoStack' = undoStack /\ redoStack' = Renamed(Push(redoStack, y))
      BY <1>1, <1>14, <2>1 DEF Finish
    <3> QED BY <1>2, <1>8, <3>1
  <2>3. Past = Append(u, e) /\ Future = LeadsTo(redoStack, b)
    BY <1>2, <1>3, <1>7, <2>1
  <2>4. u \in Seq(Entries) /\ e \in Entries
    BY <1>2, <1>13
  <2>5. PICK f \in Later(LeadsTo(redoStack, b)) : LeadsTo(Push(redoStack, h), doc) = Append(f, back)
    BY <1>2, <1>8
  <2>6. e.doc = doc /\ e.name = x.name
    BY DEF EntryOf
  <2>7. Past' = u /\ Future' = Append(f, back)
    BY <1>12, <2>2, <2>5
  <2> HIDE DEF u, e
  <2>8. Past # <<>> /\ Last(Past) = e /\ Front(Past) = u
    BY <2>3, <2>4, AppendLast
  <2>9. back = EntryOf(Present, Last(Past).name)
    BY <1>3, <2>6, <2>8
  <2> HIDE DEF back
  <2> QED BY <1>3, <1>10, <1>12, <2>3, <2>5, <2>6, <2>7, <2>8, <2>9, UndoStep
<1>15. CASE call.kind = "redo"
  <2> DEFINE u == LeadsTo(redoStack, doc)
             e == EntryOf(doc, x.name)
  <2>1. isUndoing = FALSE /\ isRedoing = TRUE
    BY <1>1, <1>2, <1>15
  <2>2. redoStack' = redoStack /\ undoStack' = Push(undoStack, h)
    <3>1. redoStack' = redoStack /\ undoStack' = Renamed(Push(undoStack, y))
      BY <1>1, <1>15, <2>1 DEF Finish
    <3> QED BY <1>2, <1>8, <3>1
  <2>3. Future = Append(u, e) /\ Past = LeadsTo(undoStack, b)
    BY <1>2, <1>3, <1>7, <2>1
  <2>4. u \in Seq(Entries) /\ e \in Entries
    BY <1>2, <1>13
  <2>5. PICK p \in Later(LeadsTo(undoStack, b)) : LeadsTo(Push(undoStack, h), doc) = Append(p, back)
    BY <1>2, <1>8
  <2>6. e.doc = doc /\ e.name = x.name
    BY DEF EntryOf
  <2>7. Future' = u /\ Past' = Append(p, back)
    BY <1>12, <2>2, <2>5
  <2> HIDE DEF u, e
  <2>8. Future # <<>> /\ Last(Future) = e /\ Front(Future) = u
    BY <2>3, <2>4, AppendLast
  <2>9. back = EntryOf(Present, Last(Future).name)
    BY <1>3, <2>6, <2>8
  <2> HIDE DEF back
  <2> QED BY <1>3, <1>10, <1>12, <2>3, <2>5, <2>6, <2>7, <2>8, <2>9, RedoStep
<1> QED BY <1>2, <1>14, <1>15

LEMMA NamedLeads ==
  ASSUME UInv, NEW n \in Names, SetActionName(n)
  PROVE  /\ Len(open') = Len(open) /\ open' \in Seq(Group)
         /\ \A i \in 1 .. Len(open) : open'[i].actions = open[i].actions
         /\ Before(open', 1, doc) = Before(open, 1, doc)
         /\ Unused(open') <=> Unused(open)
         /\ open'[1].name = IF Len(open) = 1 THEN n ELSE open[1].name
<1> DEFINE g == [Last(open) EXCEPT !.name = n]
           r == [open EXCEPT ![Len(open)] = g]
<1>0. open \in Seq(Group) /\ doc \in Docs /\ open # <<>>
  BY UInvIs DEF SetActionName
<1>1. /\ Last(open) \in Group /\ Last(open) = open[Len(open)] /\ Len(open) \in 1 .. Len(open)
      /\ Len(open) \in Nat
  BY <1>0, LastIs
<1>2. g \in Group /\ g.actions = Last(open).actions /\ g.name = n
  BY <1>1, NewName
<1>3. open' = r
  BY <1>1 DEF SetActionName
<1> HIDE DEF g
<1>4. /\ r \in Seq(Group) /\ Len(r) = Len(open)
      /\ \A i \in 1 .. Len(open) : r[i] = IF i = Len(open) THEN g ELSE open[i]
  BY <1>0, <1>2, LastBecomes
<1> HIDE DEF r
<1>5. \A i \in 1 .. Len(open) : r[i].actions = open[i].actions
  BY <1>1, <1>2, <1>4
<1>6. Before(r, 1, doc) = Before(open, 1, doc)
  <2>1. Len(open) = Len(r) + 0 /\ \A j \in 1 .. Len(r) : r[j].actions = open[j + 0].actions
    BY <1>1, <1>4, <1>5
  <2>2. Before(r, 1, doc) = Before(open, 1 + 0, doc)
    BY <1>0, <1>4, <2>1, BeforeShift
  <2> QED BY <2>2
<1>7. Unused(r) <=> Unused(open)
  BY <1>4, <1>5 DEF Unused
<1>8. r[1].name = IF Len(open) = 1 THEN n ELSE open[1].name
  <2>1. 1 \in 1 .. Len(open)
    BY <1>1
  <2> QED BY <1>2, <1>4, <2>1
<1> QED BY <1>3, <1>4, <1>5, <1>6, <1>7, <1>8

LEMMA StepSetActionName ==
  ASSUME SInv, UInv', NEW n \in Names, SetActionName(n)
  PROVE  CInv' /\ AStep
<1>0. /\ UInv /\ UNCHANGED <<doc, undoStack, redoStack, isUndoing, isRedoing, disableCount, call>>
  BY DEF SetActionName, stacks, settings, SInv
<1>1. /\ Len(open') = Len(open) /\ open' \in Seq(Group)
      /\ \A i \in 1 .. Len(open) : open'[i].actions = open[i].actions
      /\ Before(open', 1, doc) = Before(open, 1, doc)
      /\ Unused(open') <=> Unused(open)
      /\ open'[1].name = IF Len(open) = 1 THEN n ELSE open[1].name
  BY <1>0, NamedLeads
<1>2. CASE Idle /\ (Unused(open) \/ Len(open) # 1)
  BY <1>0, <1>1, <1>2, SameGroups
<1>3. CASE Idle /\ ~ Unused(open) /\ Len(open) = 1
  <2> DEFINE b == Before(open, 1, doc)
             l == LeadsTo(undoStack, b)
             e == EntryOf(b, open[1].name)
  <2>0. disableCount = 0 /\ isUndoing = FALSE /\ isRedoing = FALSE /\ call.kind = "none"
        /\ call.left = 0
    BY <1>3, IdleIs
  <2>1. doc \in Docs /\ open \in Seq(Group) /\ undoStack \in Seq(Group) /\ b \in Docs
    BY <1>0, UInvIs, BeforeType
  <2>2. /\ Present = doc /\ Past = Append(l, e)
        /\ Future = LeadsTo(redoStack, doc) /\ IsOpen
    BY <1>0, <1>3, <2>0, IdleView DEF IdlePast
  <2>3. /\ Present' = doc /\ Past' = Append(l, EntryOf(b, n))
        /\ Future' = LeadsTo(redoStack, doc) /\ IsOpen'
    <3>1. /\ Present' = doc' /\ Past' = IdlePast(doc', open', undoStack')
          /\ Future' = LeadsTo(redoStack', doc') /\ (IsOpen' <=> ~ Unused(open'))
      BY <1>0, <2>0, IdleViewNext
    <3> QED BY <1>0, <1>1, <1>3, <3>1 DEF IdlePast
  <2>4. open[1].name \in Names
    BY <1>3, <2>1, UnusedIs
  <2> HIDE DEF b
  <2>5. l \in Seq(Entries) /\ e \in Entries /\ EntryOf(b, n) \in Entries
    BY <2>1, <2>4, LeadsIs DEF Entries, EntryOf
  <2>6. [e EXCEPT !.name = n] = EntryOf(b, n)
    BY DEF EntryOf
  <2> HIDE DEF l, e
  <2> DEFINE p == Append(l, e)
  <2>7. /\ p[Len(p)] = e /\ \A y \in Entries : [p EXCEPT ![Len(p)] = y] = Append(l, y)
    BY <2>5, AppendLast
  <2> HIDE DEF p
  <2>8. [p EXCEPT ![Len(p)].name = n] = [p EXCEPT ![Len(p)] = EntryOf(b, n)]
    BY <2>6, <2>7
  <2>9. Past' = [Past EXCEPT ![Len(Past)].name = n]
    BY <2>2, <2>3, <2>5, <2>7, <2>8 DEF p
  <2>10. CInv'
    BY <1>0, <2>0, CInvIdleNext
  <2> QED BY <2>2, <2>3, <2>9, <2>10, NameStep
<1>4. CASE ~ Idle
  <2> DEFINE b == BeforeOpen
  <2>1. /\ disableCount = 0 /\ isUndoing # isRedoing /\ Len(open) = 1
        /\ isUndoing = (call.kind = "undo") /\ isRedoing = (call.kind = "redo")
        /\ call.group.actions # <<>>
        /\ Len(open[1].actions) = Len(call.group.actions) - call.left
        /\ doc = Perform(Invoked(call.left), b)
    BY <1>4, BusyIs
  <2>2. /\ b = Before(open, 1, doc) /\ Present = b /\ IsOpen = FALSE
        /\ Past = IF isUndoing THEN LeadsTo(Append(undoStack, call.group), b)
                               ELSE LeadsTo(undoStack, b)
        /\ Future = IF isRedoing THEN LeadsTo(Append(redoStack, call.group), b)
                                 ELSE LeadsTo(redoStack, b)
    BY <1>0, <2>1, BusyView DEF BeforeOpen
  <2>3. /\ BeforeOpen' = Before(open', 1, doc')
        /\ Present' = BeforeOpen' /\ IsOpen' = FALSE
        /\ Past' = IF isUndoing' THEN LeadsTo(Append(undoStack', (call').group), BeforeOpen')
                                 ELSE LeadsTo(undoStack', BeforeOpen')
        /\ Future' = IF isRedoing' THEN LeadsTo(Append(redoStack', (call').group), BeforeOpen')
                                   ELSE LeadsTo(redoStack', BeforeOpen')
    BY <1>0, <2>1, BusyViewNext
  <2> HIDE DEF b
  <2>4. BeforeOpen' = b
    BY <1>0, <1>1, <2>2, <2>3
  <2>5. Present' = Present /\ Past' = Past /\ Future' = Future /\ (IsOpen' <=> IsOpen)
    BY <1>0, <2>2, <2>3, <2>4
  <2>6. doc' = Perform(Invoked(call.left), BeforeOpen)'
    <3>1. doc' = Perform(SubSeq((call').group.actions, (call').left + 1,
                                Len((call').group.actions)), BeforeOpen')
      BY <1>0, <2>1, <2>4 DEF Invoked
    <3> QED BY <3>1 DEF Invoked, Perform, On
  <2>7. Len(open') = 1 /\ Len(open'[1].actions) = Len((call').group.actions) - (call').left
    BY <1>0, <1>1, <2>1
  <2>8. CInv'
    BY <1>0, <1>4, <2>1, <2>6, <2>7 DEF CInv, Idle
  <2> QED BY <2>5, <2>8, SameStep
<1> QED BY <1>2, <1>3, <1>4

LEMMA TruncatedLeads ==
  ASSUME NEW stack \in Seq(Group), NEW n \in Nat, NEW d \in Docs
  PROVE  LeadsTo(Truncated(n, stack), d) \in Later(LeadsTo(stack, d))
<1>1. /\ Truncated(n, stack) \in Seq(Group)
      /\ \E m \in Nat :
           /\ Len(stack) = Len(Truncated(n, stack)) + m
           /\ \A j \in 1 .. Len(Truncated(n, stack)) : Truncated(n, stack)[j] = stack[j + m]
  BY TruncatedIs
<1> QED BY <1>1, LeadsLater

LEMMA StepSetLevelsOfUndo ==
  ASSUME SInv, UInv', NEW n \in Levels, SetLevelsOfUndo(n)
  PROVE  CInv' /\ AStep
<1> DEFINE b == Before(open, 1, doc)
           u == Truncated(n, undoStack)
           r == Truncated(n, redoStack)
<1>0. /\ UInv /\ disableCount = 0 /\ isUndoing = FALSE /\ isRedoing = FALSE
      /\ call.kind = "none" /\ call.left = 0
  BY IdleIs DEF SetLevelsOfUndo
<1>1. /\ doc \in Docs /\ open \in Seq(Group) /\ undoStack \in Seq(Group)
      /\ redoStack \in Seq(Group) /\ n \in Nat /\ b \in Docs
  BY <1>0, UInvIs, LevelsAssumption, BeforeType
<1>2. /\ undoStack' = u /\ redoStack' = r
      /\ UNCHANGED <<doc, open, isUndoing, isRedoing, disableCount, call>>
  BY DEF SetLevelsOfUndo
<1> HIDE DEF u, r
<1>3. CInv'
  BY <1>0, <1>2, CInvIdleNext
<1>4. /\ Present = doc /\ Past = IdlePast(doc, open, undoStack)
      /\ Future = LeadsTo(redoStack, doc) /\ (IsOpen <=> ~ Unused(open))
  BY <1>0, IdleView
<1>5. /\ Present' = doc /\ Past' = IdlePast(doc, open, u)
      /\ Future' = LeadsTo(r, doc) /\ (IsOpen' <=> ~ Unused(open))
  <2>1. /\ Present' = doc' /\ Past' = IdlePast(doc', open', undoStack')
        /\ Future' = LeadsTo(redoStack', doc') /\ (IsOpen' <=> ~ Unused(open'))
    BY <1>0, <1>2, IdleViewNext
  <2> QED BY <1>2, <2>1
<1>6. /\ Future' \in Later(Future)
      /\ \A d \in Docs : LeadsTo(u, d) \in Later(LeadsTo(undoStack, d))
  BY <1>1, <1>4, <1>5, TruncatedLeads DEF u, r
<1>7. Past' \in Later(Past) /\ (IsOpen => Past' # <<>>)
  <2>1. CASE Unused(open)
    BY <1>1, <1>4, <1>5, <1>6, <2>1 DEF IdlePast
  <2>2. CASE ~ Unused(open)
    <3> DEFINE e == EntryOf(b, open[1].name)
    <3>1. Past = Append(LeadsTo(undoStack, b), e) /\ Past' = Append(LeadsTo(u, b), e)
      BY <1>4, <1>5, <2>2 DEF IdlePast
    <3>2. e \in Entries
      BY <1>1, <2>2, UnusedIs DEF Entries, EntryOf
    <3> HIDE DEF e, b
    <3>3. LeadsTo(undoStack, b) \in Seq(Entries)
      BY <1>1, LeadsIs
    <3> QED BY <1>1, <1>6, <3>1, <3>2, <3>3, LaterAppend
  <2> QED BY <2>1, <2>2
<1> QED BY <1>2, <1>3, <1>4, <1>5, <1>6, <1>7, ForgetStep

LEMMA StepRemoveAllActions ==
  ASSUME SInv, UInv', Undisturbed, RemoveAllActions
  PROVE  CInv' /\ AStep
<1>1. /\ Idle /\ open' = <<>> /\ undoStack' = <<>> /\ redoStack' = <<>>
      /\ isUndoing' = FALSE /\ isRedoing' = FALSE /\ disableCount' = 0
      /\ UNCHANGED <<doc, call>>
  BY DEF RemoveAllActions, Undisturbed
<1>2. CInv'
  BY <1>1, IdleIs, CInvIdleNext
<1>3. /\ Present' = doc' /\ Past' = IdlePast(doc', open', undoStack')
      /\ Future' = LeadsTo(redoStack', doc') /\ (IsOpen' <=> ~ Unused(open'))
  BY <1>1, IdleViewNext
<1>4. Unused(open') /\ LeadsTo(<<>>, doc') = <<>>
  BY <1>1, NewGroupIs DEF LeadsTo
<1>5. Past' = <<>> /\ Future' = <<>> /\ ~ IsOpen'
  BY <1>1, <1>3, <1>4 DEF IdlePast
<1>6. Present' \in Docs
  BY <1>3, UInvIsNext
<1> QED BY <1>2, <1>5, <1>6, ForgetAllStep

(* With nothing disturbed no call raises.                                   *)
LEMMA NoRaise == ASSUME SInv, Undisturbed PROVE ~ Raise
<1> SUFFICES ASSUME Raise PROVE FALSE
  OBVIOUS
<1>0. ~ Idle
  BY DEF Raise
<1>a. ~ Idle /\ Len(open) = 1
  BY <1>0, BusyIs
<1>b. Len(<<>>) # 1
  OBVIOUS
<1>1. ~ Idle /\ open # <<>>
  BY <1>a, <1>b
<1>2. CanRegister
  BY <1>1 DEF CanRegister
<1> QED BY <1>1, <1>2 DEF Raise, Undisturbed

LEMMA StepSettings ==
  ASSUME SInv, UInv', Undisturbed,
         \/ SetGroupsByEvent \/ DisableUndoRegistration \/ EnableUndoRegistration
  PROVE  CInv' /\ AStep
<1>1. CASE SetGroupsByEvent
  BY <1>1, StepSame DEF SetGroupsByEvent, stacks
<1>2. CASE DisableUndoRegistration
  BY <1>2 DEF DisableUndoRegistration, Undisturbed
<1>3. CASE EnableUndoRegistration
  <2>1. disableCount = 0 /\ disableCount > 0
    BY <1>3, IdleIs DEF EnableUndoRegistration
  <2> QED BY <2>1
<1> QED BY <1>1, <1>2, <1>3

LEMMA SInvInit == Init => SInv /\ Abstract!AInit
<1> SUFFICES ASSUME Init PROVE SInv /\ Abstract!AInit
  OBVIOUS
<1>1. UInv
  BY UInvInit
<1>2. CInv
  BY NoCallIs DEF Init, CInv, Idle, NoCall
<1>3. /\ Present = doc /\ Past = IdlePast(doc, open, undoStack)
      /\ Future = LeadsTo(redoStack, doc) /\ (IsOpen <=> ~ Unused(open))
  BY <1>1, IdleView DEF Init
<1>4. Unused(<<>>) /\ LeadsTo(<<>>, doc) = <<>> /\ open = <<>> /\ undoStack = <<>>
      /\ redoStack = <<>> /\ doc \in Docs
  BY NewGroupIs DEF LeadsTo, Init, Docs
<1>5. Present \in Docs /\ Past = <<>> /\ Future = <<>> /\ IsOpen = FALSE
  BY <1>3, <1>4 DEF IdlePast, IsOpen
<1> QED BY <1>1, <1>2, <1>5 DEF SInv, Abstract!AInit, Docs

LEMMA SInvNext ==
  ASSUME Undisturbed, SInv, [Next]_vars
  PROVE  SInv' /\ [Abstract!ANext]_Abstract!avars
<1>0. UInv'
  BY UInvNext DEF SInv
<1> SUFFICES CInv' /\ AStep
  BY <1>0 DEF SInv, AStep
<1>1. ASSUME NEW k \in Keys, NEW v \in Values, Edit(k, v) PROVE CInv' /\ AStep
  BY <1>0, <1>1, StepEdit
<1>2. CASE BeginUndoGrouping \/ EndUndoGrouping \/ Loop
  BY <1>0, <1>2, StepBeginUndoGrouping, StepEndUndoGrouping, StepLoop
<1>3. CASE Undo \/ Redo \/ Invoke \/ Finish
  BY <1>0, <1>3, StepUndo, StepRedo, StepInvoke, StepFinish
<1>4. CASE Raise
  BY <1>4, NoRaise
<1>5. CASE RemoveAllActions
  BY <1>0, <1>5, StepRemoveAllActions
<1>6. ASSUME NEW k \in Keys, RemoveAllActionsWithTarget(k) PROVE CInv' /\ AStep
  BY <1>6 DEF RemoveAllActionsWithTarget, Undisturbed
<1>7. ASSUME NEW n \in Names, SetActionName(n) PROVE CInv' /\ AStep
  BY <1>0, <1>7, StepSetActionName
<1>8. CASE SetGroupsByEvent \/ DisableUndoRegistration \/ EnableUndoRegistration
  BY <1>0, <1>8, StepSettings
<1>9. ASSUME NEW n \in Levels, SetLevelsOfUndo(n) PROVE CInv' /\ AStep
  BY <1>0, <1>9, StepSetLevelsOfUndo
<1>10. CASE UNCHANGED vars
  BY <1>0, <1>10, StepSame DEF vars, stacks, settings
<1> QED BY <1>1, <1>2, <1>3, <1>4, <1>5, <1>6, <1>7, <1>8, <1>9, <1>10 DEF Next

(* An undo gives back the document of before the last change and a redo the *)
(* one after it, with grouping, nesting, names, limits and removal of all   *)
(* actions in any order (undoNestedGroup, redo, endUndoGrouping,            *)
(* registerUndoWithTarget:), as long as no method raises, removes or runs   *)
(* the loop in the middle of an undo, registering is not disabled, and no   *)
(* single target's actions are removed: each of these leaves changes that   *)
(* no action undoes.                                                        *)
THEOREM UndoImplementsUndo == ASSUME Undisturbed PROVE Spec => ImplementsUndo
<1>1. Init => SInv /\ Abstract!AInit
  BY SInvInit
<1>2. SInv /\ [Next]_vars => SInv' /\ [Abstract!ANext]_Abstract!avars
  BY SInvNext
<1> QED BY <1>1, <1>2, PTL DEF Spec, ImplementsUndo, Abstract!ASpec
=============================================================================
