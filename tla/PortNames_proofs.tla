-------------------------- MODULE PortNames_proofs --------------------------
(***************************************************************************)
(* The table of gdomap is in order and its search by halves is right; and  *)
(* what processes may rely on of the names they register there.            *)
(***************************************************************************)
EXTENDS PortNames, Subsequences_proofs

--------------------------------------------------------------------------
(* A set that has every number whose predecessors it has has all numbers.   *)
LEMMA AllNumbers ==
  ASSUME NEW S, \A k \in Nat : (\A j \in 0 .. k - 1 : j \in S) => k \in S
  PROVE  Nat \subseteq S
<1> SUFFICES ASSUME NEW k \in Nat, k \notin S PROVE FALSE
  OBVIOUS
<1> DEFINE P == {j \in 0 .. k : j \notin S}
<1>1. IsFiniteSet(0 .. k)
  BY FS_Interval
<1>2. P \in SUBSET Nat /\ IsFiniteSet(P) /\ k \in P
  BY <1>1, FS_Subset
<1>3. PICK i \in P : \A j \in P : i <= j
  BY <1>2, LeastOf
<1>4. ASSUME NEW j \in 0 .. i - 1 PROVE j \in S
  BY <1>3
<1> QED BY <1>3, <1>4

(* Tables.                                                                  *)
Tables == Seq(Entry(Owners))

(* Where the names below n end in a span: there is one such place, and in a *)
(* table in order the search finds it.                                      *)
Cuts(m, n, s, c) ==
  /\ \A k \in s[1] .. c - 1 : m[k + 1].name < n
  /\ \A k \in c .. s[2] - 1 : m[k + 1].name >= n
Cut(m, n, s) == CHOOSE c \in s[1] .. s[2] : Cuts(m, n, s, c)

LEMMA NamesAreNumbers ==
  ASSUME NEW m \in Tables
  PROVE  /\ Len(m) \in Nat /\ DOMAIN m = 1 .. Len(m)
         /\ \A i \in 1 .. Len(m) : m[i] \in Entry(Owners) /\ m[i].name \in Nat
<1>1. Len(m) \in Nat /\ DOMAIN m = 1 .. Len(m)
      /\ \A i \in 1 .. Len(m) : m[i] \in Entry(Owners)
  BY DEF Tables
<1>2. \A e \in Entry(Owners) : e.name \in Nat
  BY NamesAssumption DEF Entry
<1> QED BY <1>1, <1>2

LEMMA SpanIs ==
  ASSUME NEW m \in Tables, NEW s \in Spans(m)
  PROVE  /\ s[1] \in 0 .. Len(m) /\ s[2] \in 0 .. Len(m) /\ s[1] <= s[2]
         /\ s = <<s[1], s[2]>>
         /\ \A k \in s[1] .. s[2] - 1 : k + 1 \in 1 .. Len(m) /\ m[k + 1].name \in Nat
         /\ s[1] < s[2] => Middle(s) \in s[1] .. s[2] - 1
         /\ s[1] = s[2] => Middle(s) = s[1]
<1>1. Len(m) \in Nat /\ \A i \in 1 .. Len(m) : m[i].name \in Nat
  BY NamesAreNumbers
<1>2. s[1] \in 0 .. Len(m) /\ s[2] \in 0 .. Len(m) /\ s[1] <= s[2] /\ s = <<s[1], s[2]>>
  BY DEF Spans
<1> DEFINE a == s[1]
           b == s[2]
           l == Len(m)
<1>3. l \in Nat /\ a \in 0 .. l /\ b \in 0 .. l /\ a <= b
  BY <1>1, <1>2
<1>4. Middle(s) = a + (b - a) \div 2
  BY DEF Middle
<1> HIDE DEF a, b, l
<1>5. \A k \in a .. b - 1 : k + 1 \in 1 .. l
  BY <1>3
<1>6. a < b => Middle(s) \in a .. b - 1
  BY <1>3, <1>4
<1>7. a = b => Middle(s) = a
  BY <1>3, <1>4
<1> QED BY <1>1, <1>2, <1>5, <1>6, <1>7 DEF a, b, l

LEMMA CutIs ==
  ASSUME NEW m \in Tables, InOrder(m), NEW n \in Nat, NEW s \in Spans(m)
  PROVE  /\ Cut(m, n, s) \in s[1] .. s[2] /\ Cuts(m, n, s, Cut(m, n, s))
         /\ \A c \in s[1] .. s[2] : Cuts(m, n, s, c) => c = Cut(m, n, s)
<1> DEFINE a == s[1]
           b == s[2]
<1>1. a \in Nat /\ b \in Nat /\ a <= b
      /\ \A k \in a .. b - 1 : k + 1 \in 1 .. Len(m) /\ m[k + 1].name \in Nat
  BY SpanIs, NamesAreNumbers
<1>2. \A k, l \in a .. b - 1 : k < l => m[k + 1].name < m[l + 1].name
  BY <1>1 DEF InOrder
<1> HIDE DEF a, b
<1> DEFINE P == {c \in a .. b : c = b \/ m[c + 1].name >= n}
<1>3. PICK c \in P : \A d \in P : c <= d
  <2>1. IsFiniteSet(a .. b)
    BY <1>1, FS_Interval
  <2>2. P \in SUBSET Nat /\ IsFiniteSet(P) /\ b \in P
    BY <1>1, <2>1, FS_Subset
  <2> QED BY <2>2, LeastOf
<1>4. c \in a .. b /\ Cuts(m, n, <<a, b>>, c)
  <2>1. c \in a .. b
    BY <1>3
  <2>2. ASSUME NEW k \in a .. c - 1 PROVE m[k + 1].name < n
    BY <1>1, <1>3, <2>1
  <2>3. ASSUME NEW k \in c .. b - 1 PROVE m[k + 1].name >= n
    <3>1. c # b /\ c \in a .. b - 1 /\ k \in a .. b - 1
      BY <1>1, <2>1
    <3>2. m[c + 1].name >= n
      BY <1>3, <3>1
    <3>3. c = k \/ c < k
      BY <2>1, <1>1
    <3> QED BY <3>1, <3>2, <3>3, <1>1, <1>2
  <2> QED BY <2>1, <2>2, <2>3 DEF Cuts
<1>5. ASSUME NEW x \in a .. b, NEW y \in a .. b,
             Cuts(m, n, <<a, b>>, x), Cuts(m, n, <<a, b>>, y)
      PROVE  ~ x < y
  <2>1. SUFFICES ASSUME x < y PROVE FALSE
    OBVIOUS
  <2>2. x \in a .. y - 1 /\ x \in x .. b - 1 /\ x \in a .. b - 1
    BY <1>1, <2>1
  <2>3. m[x + 1].name < n
    BY <2>2, <1>5 DEF Cuts
  <2>4. m[x + 1].name >= n
    BY <2>2, <1>5 DEF Cuts
  <2> QED BY <2>2, <2>3, <2>4, <1>1
<1>6. s = <<a, b>>
  BY SpanIs DEF a, b
<1>7. Cut(m, n, s) \in a .. b /\ Cuts(m, n, s, Cut(m, n, s))
  <2>1. Cut(m, n, s) = CHOOSE d \in a .. b : Cuts(m, n, s, d)
    BY DEF Cut, a, b
  <2> QED BY <2>1, <1>4, <1>6
<1>8. \A d \in a .. b : Cuts(m, n, s, d) => d = Cut(m, n, s)
  BY <1>1, <1>5, <1>6, <1>7
<1> QED BY <1>7, <1>8 DEF a, b

(* Half of a span is a shorter span with the same cut, and a span that is   *)
(* not halved has its cut in the middle.                                    *)
LEMMA HalfIs ==
  ASSUME NEW m \in Tables, InOrder(m), NEW n \in Nat, NEW s \in Spans(m)
  PROVE  /\ Stops(m, n, s) => Middle(s) = Cut(m, n, s)
         /\ ~ Stops(m, n, s) =>
              /\ Half(m, n, s) \in Spans(m)
              /\ Half(m, n, s)[2] - Half(m, n, s)[1] < s[2] - s[1]
              /\ Cut(m, n, Half(m, n, s)) = Cut(m, n, s)
<1> DEFINE a == s[1]
           b == s[2]
           h == Half(m, n, s)
           x == Middle(s)
           c == Cut(m, n, s)
<1>1. a \in 0 .. Len(m) /\ b \in 0 .. Len(m) /\ a <= b /\ Len(m) \in Nat
      /\ \A k \in a .. b - 1 : k + 1 \in 1 .. Len(m) /\ m[k + 1].name \in Nat
  BY SpanIs, NamesAreNumbers
<1>2. \A k, l \in a .. b - 1 : k < l => m[k + 1].name < m[l + 1].name
  BY <1>1 DEF InOrder
<1>3. c \in a .. b /\ Cuts(m, n, s, c) /\ \A d \in a .. b : Cuts(m, n, s, d) => d = c
  BY CutIs
<1>4. (a < b => x \in a .. b - 1) /\ (a = b => x = a)
  BY SpanIs
<1>5. Stops(m, n, s) <=> a = b \/ m[x + 1].name = n
  BY DEF Stops
<1>6. h = IF m[x + 1].name < n THEN <<x + 1, b>> ELSE <<a, x>>
  BY DEF Half
<1>7. \A d : Cuts(m, n, s, d) <=> /\ \A k \in a .. d - 1 : m[k + 1].name < n
                                  /\ \A k \in d .. b - 1 : m[k + 1].name >= n
  BY DEF Cuts
<1> HIDE DEF a, b, h, x, c
<1>8. ASSUME Stops(m, n, s) PROVE x = c
  <2>1. CASE a = b
    BY <2>1, <1>1, <1>3, <1>4
  <2>2. CASE a < b /\ m[x + 1].name = n
    <3>1. \A k \in a .. x - 1 : k \in a .. b - 1 /\ k < x
      BY <2>2, <1>1, <1>4
    <3>2. \A k \in x .. b - 1 : k \in a .. b - 1 /\ (k = x \/ x < k)
      BY <2>2, <1>1, <1>4
    <3>3. \A k \in a .. x - 1 : m[k + 1].name < n
      BY <3>1, <2>2, <1>2, <1>4
    <3>4. ASSUME NEW k \in x .. b - 1 PROVE m[k + 1].name >= n
      <4>1. k = x => m[k + 1].name >= n
        BY <2>2
      <4>2. x < k => m[x + 1].name < m[k + 1].name
        BY <3>2, <2>2, <1>2, <1>4
      <4>3. m[k + 1].name \in Nat
        BY <3>2, <1>1
      <4> QED BY <4>1, <4>2, <4>3, <3>2, <2>2
    <3>5. x \in a .. b
      BY <2>2, <1>1, <1>4
    <3> QED BY <3>3, <3>4, <3>5, <1>3, <1>7
  <2> QED BY <2>1, <2>2, <1>1, <1>5, <1>8
<1>9. ASSUME ~ Stops(m, n, s)
      PROVE  h \in Spans(m) /\ h[2] - h[1] < b - a /\ Cut(m, n, h) = c
  <2>1. a < b /\ x \in a .. b - 1 /\ m[x + 1].name # n
    BY <1>9, <1>1, <1>4, <1>5
  <2>2. \A k \in a .. x - 1 : k \in a .. b - 1 /\ k < x
    BY <1>1, <2>1
  <2>3. \A k \in x + 1 .. b - 1 : k \in a .. b - 1 /\ x < k
    BY <1>1, <2>1
  <2>4. CASE m[x + 1].name < n
    <3>1. h = <<x + 1, b>> /\ x + 1 \in 0 .. Len(m) /\ x + 1 <= b
      BY <2>4, <2>1, <1>1, <1>6
    <3>2. h \in Spans(m) /\ h[1] = x + 1 /\ h[2] = b
      BY <3>1, <1>1 DEF Spans
    <3>3. ~ c <= x
      <4>1. c <= x => x \in c .. b - 1
        BY <2>1, <1>1, <1>3
      <4>2. c <= x => m[x + 1].name >= n
        BY <4>1, <1>3, <1>7
      <4>3. m[x + 1].name \in Nat
        BY <2>1, <1>1
      <4> QED BY <4>2, <4>3, <2>4
    <3>4. c \in h[1] .. h[2]
      BY <3>2, <3>3, <1>1, <1>3, <2>1
    <3>5. \A k \in h[1] .. c - 1 : k \in a .. c - 1
      BY <3>2, <2>1, <1>1
    <3>6. Cuts(m, n, h, c)
      <4>1. \A k \in h[1] .. c - 1 : m[k + 1].name < n
        BY <3>5, <1>3, <1>7
      <4>2. \A k \in c .. h[2] - 1 : m[k + 1].name >= n
        BY <3>2, <1>3, <1>7
      <4> QED BY <4>1, <4>2 DEF Cuts
    <3>7. c = Cut(m, n, h)
      BY <3>2, <3>4, <3>6, CutIs
    <3> QED BY <3>2, <3>7, <2>1, <1>1
  <2>5. CASE m[x + 1].name > n
    <3>1. h = <<a, x>> /\ x \in 0 .. Len(m) /\ a <= x
      BY <2>5, <2>1, <1>1, <1>6
    <3>2. h \in Spans(m) /\ h[1] = a /\ h[2] = x
      BY <3>1, <1>1 DEF Spans
    <3>3. ~ x < c
      <4>1. x < c => x \in a .. c - 1
        BY <2>1, <1>1, <1>3
      <4>2. x < c => m[x + 1].name < n
        BY <4>1, <1>3, <1>7
      <4>3. m[x + 1].name \in Nat
        BY <2>1, <1>1
      <4> QED BY <4>2, <4>3, <2>5
    <3>4. c \in h[1] .. h[2]
      BY <3>2, <3>3, <1>1, <1>3, <2>1
    <3>5. \A k \in c .. h[2] - 1 : k \in c .. b - 1
      BY <3>2, <2>1, <1>1, <1>3
    <3>6. Cuts(m, n, h, c)
      <4>1. \A k \in h[1] .. c - 1 : m[k + 1].name < n
        BY <3>2, <1>3, <1>7
      <4>2. \A k \in c .. h[2] - 1 : m[k + 1].name >= n
        BY <3>5, <1>3, <1>7
      <4> QED BY <4>1, <4>2 DEF Cuts
    <3>7. c = Cut(m, n, h)
      BY <3>2, <3>4, <3>6, CutIs
    <3> QED BY <3>2, <3>7, <2>1, <1>1
  <2> QED BY <2>1, <2>4, <2>5, <1>1
<1> QED BY <1>8, <1>9 DEF a, b, h, x, c

(* What the search computes: such a function exists, and whichever it is    *)
(* finds the cut, by induction on the length of the span.                   *)
LEMMA SearchIs ==
  ASSUME NEW m \in Tables, InOrder(m), NEW n \in Nat
  PROVE  LET c == Cut(m, n, <<0, Len(m)>>) IN
         map_by_name(m, n) = IF c < Len(m) /\ m[c + 1].name = n THEN c + 1 ELSE 0
<1> DEFINE Searches(f) == f = [s \in Spans(m) |->
             IF Stops(m, n, s) THEN Middle(s) ELSE f[Half(m, n, s)]]
           f0 == [s \in Spans(m) |-> Cut(m, n, s)]
           g == CHOOSE f : Searches(f)
<1>1. Searches(f0)
  <2>1. \A s \in Spans(m) :
          f0[s] = IF Stops(m, n, s) THEN Middle(s) ELSE f0[Half(m, n, s)]
    BY HalfIs
  <2> QED BY <2>1
<1>2. Searches(g)
  <2> HIDE DEF Searches, f0
  <2> QED BY <1>1
<1>3. \A s \in Spans(m) :
        g[s] = IF Stops(m, n, s) THEN Middle(s) ELSE g[Half(m, n, s)]
  BY <1>2
<1> DEFINE S == {k \in Nat : \A s \in Spans(m) : s[2] - s[1] = k => g[s] = Cut(m, n, s)}
<1> HIDE DEF g, f0
<1>4. ASSUME NEW k \in Nat, \A j \in 0 .. k - 1 : j \in S PROVE k \in S
  <2> SUFFICES ASSUME NEW s \in Spans(m), s[2] - s[1] = k PROVE g[s] = Cut(m, n, s)
    OBVIOUS
  <2>1. CASE Stops(m, n, s)
    BY <2>1, <1>3, HalfIs
  <2>2. CASE ~ Stops(m, n, s)
    <3> DEFINE h == Half(m, n, s)
    <3>1. h \in Spans(m) /\ h[2] - h[1] < s[2] - s[1] /\ Cut(m, n, h) = Cut(m, n, s)
      BY <2>2, HalfIs
    <3> HIDE DEF h
    <3>2. h[1] \in Nat /\ h[2] \in Nat /\ h[1] <= h[2]
      BY <3>1, SpanIs, NamesAreNumbers
    <3>3. h[2] - h[1] \in 0 .. k - 1
      BY <3>1, <3>2
    <3>4. g[h] = Cut(m, n, h)
      BY <3>1, <3>3, <1>4
    <3> QED BY <2>2, <3>1, <3>4, <1>3 DEF h
  <2> QED BY <2>1, <2>2
<1>5. Nat \subseteq S
  <2> HIDE DEF S
  <2> QED BY <1>4, AllNumbers
<1>6. Len(m) \in Nat
  BY NamesAreNumbers
<1>7. <<0, Len(m)>> \in Spans(m) /\ Len(m) - 0 \in Nat
  BY <1>6 DEF Spans
<1>8. g[<<0, Len(m)>>] = Cut(m, n, <<0, Len(m)>>)
  BY <1>5, <1>7
<1>9. map_by_name(m, n) =
        LET c == g[<<0, Len(m)>>] IN
        IF c < Len(m) /\ m[c + 1].name = n THEN c + 1 ELSE 0
  BY DEF map_by_name, g
<1> QED BY <1>8, <1>9

(* map_by_name(): in every table in strict order the search by halves finds *)
(* a name exactly when it is there, however long the table is.              *)
THEOREM SearchFinds ==
  ASSUME NEW m \in Tables, InOrder(m), NEW n \in Nat
  PROVE  IF \E i \in 1 .. Len(m) : m[i].name = n
         THEN map_by_name(m, n) \in 1 .. Len(m) /\ m[map_by_name(m, n)].name = n
         ELSE map_by_name(m, n) = 0
<1> DEFINE s == <<0, Len(m)>>
           c == Cut(m, n, s)
           l == Len(m)
<1>1. l \in Nat /\ \A i \in 1 .. l : m[i].name \in Nat
  BY NamesAreNumbers
<1>2. s \in Spans(m) /\ s[1] = 0 /\ s[2] = l
  BY <1>1 DEF Spans
<1>3. c \in 0 .. l /\ Cuts(m, n, s, c)
  BY <1>2, CutIs
<1>4. /\ \A k \in 0 .. c - 1 : m[k + 1].name < n
      /\ \A k \in c .. l - 1 : m[k + 1].name >= n
  BY <1>2, <1>3 DEF Cuts
<1>5. map_by_name(m, n) = IF c < l /\ m[c + 1].name = n THEN c + 1 ELSE 0
  BY SearchIs
<1>6. \A i, j \in 1 .. l : i < j => m[i].name < m[j].name
  BY DEF InOrder
<1> HIDE DEF s, c, l
<1>7. ASSUME NEW i \in 1 .. l, m[i].name = n PROVE i = c + 1 /\ c < l
  <2>1. ~ i - 1 \in 0 .. c - 1
    <3>1. (i - 1) + 1 = i
      BY <1>1
    <3> QED BY <3>1, <1>4, <1>7
  <2>2. i - 1 \in c .. l - 1 /\ c < l
    BY <2>1, <1>1, <1>3
  <2>3. m[c + 1].name >= n /\ c + 1 \in 1 .. l
    BY <2>2, <1>3, <1>4, <1>1
  <2>4. ~ c + 1 < i
    BY <2>3, <1>1, <1>6, <1>7
  <2> QED BY <2>2, <2>4, <1>1, <1>3
<1>8. CASE \E i \in 1 .. l : m[i].name = n
  BY <1>8, <1>7, <1>5, <1>3, <1>1 DEF l
<1>9. CASE ~ \E i \in 1 .. l : m[i].name = n
  <2>1. c < l => c + 1 \in 1 .. l
    BY <1>1, <1>3
  <2> QED BY <2>1, <1>9, <1>5 DEF l
<1> QED BY <1>8, <1>9 DEF l

--------------------------------------------------------------------------
(* What the operations do to the set of entries of a table in order.        *)
Ordered(m) == m \in Tables /\ InOrder(m)

LEMMA EntriesAre ==
  ASSUME NEW m, Ordered(m)
  PROVE  /\ Len(m) \in Nat /\ DOMAIN m = 1 .. Len(m) /\ m \in Seq(Entry(Owners))
         /\ \A i \in 1 .. Len(m) : m[i] \in Entries(m) /\ m[i].name \in Nat
         /\ \A e : e \in Entries(m) <=> \E i \in 1 .. Len(m) : m[i] = e
         /\ Entries(m) \subseteq Entry(Owners) /\ Entries(m) = ToSet(m)
         /\ \A i, j \in 1 .. Len(m) : i < j => m[i].name < m[j].name
<1>1. /\ Len(m) \in Nat /\ DOMAIN m = 1 .. Len(m)
      /\ \A i \in 1 .. Len(m) : m[i] \in Entry(Owners) /\ m[i].name \in Nat
  BY NamesAreNumbers DEF Ordered
<1>2. m \in Seq(Entry(Owners)) /\ \A i, j \in 1 .. Len(m) : i < j => m[i].name < m[j].name
  BY DEF Ordered, Tables, InOrder
<1> QED BY <1>1, <1>2 DEF Entries, ToSet

(* Each name is there once.                                                 *)
LEMMA OneOfName ==
  ASSUME NEW m, Ordered(m), NEW e \in Entries(m), NEW f \in Entries(m), e.name = f.name
  PROVE  e = f
<1>1. PICK i \in 1 .. Len(m), j \in 1 .. Len(m) : m[i] = e /\ m[j] = f
  BY EntriesAre
<1>2. ~ i < j /\ ~ j < i /\ i \in Nat /\ j \in Nat
  BY <1>1, EntriesAre
<1> QED BY <1>1, <1>2

LEMMA PlacesApart ==
  ASSUME NEW m, Ordered(m)
  PROVE  IsInjective(m)
<1>1. \A i, j \in 1 .. Len(m) : m[i] = m[j] => ~ i < j /\ ~ j < i /\ i \in Nat /\ j \in Nat
  BY EntriesAre
<1>2. \A i, j \in 1 .. Len(m) : m[i] = m[j] => i = j
  BY <1>1
<1> QED BY <1>2, EntriesAre, InSetOf

LEMMA FoundIs ==
  ASSUME NEW m, Ordered(m), NEW n \in Names, NEW at, at = map_by_name(m, n)
  PROVE  /\ at = 0 => \A e \in Entries(m) : e.name # n
         /\ at # 0 => /\ at \in 1 .. Len(m) /\ m[at] \in Entries(m)
                      /\ m[at].name = n
<1>1. n \in Nat /\ m \in Tables /\ InOrder(m)
  BY NamesAssumption DEF Ordered
<1>2. 0 \notin 1 .. Len(m)
  OBVIOUS
<1>3. CASE \E i \in 1 .. Len(m) : m[i].name = n
  BY <1>1, <1>2, <1>3, SearchFinds, EntriesAre
<1>4. CASE ~ \E i \in 1 .. Len(m) : m[i].name = n
  BY <1>1, <1>4, SearchFinds, EntriesAre
<1> QED BY <1>3, <1>4

LEMMA ConcatIs ==
  ASSUME NEW T, NEW a \in Seq(T), NEW b \in Seq(T)
  PROVE  /\ a \o b \in Seq(T) /\ Len(a \o b) = Len(a) + Len(b)
         /\ \A k \in 1 .. Len(a) : (a \o b)[k] = a[k]
         /\ \A k \in 1 .. Len(b) : (a \o b)[Len(a) + k] = b[k]
OBVIOUS

LEMMA InsertAtIs ==
  ASSUME NEW T, NEW seq \in Seq(T), NEW x \in T,
         NEW i \in Nat \ {0}, i <= Len(seq) + 1
  PROVE  /\ InsertAt(seq, i, x) \in Seq(T)
         /\ Len(InsertAt(seq, i, x)) = Len(seq) + 1 /\ Len(seq) \in Nat
         /\ \A k \in 1 .. Len(seq) + 1 : InsertAt(seq, i, x)[k] =
              IF k < i THEN seq[k] ELSE IF k = i THEN x ELSE seq[k - 1]
<1> DEFINE r == InsertAt(seq, i, x)
           n == Len(seq)
           a == [k \in 1 .. i - 1 |-> seq[k]]
           b == [k \in 1 .. n + 1 - i |-> seq[k + (i - 1)]]
<1>1. n \in Nat /\ i \in 1 .. n + 1 /\ \A k \in 1 .. n : seq[k] \in T
  OBVIOUS
<1>2. SubSeq(seq, 1, i - 1) = a /\ SubSeq(seq, i, n) = b
  BY <1>1
<1>3. \A k \in 1 .. i - 1 : seq[k] \in T
  BY <1>1
<1>4. \A k \in 1 .. n + 1 - i : seq[k + (i - 1)] \in T
  BY <1>1
<1>5. a \in Seq(T) /\ Len(a) = i - 1 /\ b \in Seq(T) /\ Len(b) = n + 1 - i
  BY <1>1, <1>3, <1>4
<1>6. r = a \o <<x>> \o b
  BY <1>2 DEF InsertAt
<1>7. /\ Append(a, x) \in Seq(T) /\ Len(Append(a, x)) = i /\ a \o <<x>> = Append(a, x)
      /\ \A k \in 1 .. i - 1 : Append(a, x)[k] = seq[k]
      /\ Append(a, x)[i] = x
  <2>1. \A k \in 1 .. i - 1 : a[k] = seq[k]
    OBVIOUS
  <2> HIDE DEF a
  <2> QED BY <1>1, <1>5, <2>1
<1>8. r = Append(a, x) \o b /\ \A k \in 1 .. Len(b) : b[k] = seq[k + (i - 1)]
  BY <1>5, <1>6, <1>7
<1> DEFINE c == Append(a, x)
<1> HIDE DEF a, b, r, n
<1>11. c \in Seq(T) /\ Len(c) = i /\ r = c \o b
  BY <1>7, <1>8
<1> HIDE DEF c
<1>9. /\ r \in Seq(T) /\ Len(r) = n + 1
      /\ \A k \in 1 .. i : r[k] = c[k]
      /\ \A k \in 1 .. Len(b) : r[i + k] = b[k]
  <2>1. /\ r \in Seq(T) /\ Len(r) = Len(c) + Len(b)
        /\ \A k \in 1 .. Len(c) : r[k] = c[k]
        /\ \A k \in 1 .. Len(b) : r[Len(c) + k] = b[k]
    <3>1. c \in Seq(T) /\ b \in Seq(T)
      BY <1>5, <1>11
    <3>2. r = c \o b
      BY <1>11
    <3> QED BY ONLY <3>1, <3>2, ConcatIs
  <2> QED BY <2>1, <1>11, <1>1, <1>5
<1>10. ASSUME NEW k \in 1 .. n + 1
       PROVE  r[k] = IF k < i THEN seq[k] ELSE IF k = i THEN x ELSE seq[k - 1]
  <2>1. CASE k < i
    <3>1. k \in 1 .. i /\ k \in 1 .. i - 1
      BY <2>1, <1>1
    <3> QED BY <2>1, <3>1, <1>7, <1>9 DEF c
  <2>2. CASE k = i
    BY <2>2, <1>1, <1>7, <1>9 DEF c
  <2>3. CASE k > i
    <3>1. k - i \in 1 .. Len(b) /\ i + (k - i) = k /\ (k - i) + (i - 1) = k - 1
      BY <2>3, <1>1, <1>5
    <3>2. r[i + (k - i)] = seq[(k - i) + (i - 1)]
      BY <3>1, <1>8, <1>9
    <3>3. ~ k < i /\ k # i
      BY <2>3, <1>1
    <3> QED BY <3>1, <3>2, <3>3
  <2> QED BY <2>1, <2>2, <2>3, <1>1
<1> QED BY <1>1, <1>9, <1>10 DEF r, n

LEMMA PlaceIs ==
  ASSUME NEW m, Ordered(m), NEW n \in Nat, \A e \in Entries(m) : e.name # n
  PROVE  /\ Place(m, n) \in 1 .. Len(m) + 1
         /\ \A i \in 1 .. Len(m) : IF i < Place(m, n) THEN m[i].name < n
                                                      ELSE m[i].name > n
<1> DEFINE A == Above(m, n)
           x == Place(m, n)
           l == Len(m)
<1>1. /\ l \in Nat /\ \A i \in 1 .. l : m[i].name \in Nat /\ m[i].name # n
      /\ \A i, j \in 1 .. l : i < j => m[i].name < m[j].name
  BY EntriesAre
<1>2. \A i : i \in A <=> i \in 1 .. l /\ m[i].name > n
  BY DEF Above
<1>3. x = IF A = {} THEN l + 1 ELSE CHOOSE i \in A : \A j \in A : i <= j
  BY DEF Place
<1>4. A # {} => \E i \in A : \A j \in A : i <= j
  <2> HIDE DEF A, l
  <2>1. IsFiniteSet(1 .. l)
    BY <1>1, FS_Interval
  <2>2. A \in SUBSET (1 .. l) /\ 1 .. l \in SUBSET Nat
    BY <1>1, <1>2
  <2>3. A \in SUBSET Nat /\ IsFiniteSet(A)
    BY <2>1, <2>2, FS_Subset
  <2> QED BY <2>3, LeastOf
<1> HIDE DEF A, x, l
<1>5. CASE A = {}
  <2>1. x = l + 1
    BY <1>3, <1>5
  <2>2. \A i \in 1 .. l : m[i].name < n /\ i < x
    BY <2>1, <1>1, <1>2, <1>5
  <2> QED BY <2>1, <2>2, <1>1 DEF x, l
<1>6. CASE A # {}
  <2>1. x \in A /\ \A j \in A : x <= j
    <3>1. x = CHOOSE i \in A : \A j \in A : i <= j
      BY <1>3, <1>6
    <3> QED BY <3>1, <1>4, <1>6
  <2>2. x \in 1 .. l /\ m[x].name > n
    BY <2>1, <1>2
  <2>3. ASSUME NEW i \in 1 .. l, i < x PROVE m[i].name < n
    <3>1. i \notin A
      BY <2>1, <2>2, <2>3
    <3> QED BY <3>1, <1>1, <1>2
  <2>4. ASSUME NEW i \in 1 .. l, ~ i < x PROVE m[i].name > n
    <3>1. i = x \/ x < i
      BY <2>2, <2>4
    <3>2. x < i => m[x].name < m[i].name
      BY <2>2, <1>1
    <3>3. m[x].name \in Nat /\ m[i].name \in Nat
      BY <2>2, <1>1
    <3> QED BY <3>1, <3>2, <3>3, <2>2
  <2>5. x \in 1 .. l + 1
    BY <2>2, <1>1
  <2> QED BY <2>3, <2>4, <2>5 DEF x, l
<1> QED BY <1>5, <1>6

LEMMA AddIs ==
  ASSUME NEW m, Ordered(m), NEW e \in Entry(Owners),
         \A x \in Entries(m) : x.name # e.name
  PROVE  Ordered(map_add(m, e)) /\ Entries(map_add(m, e)) = Entries(m) \cup {e}
<1> DEFINE r == map_add(m, e)
           l == Len(m)
           x == Place(m, e.name)
<1>1. e.name \in Nat
  BY NamesAssumption DEF Entry
<1>2. /\ x \in 1 .. l + 1
      /\ \A i \in 1 .. l : IF i < x THEN m[i].name < e.name ELSE m[i].name > e.name
  BY <1>1, PlaceIs
<1>3. /\ l \in Nat /\ m \in Seq(Entry(Owners))
      /\ \A i \in 1 .. l : m[i] \in Entries(m) /\ m[i].name \in Nat
      /\ \A f : f \in Entries(m) <=> \E i \in 1 .. l : m[i] = f
      /\ \A i, j \in 1 .. l : i < j => m[i].name < m[j].name
  BY EntriesAre
<1>4. r = InsertAt(m, x, e)
  BY DEF map_add
<1> HIDE DEF r, x
<1>5. /\ r \in Seq(Entry(Owners)) /\ Len(r) = l + 1
      /\ \A k \in 1 .. l + 1 :
           r[k] = IF k < x THEN m[k] ELSE IF k = x THEN e ELSE m[k - 1]
  <2>1. m \in Seq(Entry(Owners)) /\ x \in Nat \ {0} /\ x <= Len(m) + 1
    BY <1>2, <1>3
  <2> DEFINE w == InsertAt(m, x, e)
  <2>2. /\ w \in Seq(Entry(Owners)) /\ Len(w) = Len(m) + 1
        /\ \A k \in 1 .. Len(m) + 1 :
             w[k] = IF k < x THEN m[k] ELSE IF k = x THEN e ELSE m[k - 1]
    BY ONLY <2>1, InsertAtIs, e \in Entry(Owners)
  <2> QED BY <2>2, <1>4
<1> HIDE DEF l
<1>6. ASSUME NEW i \in 1 .. l + 1, NEW j \in 1 .. l + 1, i < j
      PROVE  r[i].name < r[j].name
  <2>1. CASE j < x
    <3>1. i \in 1 .. l /\ j \in 1 .. l /\ i < x
      BY <2>1, <1>2, <1>3, <1>6
    <3> QED BY <3>1, <2>1, <1>3, <1>5, <1>6
  <2>2. CASE j = x
    <3>1. i \in 1 .. l /\ i < x
      BY <2>2, <1>2, <1>3, <1>6
    <3>2. r[i] = m[i] /\ r[j] = e
      BY <3>1, <2>2, <1>5
    <3> QED BY <3>1, <3>2, <1>2
  <2>3. CASE i = x
    <3>1. j - 1 \in 1 .. l /\ ~ j - 1 < x /\ ~ j < x /\ j # x /\ ~ i < x
      BY <2>3, <1>2, <1>3, <1>6
    <3>2. r[i] = e /\ r[j] = m[j - 1]
      BY <3>1, <2>3, <1>5
    <3>3. m[j - 1].name > e.name /\ m[j - 1].name \in Nat
      BY <3>1, <1>2, <1>3
    <3> QED BY <3>2, <3>3, <1>1
  <2>4. CASE i < x /\ x < j
    <3>1. i \in 1 .. l /\ j - 1 \in 1 .. l /\ ~ j - 1 < x /\ ~ j < x /\ j # x
      BY <2>4, <1>2, <1>3, <1>6
    <3>2. r[i] = m[i] /\ r[j] = m[j - 1]
      BY <3>1, <2>4, <1>5
    <3>3. m[i].name < e.name /\ m[j - 1].name > e.name
      BY <3>1, <2>4, <1>2
    <3>4. m[i].name \in Nat /\ m[j - 1].name \in Nat
      BY <3>1, <1>3
    <3> QED BY <3>2, <3>3, <3>4, <1>1
  <2>5. CASE x < i
    <3>1. /\ i - 1 \in 1 .. l /\ j - 1 \in 1 .. l /\ i - 1 < j - 1
          /\ ~ i < x /\ i # x /\ ~ j < x /\ j # x
      BY <2>5, <1>2, <1>3, <1>6
    <3> QED BY <3>1, <1>3, <1>5
  <2>6. i \in Nat /\ j \in Nat /\ x \in Nat
    BY <1>2, <1>3
  <2> QED BY <2>1, <2>2, <2>3, <2>4, <2>5, <2>6, <1>6
<1>7. Ordered(r)
  BY <1>5, <1>6 DEF Ordered, Tables, InOrder
<1>8. \A f : f \in Entries(r) <=> \E k \in 1 .. l + 1 : r[k] = f
  BY <1>5, <1>7, EntriesAre
<1>9. ASSUME NEW f \in Entries(r) PROVE f \in Entries(m) \cup {e}
  <2>1. PICK k \in 1 .. l + 1 : r[k] = f
    BY <1>8
  <2>2. (k < x => k \in 1 .. l) /\ (~ k < x /\ k # x => k - 1 \in 1 .. l)
    BY <1>2, <1>3
  <2> QED BY <2>1, <2>2, <1>3, <1>5
<1>10. e \in Entries(r)
  <2>1. x \in 1 .. l + 1 /\ ~ x < x
    BY <1>2, <1>3
  <2>2. r[x] = e
    BY <2>1, <1>5
  <2> QED BY <2>1, <2>2, <1>8
<1>11. ASSUME NEW f \in Entries(m) PROVE f \in Entries(r)
  <2>1. PICK k \in 1 .. l : m[k] = f
    BY <1>3
  <2>2. CASE k < x
    <3>1. k \in 1 .. l + 1 /\ r[k] = f
      BY <2>1, <2>2, <1>3, <1>5
    <3> QED BY <3>1, <1>8
  <2>3. CASE ~ k < x
    <3>1. k + 1 \in 1 .. l + 1 /\ ~ k + 1 < x /\ k + 1 # x /\ (k + 1) - 1 = k
      BY <2>3, <1>2, <1>3
    <3>2. r[k + 1] = f
      BY <3>1, <2>1, <1>5
    <3> QED BY <3>1, <3>2, <1>8
  <2> QED BY <2>2, <2>3
<1>12. Entries(r) = Entries(m) \cup {e}
  BY <1>9, <1>10, <1>11
<1> QED BY <1>7, <1>12 DEF r

LEMMA DelIs ==
  ASSUME NEW m, Ordered(m), NEW i \in 1 .. Len(m)
  PROVE  Ordered(map_del(m, i)) /\ Entries(map_del(m, i)) = Entries(m) \ {m[i]}
<1> DEFINE r == map_del(m, i)
<1>1. r = RemoveAt(m, i)
  BY DEF map_del
<1>2. /\ Len(m) \in Nat /\ m \in Seq(Entry(Owners)) /\ Entries(m) = ToSet(m)
      /\ \A k, j \in 1 .. Len(m) : k < j => m[k].name < m[j].name
      /\ IsInjective(m)
  BY EntriesAre, PlacesApart
<1> HIDE DEF r
<1>3. /\ r \in Seq(Entry(Owners)) /\ Len(r) = Len(m) - 1
      /\ \A k \in 1 .. Len(r) : r[k] = IF k < i THEN m[k] ELSE m[k + 1]
      /\ ToSet(r) = ToSet(m) \ {m[i]}
  BY <1>1, <1>2, RemoveAtIs
<1>4. ASSUME NEW k \in 1 .. Len(r), NEW j \in 1 .. Len(r), k < j
      PROVE  r[k].name < r[j].name
  <2> DEFINE f == IF k < i THEN k ELSE k + 1
             g == IF j < i THEN j ELSE j + 1
  <2>1. f \in 1 .. Len(m) /\ g \in 1 .. Len(m) /\ f < g
    BY <1>2, <1>3, <1>4
  <2>2. r[k] = m[f] /\ r[j] = m[g]
    BY <1>3
  <2> HIDE DEF f, g
  <2> QED BY <2>1, <2>2, <1>2
<1>5. Ordered(r)
  BY <1>3, <1>4 DEF Ordered, Tables, InOrder
<1>6. Entries(r) = ToSet(r)
  BY <1>5, EntriesAre
<1> QED BY <1>2, <1>3, <1>5, <1>6 DEF r

LEMMA WithoutPortIs ==
  ASSUME NEW m, Ordered(m), NEW p
  PROVE  /\ Ordered(WithoutPort(m, p))
         /\ Entries(WithoutPort(m, p)) = {e \in Entries(m) : e.port # p}
<1> DEFINE S == {e \in ToSet(m) : e.port # p}
           r == Only(m, S)
           R == {x \in Entries(m) \X Entries(m) : x[1].name < x[2].name}
<1>1. WithoutPort(m, p) = r
  BY DEF WithoutPort
<1>2. /\ m \in Seq(Entry(Owners)) /\ Entries(m) = ToSet(m)
      /\ \A i \in 1 .. Len(m) : m[i] \in Entries(m)
      /\ \A i, j \in 1 .. Len(m) : i < j => m[i].name < m[j].name
  BY EntriesAre
<1>3. \A i, j \in 1 .. Len(m) : i < j => <<m[i], m[j]>> \in R
  BY <1>2
<1>4. \A e, f : <<e, f>> \in R => e.name < f.name
  OBVIOUS
<1>5. S = {e \in Entries(m) : e.port # p} /\ S \subseteq ToSet(m)
  BY <1>2
<1> HIDE DEF R, S
<1>6. r \in Seq(Entry(Owners)) /\ ToSet(r) = ToSet(m) \cap S
  BY <1>2, OnlyKeeps
<1>7. \A i, j \in 1 .. Len(r) : i < j => <<r[i], r[j]>> \in R
  BY <1>2, <1>3, OnlyKeepsOrder
<1> HIDE DEF r
<1>8. Ordered(r)
  BY <1>4, <1>6, <1>7 DEF Ordered, Tables, InOrder
<1>9. Entries(r) = ToSet(r)
  BY <1>8, EntriesAre
<1> QED BY <1>1, <1>5, <1>6, <1>8, <1>9

(* A table whose entries are changed one by one, but not their names.       *)
LEMMA RelabelIs ==
  ASSUME NEW m, Ordered(m), NEW r \in Seq(Entry(Owners)), Len(r) = Len(m),
         \A i \in 1 .. Len(m) : r[i].name = m[i].name
  PROVE  Ordered(r) /\ \A e : e \in Entries(r) <=> \E i \in 1 .. Len(m) : r[i] = e
<1>1. \A i, j \in 1 .. Len(m) : i < j => m[i].name < m[j].name
  BY EntriesAre
<1>2. Ordered(r)
  BY <1>1 DEF Ordered, Tables, InOrder
<1> QED BY <1>2, EntriesAre

LEMMA ReplaceIs ==
  ASSUME NEW m, Ordered(m), NEW i \in 1 .. Len(m), NEW e \in Entry(Owners),
         e.name = m[i].name
  PROVE  /\ Ordered(ReplaceAt(m, i, e))
         /\ Entries(ReplaceAt(m, i, e)) = {x \in Entries(m) : x.name # e.name} \cup {e}
<1> DEFINE r == ReplaceAt(m, i, e)
<1>1. /\ m \in Seq(Entry(Owners)) /\ DOMAIN m = 1 .. Len(m) /\ Len(m) \in Nat
      /\ \A f : f \in Entries(m) <=> \E k \in 1 .. Len(m) : m[k] = f
      /\ \A k \in 1 .. Len(m) : m[k] \in Entries(m)
  BY EntriesAre
<1>2. /\ r \in Seq(Entry(Owners)) /\ Len(r) = Len(m)
      /\ \A k \in 1 .. Len(m) : r[k] = IF k = i THEN e ELSE m[k]
  BY <1>1 DEF ReplaceAt
<1> HIDE DEF r
<1>3. \A k \in 1 .. Len(m) : r[k].name = m[k].name
  BY <1>2
<1>4. Ordered(r) /\ \A f : f \in Entries(r) <=> \E k \in 1 .. Len(m) : r[k] = f
  <2>1. r \in Seq(Entry(Owners)) /\ Len(r) = Len(m)
    BY <1>2
  <2> QED BY ONLY <2>1, <1>3, RelabelIs, Ordered(m)
<1>5. \A k \in 1 .. Len(m) : k # i => m[k].name # e.name
  <2>1. \A k \in 1 .. Len(m) : m[k].name = m[i].name => ~ k < i /\ ~ i < k
    BY EntriesAre
  <2> QED BY <2>1, <1>1
<1>6. ASSUME NEW f PROVE f \in Entries(r) <=> f = e \/ (f \in Entries(m) /\ f.name # e.name)
  <2>1. ASSUME f \in Entries(r) PROVE f = e \/ (f \in Entries(m) /\ f.name # e.name)
    <3>1. PICK k \in 1 .. Len(m) : r[k] = f
      BY <2>1, <1>4
    <3> QED BY <3>1, <1>1, <1>2, <1>5
  <2>2. e \in Entries(r)
    BY <1>2, <1>4
  <2>3. ASSUME f \in Entries(m), f.name # e.name PROVE f \in Entries(r)
    <3>1. PICK k \in 1 .. Len(m) : m[k] = f
      BY <2>3, <1>1
    <3>2. k # i
      BY <3>1, <2>3
    <3> QED BY <3>1, <3>2, <1>2, <1>4
  <2> QED BY <2>1, <2>2, <2>3
<1>7. Entries(r) = {x \in Entries(m) : x.name # e.name} \cup {e}
  BY <1>6
<1> QED BY <1>4, <1>7 DEF r

--------------------------------------------------------------------------
(* What a request does to a table in order.                                 *)
Answers == Ports \cup {NoPort}

(* A registration is refused, or leaves one entry of the name: with the port*)
(* and on behalf of who asked, or of who had asked for the same before.     *)
LEMMA RegisterIs ==
  ASSUME NEW m, Ordered(m), NEW n \in Names, NEW p \in Ports, NEW by \in Owners, NEW used,
         NEW r, r = Register(m, n, p, by, used)
  PROVE  /\ Ordered(r.map) /\ r.answer \in {p, NoPort}
         /\ r.answer = NoPort => r.map = m
         /\ r.answer = p => \E e \in Entry(Owners) :
              /\ e.name = n /\ e.port = p
              /\ \/ e.by = by
                 \/ /\ by = "late"
                    /\ \E f \in Entries(m) : f.name = n /\ f.port = p /\ e.by = f.by
              /\ by = "late" => \A f \in Entries(m) :
                                 f.name = n /\ f.port = p => e.by = f.by
              /\ Entries(r.map) = {x \in Entries(m) : x.name # n} \cup {e}
              /\ \A f \in Entries(m) : f.name = n => f.port = p \/ f.port \notin used
<1> DEFINE at == map_by_name(m, n)
           entry == [name |-> n, port |-> p, by |-> by]
           again == [m[at] EXCEPT !.by = IF by = "late" THEN m[at].by ELSE by]
<1>1. /\ at = 0 => \A e \in Entries(m) : e.name # n
      /\ at # 0 => at \in 1 .. Len(m) /\ m[at] \in Entries(m) /\ m[at].name = n
  BY FoundIs
<1>2. entry \in Entry(Owners) /\ entry.name = n /\ entry.port = p /\ entry.by = by
  BY DEF Entry
<1>3. p # NoPort
  BY NoPortAssumption
<1>4. at # 0 => \A f \in Entries(m) : f.name = n => f = m[at]
  BY <1>1, OneOfName
<1>5. Entries(m) \subseteq Entry(Owners)
  BY EntriesAre
<1>6. r = IF at = 0 THEN Result(map_add(m, entry), p)
          ELSE IF m[at].port = p
          THEN Result([m EXCEPT ![at].by = IF by = "late" THEN m[at].by ELSE by], p)
          ELSE IF m[at].port \in used THEN Result(m, NoPort)
          ELSE Result([m EXCEPT ![at] = entry], p)
  BY DEF Register
<1>7. \A a, b : Result(a, b).map = a /\ Result(a, b).answer = b
  BY DEF Result
<1> HIDE DEF at, entry, again
<1>8. CASE at = 0
  <2>1. r.map = map_add(m, entry) /\ r.answer = p
    BY <1>6, <1>7, <1>8
  <2>2. \A x \in Entries(m) : x.name # entry.name
    BY <1>1, <1>2, <1>8
  <2>3. Ordered(r.map) /\ Entries(r.map) = Entries(m) \cup {entry}
    BY <2>1, <2>2, <1>2, AddIs
  <2>4. Entries(r.map) = {x \in Entries(m) : x.name # n} \cup {entry}
    BY <2>2, <2>3, <1>2
  <2> QED BY <2>1, <2>2, <2>3, <2>4, <1>2, <1>3
<1>9. CASE at # 0 /\ m[at].port = p
  <2>1. r.map = [m EXCEPT ![at].by = IF by = "late" THEN m[at].by ELSE by] /\ r.answer = p
    BY <1>6, <1>7, <1>9
  <2>2. r.map = ReplaceAt(m, at, again)
    BY <2>1 DEF again, ReplaceAt
  <2>3. m[at] \in Entry(Owners)
    BY <1>1, <1>5, <1>9
  <2>4. /\ again \in Entry(Owners) /\ again.name = m[at].name /\ again.port = p
        /\ again.by = IF by = "late" THEN m[at].by ELSE by
    BY <2>3, <1>9 DEF again, Entry
  <2>5. at \in 1 .. Len(m) /\ m[at] \in Entries(m) /\ m[at].name = n
    BY <1>1, <1>9
  <2>6. Ordered(r.map) /\ Entries(r.map) = {x \in Entries(m) : x.name # again.name} \cup {again}
    BY ONLY <2>2, <2>4, <2>5, ReplaceIs, Ordered(m)
  <2>7. \A f \in Entries(m) : f.name = n => f.port = p /\ f = m[at]
    BY <1>4, <1>9
  <2> QED BY <2>1, <2>4, <2>5, <2>6, <2>7, <1>3, <1>9
<1>10. CASE at # 0 /\ m[at].port # p /\ m[at].port \in used
  BY <1>3, <1>6, <1>7, <1>10
<1>11. CASE at # 0 /\ m[at].port # p /\ m[at].port \notin used
  <2>1. r.map = ReplaceAt(m, at, entry) /\ r.answer = p
    BY <1>6, <1>7, <1>11 DEF ReplaceAt
  <2>2. at \in 1 .. Len(m) /\ entry.name = m[at].name
    BY <1>1, <1>2, <1>11
  <2>3. Ordered(r.map) /\ Entries(r.map) = {x \in Entries(m) : x.name # entry.name} \cup {entry}
    <3>1. entry \in Entry(Owners)
      BY <1>2
    <3> DEFINE w == ReplaceAt(m, at, entry)
    <3>2. Ordered(w) /\ Entries(w) = {x \in Entries(m) : x.name # entry.name} \cup {entry}
      BY ONLY <2>2, <3>1, ReplaceIs, Ordered(m)
    <3> QED BY <2>1, <3>2
  <2>4. \A f \in Entries(m) : f.name = n => f.port \notin used /\ f.port # p
    BY <1>4, <1>11
  <2> QED BY <2>1, <2>3, <2>4, <1>2, <1>3
<1> QED BY <1>8, <1>9, <1>10, <1>11

(* A lookup removes at most an entry whose port nobody listens on.          *)
LEMMA LookupIs ==
  ASSUME NEW m, Ordered(m), NEW n \in Names, NEW used, NEW r, r = Lookup(m, n, used)
  PROVE  /\ Ordered(r.map) /\ r.answer \in Answers
         /\ Entries(r.map) \subseteq Entries(m)
         /\ \A e \in Entries(m) : e.port \in used => e \in Entries(r.map)
<1> DEFINE at == map_by_name(m, n)
<1>1. at # 0 => at \in 1 .. Len(m) /\ m[at] \in Entries(m) /\ m[at].name = n
  BY FoundIs
<1>2. \A e \in Entries(m) : e.port \in Ports
  BY EntriesAre DEF Entry
<1>3. r = IF at = 0 THEN Result(m, NoPort)
          ELSE IF m[at].port \in used THEN Result(m, m[at].port)
          ELSE Result(map_del(m, at), NoPort)
  BY DEF Lookup
<1>4. \A a, b : Result(a, b).map = a /\ Result(a, b).answer = b
  BY DEF Result
<1> HIDE DEF at
<1>5. CASE at = 0
  BY <1>3, <1>4, <1>5 DEF Answers
<1>6. CASE at # 0 /\ m[at].port \in used
  BY <1>1, <1>2, <1>3, <1>4, <1>6 DEF Answers
<1>7. CASE at # 0 /\ m[at].port \notin used
  <2>1. r.map = map_del(m, at) /\ r.answer = NoPort
    BY <1>3, <1>4, <1>7
  <2>2. Ordered(r.map) /\ Entries(r.map) = Entries(m) \ {m[at]}
    BY <2>1, <1>1, <1>7, DelIs
  <2> QED BY <2>1, <2>2, <1>7 DEF Answers
<1> QED BY <1>5, <1>6, <1>7

LEMMA UnregisterNameIs ==
  ASSUME NEW m, Ordered(m), NEW n \in Names, NEW r, r = UnregisterName(m, n)
  PROVE  /\ Ordered(r.map) /\ r.answer \in Answers
         /\ Entries(r.map) = {e \in Entries(m) : e.name # n}
<1> DEFINE at == map_by_name(m, n)
<1>1. /\ at = 0 => \A e \in Entries(m) : e.name # n
      /\ at # 0 => at \in 1 .. Len(m) /\ m[at] \in Entries(m) /\ m[at].name = n
  BY FoundIs
<1>2. \A e \in Entries(m) : e.port \in Ports
  BY EntriesAre DEF Entry
<1>3. at # 0 => \A f \in Entries(m) : f.name = n => f = m[at]
  BY <1>1, OneOfName
<1>4. r = IF at = 0 THEN Result(m, NoPort) ELSE Result(map_del(m, at), m[at].port)
  BY DEF UnregisterName
<1>5. \A a, b : Result(a, b).map = a /\ Result(a, b).answer = b
  BY DEF Result
<1> HIDE DEF at
<1>6. CASE at = 0
  BY <1>1, <1>4, <1>5, <1>6 DEF Answers
<1>7. CASE at # 0
  <2>1. r.map = map_del(m, at) /\ r.answer = m[at].port
    BY <1>4, <1>5, <1>7
  <2>2. Ordered(r.map) /\ Entries(r.map) = Entries(m) \ {m[at]}
    BY <2>1, <1>1, <1>7, DelIs
  <2>3. Entries(r.map) = {e \in Entries(m) : e.name # n}
    BY <2>2, <1>1, <1>3, <1>7
  <2> QED BY <2>1, <2>2, <2>3, <1>1, <1>2, <1>7 DEF Answers
<1> QED BY <1>6, <1>7

LEMMA UnregisterPortIs ==
  ASSUME NEW m, Ordered(m), NEW p \in Answers, NEW r, r = UnregisterPort(m, p)
  PROVE  /\ Ordered(r.map) /\ r.answer \in Answers
         /\ Entries(r.map) = {e \in Entries(m) : e.port # p}
<1>1. /\ r.map = WithoutPort(m, p)
      /\ r.answer = IF \E i \in 1 .. Len(m) : m[i].port = p THEN p ELSE NoPort
  BY DEF UnregisterPort, Result
<1> QED BY <1>1, WithoutPortIs DEF Answers

--------------------------------------------------------------------------
(* The calls a process may be in, by what is left of them.                  *)
AnyName == Names \cup {NoName}
Plain == {<<>>} \cup {<<Step("lookup", n)>> : n \in Names}
Registering ==
  {<<Step("clean", NoName), Step("register", n)>> : n \in Names}
  \cup {<<Step("register", n)>> : n \in Names}
  \cup {<<Step("forget", n), Step("name", x)>> : n \in AnyName, x \in AnyName}
  \cup {<<Step("name", n)>> : n \in AnyName}
Removing ==
  {<<Step("removeAll", NoName)>>}
  \cup {<<Step("forget", n), Step("removeAll", NoName)>> : n \in AnyName}
Todos == Plain \cup Registering \cup Removing

OnStep(t, do) == t # <<>> /\ Head(t).do = do
AsksBy(t, k) ==
  \/ OnStep(t, "clean") \/ OnStep(t, "register") \/ OnStep(t, "lookup")
  \/ (OnStep(t, "forget") /\ Head(t).name \in k)

(* The name of a registration that gdomap has made, or of a removal it has  *)
(* done, whose answer the process is still to read.                         *)
GivenBy(t, a) == IF OnStep(t, "register") /\ a \in Ports THEN {Head(t).name} ELSE {}
ForgottenBy(t, a) ==
  IF OnStep(t, "forget") /\ a \notin {None, Lost} THEN {Head(t).name} ELSE {}

(* Names of an earlier process at the port have been removed.               *)
CleanBy(t, a, k) ==
  \/ k # {} \/ OnStep(t, "register")
  \/ (OnStep(t, "clean") /\ a \notin {None, Lost})

(* What is true of one process with todo t, answer a, listening l, number u,*)
(* known k, lost o, and a table with the entries E.                         *)
CallFits(t, a, l, u, k) ==
  /\ t \in Todos
  /\ l = IF t \in Removing THEN NoPort ELSE u
  /\ u = NoPort => t \in Plain /\ k = {}
  /\ OnStep(t, "clean") => k = {}
  /\ a # None => AsksBy(t, k)
HeldBy(p, t, a, l, k, o, E) ==
  l # NoPort => \A n \in (k \ ForgottenBy(t, a)) \cup GivenBy(t, a) :
                  <<p, n>> \in o \/ [name |-> n, port |-> l, by |-> p] \in E
FreshFor(p, t, a, l, k, E) ==
  CleanBy(t, a, k) => \A e \in E : e.port = l => e.by \in {p, "late"}
OwnedBy(p, t, a, k, E) ==
  \A e \in E : e.by = p => e.name \in (k \cup GivenBy(t, a)) \ ForgottenBy(t, a)

ProcessFits(p, t, a, l, u, k, o, E) ==
  /\ CallFits(t, a, l, u, k) /\ HeldBy(p, t, a, l, k, o, E)
  /\ FreshFor(p, t, a, l, k, E) /\ OwnedBy(p, t, a, k, E)

ProcessesFit == \A p \in Processes :
  ProcessFits(p, todo[p], answer[p], listening[p], number[p], known[p], lost, Entries(map))
PortsApart == \A p, q \in Processes :
  listening[p] = listening[q] /\ listening[p] # NoPort => p = q
OrphansFit == \A r \in orphans :
  /\ r.op # "unregisterPort" => r.name \in Names
  /\ r.op = "register" => r.port \in Ports

(* The inductive invariant.                                                 *)
PInv == TypeOK /\ InOrder(map) /\ PortsApart /\ OrphansFit /\ ProcessesFit

(* What is left of a call, by its next step.                                *)
LEMMA ShapeIs ==
  ASSUME NEW t \in Todos
  PROVE  /\ t \in Seq(Steps)
         /\ t = <<>> => t \in Plain /\ t \notin Removing
         /\ t # <<>> => Head(t).name \in AnyName
         /\ OnStep(t, "lookup") =>
              /\ Tail(t) = <<>> /\ Head(t).name \in Names
              /\ t \in Plain /\ t \notin Removing
         /\ OnStep(t, "clean") =>
              /\ \E n \in Names : Tail(t) = <<Step("register", n)>>
              /\ t \notin Plain /\ t \notin Removing
         /\ OnStep(t, "register") =>
              /\ Tail(t) = <<>> /\ Head(t).name \in Names
              /\ t \notin Plain /\ t \notin Removing
         /\ OnStep(t, "name") => Tail(t) = <<>> /\ t \notin Plain /\ t \notin Removing
         /\ OnStep(t, "forget") =>
              /\ t \notin Plain
              /\ \/ /\ Tail(t) = <<Step("removeAll", NoName)>> /\ t \in Removing
                 \/ /\ \E x \in AnyName : Tail(t) = <<Step("name", x)>>
                    /\ t \notin Removing
         /\ OnStep(t, "removeAll") =>
              Tail(t) = <<>> /\ t = <<Step("removeAll", NoName)>> /\ t \in Removing /\ t \notin Plain
         /\ t # <<>> => \/ OnStep(t, "lookup") \/ OnStep(t, "clean")
                        \/ OnStep(t, "register") \/ OnStep(t, "name")
                        \/ OnStep(t, "forget") \/ OnStep(t, "removeAll")
<1>1. \A d, n : Step(d, n).do = d /\ Step(d, n).name = n
  BY DEF Step
<1>2. \A d \in {"clean", "register", "forget", "name", "removeAll", "lookup"}, n \in AnyName :
        Step(d, n) \in Steps
  BY DEF Step, Steps, AnyName
<1>3. \A x : Head(<<x>>) = x /\ Tail(<<x>>) = <<>> /\ <<x>> # <<>>
  OBVIOUS
<1>4. \A x, y : Head(<<x, y>>) = x /\ Tail(<<x, y>>) = <<y>> /\ <<x, y>> # <<>>
  OBVIOUS
<1>5. \A x, y, z : <<x>> # <<y, z>>
  OBVIOUS
<1>6. \A x \in Steps, y \in Steps : <<>> \in Seq(Steps) /\ <<x>> \in Seq(Steps)
                                    /\ <<x, y>> \in Seq(Steps)
  OBVIOUS
<1> HIDE DEF AnyName
<1>7. Names \subseteq AnyName /\ NoName \in AnyName
  BY DEF AnyName
<1>8. \A d \in Plain : d = <<>> \/ \E n \in Names : d = <<Step("lookup", n)>>
  BY DEF Plain
<1>9. \A d \in Registering :
        \/ \E n \in Names : d = <<Step("clean", NoName), Step("register", n)>>
        \/ \E n \in Names : d = <<Step("register", n)>>
        \/ \E n \in AnyName, x \in AnyName : d = <<Step("forget", n), Step("name", x)>>
        \/ \E n \in AnyName : d = <<Step("name", n)>>
  BY DEF Registering
<1>10. \A d \in Removing :
         \/ d = <<Step("removeAll", NoName)>>
         \/ \E n \in AnyName : d = <<Step("forget", n), Step("removeAll", NoName)>>
  BY DEF Removing
<1>11. CASE t \in Plain
  <2>1. CASE t = <<>>
    <3>1. t \notin Removing
      BY <2>1, <1>3, <1>4, <1>10
    <3> QED BY <2>1, <3>1, <1>11, <1>6, <1>2, <1>7 DEF OnStep
  <2>2. CASE \E n \in Names : t = <<Step("lookup", n)>>
    <3>1. PICK n \in Names : t = <<Step("lookup", n)>>
      BY <2>2
    <3>2. Head(t).do = "lookup" /\ Head(t).name = n /\ Tail(t) = <<>> /\ t # <<>>
      BY <3>1, <1>1, <1>3
    <3>3. t \notin Removing
      BY <3>2, <1>10, <1>1, <1>3, <1>4
    <3>4. t \in Seq(Steps)
      BY <3>1, <1>2, <1>6, <1>7
    <3> QED BY <3>2, <3>3, <3>4, <1>7, <1>11 DEF OnStep
  <2> QED BY <2>1, <2>2, <1>8, <1>11
<1>12. ASSUME t # <<>>, Head(t).do # "lookup" PROVE t \notin Plain
  BY <1>12, <1>8, <1>1, <1>3
<1>13. CASE t \in Registering
  <2>1. CASE \E n \in Names : t = <<Step("clean", NoName), Step("register", n)>>
    <3>1. PICK n \in Names : t = <<Step("clean", NoName), Step("register", n)>>
      BY <2>1
    <3>2. Head(t).do = "clean" /\ Tail(t) = <<Step("register", n)>> /\ t # <<>>
          /\ Head(t).name \in AnyName
      BY <3>1, <1>1, <1>4, <1>7
    <3>3. t \notin Removing
      BY <3>2, <1>10, <1>1, <1>3, <1>4
    <3>4. t \in Seq(Steps)
      BY <3>1, <1>2, <1>6, <1>7
    <3> QED BY <3>2, <3>3, <3>4, <1>12 DEF OnStep
  <2>2. CASE \E n \in Names : t = <<Step("register", n)>>
    <3>1. PICK n \in Names : t = <<Step("register", n)>>
      BY <2>2
    <3>2. Head(t).do = "register" /\ Tail(t) = <<>> /\ t # <<>> /\ Head(t).name = n
      BY <3>1, <1>1, <1>3
    <3>3. t \notin Removing
      BY <3>2, <1>10, <1>1, <1>3, <1>4
    <3>4. t \in Seq(Steps)
      BY <3>1, <1>2, <1>6, <1>7
    <3> QED BY <3>2, <3>3, <3>4, <1>12, <1>7 DEF OnStep
  <2>3. CASE \E n \in AnyName, x \in AnyName : t = <<Step("forget", n), Step("name", x)>>
    <3>1. PICK n \in AnyName, x \in AnyName : t = <<Step("forget", n), Step("name", x)>>
      BY <2>3
    <3>2. Head(t).do = "forget" /\ Tail(t) = <<Step("name", x)>> /\ t # <<>>
          /\ Head(t).name \in AnyName
      BY <3>1, <1>1, <1>4
    <3>3. t \notin Removing
      <4>1. Step("name", x) # Step("removeAll", NoName)
        BY <1>1
      <4>2. <<Step("name", x)>> # <<Step("removeAll", NoName)>>
        BY <4>1, <1>3
      <4>3. ASSUME NEW y, t = <<Step("forget", y), Step("removeAll", NoName)>> PROVE FALSE
        BY <4>3, <4>2, <3>2, <1>4
      <4>4. t # <<Step("removeAll", NoName)>>
        BY <3>2, <1>1, <1>3
      <4> QED BY <4>3, <4>4, <1>10
    <3>4. t \in Seq(Steps)
      BY <3>1, <1>2, <1>6
    <3> QED BY <3>2, <3>3, <3>4, <1>12 DEF OnStep
  <2>4. CASE \E n \in AnyName : t = <<Step("name", n)>>
    <3>1. PICK n \in AnyName : t = <<Step("name", n)>>
      BY <2>4
    <3>2. Head(t).do = "name" /\ Tail(t) = <<>> /\ t # <<>> /\ Head(t).name = n
      BY <3>1, <1>1, <1>3
    <3>3. t \notin Removing
      BY <3>2, <1>10, <1>1, <1>3, <1>4
    <3>4. t \in Seq(Steps)
      BY <3>1, <1>2, <1>6
    <3> QED BY <3>2, <3>3, <3>4, <1>12 DEF OnStep
  <2> QED BY <2>1, <2>2, <2>3, <2>4, <1>9, <1>13
<1>14. CASE t \in Removing
  <2>1. CASE t = <<Step("removeAll", NoName)>>
    <3>1. Head(t).do = "removeAll" /\ Tail(t) = <<>> /\ t # <<>> /\ Head(t).name = NoName
      BY <2>1, <1>1, <1>3
    <3>2. t \in Seq(Steps)
      BY <2>1, <1>2, <1>6, <1>7
    <3> QED BY <2>1, <3>1, <3>2, <1>7, <1>12, <1>14 DEF OnStep
  <2>2. CASE \E n \in AnyName : t = <<Step("forget", n), Step("removeAll", NoName)>>
    <3>1. PICK n \in AnyName : t = <<Step("forget", n), Step("removeAll", NoName)>>
      BY <2>2
    <3>2. Head(t).do = "forget" /\ Tail(t) = <<Step("removeAll", NoName)>> /\ t # <<>>
          /\ Head(t).name = n
      BY <3>1, <1>1, <1>4
    <3>3. t \in Seq(Steps)
      BY <3>1, <1>2, <1>6, <1>7
    <3> QED BY <3>2, <3>3, <1>12, <1>14 DEF OnStep
  <2> QED BY <2>1, <2>2, <1>10, <1>14
<1> QED BY <1>11, <1>13, <1>14 DEF Todos

LEMMA OneStepIs ==
  ASSUME NEW d, NEW n
  PROVE  /\ <<Step(d, n)>> # <<>> /\ Tail(<<Step(d, n)>>) = <<>>
         /\ Head(<<Step(d, n)>>).name = n
         /\ \A x : OnStep(<<Step(d, n)>>, x) <=> x = d
<1> DEFINE s == Step(d, n)
<1>1. s.do = d /\ s.name = n
  BY DEF Step
<1> HIDE DEF s
<1>2. <<s>> # <<>> /\ Tail(<<s>>) = <<>> /\ Head(<<s>>) = s
  OBVIOUS
<1> QED BY <1>1, <1>2 DEF OnStep, s

LEMMA TwoStepsIs ==
  ASSUME NEW d, NEW n, NEW r
  PROVE  /\ Head(<<Step(d, n), r>>).name = n
         /\ \A x : OnStep(<<Step(d, n), r>>, x) <=> x = d
<1> DEFINE s == Step(d, n)
<1>1. s.do = d /\ s.name = n
  BY DEF Step
<1> HIDE DEF s
<1>2. <<s, r>> # <<>> /\ Head(<<s, r>>) = s
  OBVIOUS
<1> QED BY <1>1, <1>2 DEF OnStep, s

LEMMA NoStepIs ==
  /\ <<>> \in Todos /\ <<>> \in Plain /\ <<>> \notin Removing
  /\ \A x : ~ OnStep(<<>>, x)
<1>1. <<>> \in Plain
  BY DEF Plain
<1>2. <<>> \in Todos
  BY <1>1 DEF Todos
<1> QED BY <1>1, <1>2, ShapeIs DEF OnStep

LEMMA TodosAre ==
  /\ \A n \in Names : <<Step("lookup", n)>> \in Todos
  /\ \A n \in Names : <<Step("register", n)>> \in Todos
  /\ \A n \in Names : <<Step("clean", NoName), Step("register", n)>> \in Todos
  /\ \A n \in AnyName : <<Step("name", n)>> \in Todos
  /\ \A n \in AnyName, x \in AnyName : <<Step("forget", n), Step("name", x)>> \in Todos
  /\ \A n \in AnyName : <<Step("forget", n), Step("removeAll", NoName)>> \in Todos
  /\ \A n \in AnyName : <<Step("forget", n), Step("removeAll", NoName)>> \in Removing
  /\ <<Step("removeAll", NoName)>> \in Todos
  /\ <<Step("removeAll", NoName)>> \in Removing
  /\ \A n \in AnyName, x \in AnyName : <<Step("forget", n), Step("name", x)>> \notin Removing
<1> HIDE DEF AnyName
<1>1. /\ \A n \in Names : <<Step("lookup", n)>> \in Plain
      /\ \A n \in Names : <<Step("register", n)>> \in Registering
      /\ \A n \in Names : <<Step("clean", NoName), Step("register", n)>> \in Registering
      /\ \A n \in AnyName : <<Step("name", n)>> \in Registering
      /\ \A n \in AnyName, x \in AnyName :
           <<Step("forget", n), Step("name", x)>> \in Registering
      /\ \A n \in AnyName : <<Step("forget", n), Step("removeAll", NoName)>> \in Removing
      /\ <<Step("removeAll", NoName)>> \in Removing
  BY DEF Plain, Registering, Removing
<1>2. Plain \subseteq Todos /\ Registering \subseteq Todos /\ Removing \subseteq Todos
  BY DEF Todos
<1>3. ASSUME NEW n \in AnyName, NEW x \in AnyName
      PROVE  <<Step("forget", n), Step("name", x)>> \notin Removing
  <2> DEFINE t == <<Step("forget", n), Step("name", x)>>
             s == <<Step("name", x)>>
  <2>1. t \in Todos /\ Tail(t) = s /\ OnStep(t, "forget")
    BY <1>1, <1>2, TwoStepsIs
  <2>2. OnStep(s, "name") /\ ~ OnStep(s, "removeAll")
    BY OneStepIs
  <2>3. OnStep(<<Step("removeAll", NoName)>>, "removeAll")
    BY OneStepIs
  <2> HIDE DEF t, s
  <2>4. s # <<Step("removeAll", NoName)>>
    BY <2>2, <2>3
  <2>5. CASE Tail(t) = <<Step("removeAll", NoName)>>
    BY <2>5, <2>4, <2>1
  <2>6. CASE t \notin Removing
    BY <2>6 DEF t
  <2> QED BY <2>1, <2>5, <2>6, ShapeIs
<1> QED BY <1>1, <1>2, <1>3

(* With no answer to read, what is true of a process is simpler.            *)
LEMMA QuietIs ==
  ASSUME NEW p, NEW t, NEW l, NEW u, NEW k, NEW o, NEW E
  PROVE  ProcessFits(p, t, None, l, u, k, o, E) <=>
           /\ t \in Todos
           /\ l = IF t \in Removing THEN NoPort ELSE u
           /\ u = NoPort => t \in Plain /\ k = {}
           /\ OnStep(t, "clean") => k = {}
           /\ l # NoPort => \A n \in k :
                <<p, n>> \in o \/ [name |-> n, port |-> l, by |-> p] \in E
           /\ k # {} \/ OnStep(t, "register") =>
                \A e \in E : e.port = l => e.by \in {p, "late"}
           /\ \A e \in E : e.by = p => e.name \in k
<1>1. None \notin Ports
  BY AnswersAssumption
<1>2. GivenBy(t, None) = {} /\ ForgottenBy(t, None) = {}
      /\ (CleanBy(t, None, k) <=> k # {} \/ OnStep(t, "register"))
  BY <1>1 DEF GivenBy, ForgottenBy, CleanBy
<1> QED BY <1>2 DEF ProcessFits, CallFits, HeldBy, FreshFor, OwnedBy

OthersStay(p) == \A q \in Processes : q # p =>
  /\ todo'[q] = todo[q] /\ answer'[q] = answer[q] /\ listening'[q] = listening[q]
  /\ number'[q] = number[q] /\ known'[q] = known[q]

(* A step of one process that asks nothing of gdomap.                       *)
LEMMA OneProcess ==
  ASSUME PInv, NEW p \in Processes, OthersStay(p), TypeOK',
         map' = map, lost' = lost, orphans' = orphans,
         listening'[p] \in {listening[p], NoPort} \/ listening'[p] \notin Used,
         ProcessFits(p, todo'[p], answer'[p], listening'[p], number'[p], known'[p],
                     lost, Entries(map))
  PROVE  PInv'
<1>1. InOrder(map)' /\ OrphansFit'
  BY DEF PInv, OrphansFit, InOrder
<1>2. PortsApart'
  <2>1. \A q \in Processes : q # p => listening'[q] = listening[q]
    BY DEF OthersStay
  <2>2. \A q \in Processes : listening[q] # NoPort => listening[q] \in Used
    BY DEF Used
  <2> QED BY <2>1, <2>2 DEF PInv, PortsApart
<1>3. ProcessesFit'
  <2> SUFFICES ASSUME NEW q \in Processes
               PROVE  ProcessFits(q, todo'[q], answer'[q], listening'[q], number'[q],
                                  known'[q], lost', Entries(map'))
    BY DEF ProcessesFit
  <2>1. CASE q = p
    BY <2>1
  <2>2. CASE q # p
    BY <2>2 DEF PInv, ProcessesFit, OthersStay
  <2> QED BY <2>1, <2>2
<1> QED BY <1>1, <1>2, <1>3 DEF PInv

LEMMA FitsIs ==
  ASSUME PInv, NEW p \in Processes
  PROVE  /\ ProcessFits(p, todo[p], answer[p], listening[p], number[p], known[p],
                        lost, Entries(map))
         /\ CallFits(todo[p], answer[p], listening[p], number[p], known[p])
         /\ todo[p] \in Todos
         /\ listening[p] = IF todo[p] \in Removing THEN NoPort ELSE number[p]
         /\ number[p] = NoPort => todo[p] \in Plain /\ known[p] = {}
         /\ Ordered(map) /\ known[p] \subseteq Names /\ registered[p] \in AnyName
         /\ listening[p] \in Answers /\ number[p] \in Answers
         /\ ~ AsksBy(todo[p], known[p]) => answer[p] = None
         /\ \A do : At(p, do) <=> OnStep(todo[p], do)
         /\ Asks(p) <=> AsksBy(todo[p], known[p])
<1>1. ProcessFits(p, todo[p], answer[p], listening[p], number[p], known[p], lost, Entries(map))
  BY DEF PInv, ProcessesFit
<1>2. CallFits(todo[p], answer[p], listening[p], number[p], known[p])
  BY <1>1 DEF ProcessFits
<1>3. Ordered(map) /\ known[p] \subseteq Names /\ registered[p] \in AnyName
      /\ listening[p] \in Answers /\ number[p] \in Answers
  BY DEF PInv, TypeOK, Ordered, Tables, AnyName, Answers, NoPortOr
<1>4. \A do : At(p, do) <=> OnStep(todo[p], do)
  BY DEF At, Idle, OnStep
<1>5. Asks(p) <=> AsksBy(todo[p], known[p])
  BY <1>4 DEF Asks, AsksBy
<1> QED BY <1>1, <1>2, <1>3, <1>4, <1>5 DEF CallFits

(* A step in which only what is left of the call changes, or the port       *)
(* listens no more, and no answer is waiting.                               *)
LEMMA QuietStep ==
  ASSUME PInv, NEW p \in Processes, OthersStay(p), TypeOK', answer[p] = None,
         map' = map, lost' = lost, orphans' = orphans, answer'[p] = None,
         known'[p] = known[p], listening'[p] \in {listening[p], NoPort},
         todo'[p] \in Todos,
         listening'[p] = IF todo'[p] \in Removing THEN NoPort ELSE number'[p],
         number'[p] = NoPort => todo'[p] \in Plain /\ known[p] = {},
         OnStep(todo'[p], "clean") => known[p] = {},
         OnStep(todo'[p], "register") => known[p] # {}
  PROVE  PInv'
<1>1. ProcessFits(p, todo[p], None, listening[p], number[p], known[p], lost, Entries(map))
  BY FitsIs
<1>2. /\ listening[p] # NoPort => \A n \in known[p] :
           <<p, n>> \in lost \/ [name |-> n, port |-> listening[p], by |-> p] \in Entries(map)
      /\ known[p] # {} => \A e \in Entries(map) : e.port = listening[p] => e.by \in {p, "late"}
      /\ \A e \in Entries(map) : e.by = p => e.name \in known[p]
  BY <1>1, QuietIs
<1>3. \A e \in Entries(map) : e.port # NoPort
  <2>1. \A e \in Entries(map) : e.port \in Ports
    BY FitsIs, EntriesAre DEF Entry
  <2> QED BY <2>1, NoPortAssumption
<1>4. ProcessFits(p, todo'[p], None, listening'[p], number'[p], known[p], lost, Entries(map))
  BY <1>2, <1>3, QuietIs
<1> QED BY <1>4, OneProcess

--------------------------------------------------------------------------
(* The steps of the processes.                                              *)
LEMMA NoneAnswers == None \notin Answers /\ Lost \notin Answers /\ None # Lost
BY AnswersAssumption DEF Answers

LEMMA TypesAre ==
  ASSUME PInv
  PROVE  /\ map \in Tables /\ InOrder(map)
         /\ listening \in [Processes -> Answers] /\ number \in [Processes -> Answers]
         /\ known \in [Processes -> SUBSET Names]
         /\ registered \in [Processes -> AnyName]
         /\ todo \in [Processes -> Seq(Steps)]
         /\ answer \in [Processes -> Answers \cup {None, Lost}]
         /\ orphans \subseteq Requests /\ lost \subseteq Processes \X Names
         /\ faults \in 0 .. MaxFaults
BY DEF PInv, TypeOK, Tables, Answers, AnyName, NoPortOr

LEMMA TypeOKIs ==
  ASSUME map' \in Tables,
         listening' \in [Processes -> Answers], number' \in [Processes -> Answers],
         known' \in [Processes -> SUBSET Names],
         registered' \in [Processes -> AnyName],
         todo' \in [Processes -> Seq(Steps)],
         answer' \in [Processes -> Answers \cup {None, Lost}],
         orphans' \subseteq Requests, lost' \subseteq Processes \X Names,
         faults' \in 0 .. MaxFaults
  PROVE  TypeOK'
BY DEF TypeOK, Tables, Answers, AnyName, NoPortOr

LEMMA IdleIs ==
  ASSUME PInv, NEW p \in Processes, Idle(p)
  PROVE  /\ todo[p] = <<>> /\ answer[p] = None /\ listening[p] = number[p]
<1>1. todo[p] = <<>>
  BY DEF Idle
<1>2. ~ AsksBy(todo[p], known[p])
  BY <1>1, NoStepIs DEF AsksBy
<1> QED BY <1>1, <1>2, FitsIs, NoStepIs

LEMMA OpenKeeps ==
  ASSUME PInv, NEW p \in Processes, Open(p)
  PROVE  PInv'
<1>1. PICK n \in Ports :
        /\ n \notin Used
        /\ listening' = [listening EXCEPT ![p] = n]
        /\ number' = [number EXCEPT ![p] = n]
  BY DEF Open
<1>2. /\ Idle(p) /\ number[p] = NoPort
      /\ UNCHANGED <<map, known, registered, todo, answer, orphans, lost, faults>>
  BY DEF Open, Has
<1>3. n \in Answers /\ n # NoPort
  BY NoPortAssumption DEF Answers
<1>4. listening' \in [Processes -> Answers] /\ number' \in [Processes -> Answers]
  BY <1>1, <1>3, TypesAre
<1>5. TypeOK'
  BY <1>2, <1>4, TypesAre, TypeOKIs
<1>6. /\ OthersStay(p)
      /\ listening'[p] = n /\ number'[p] = n /\ todo'[p] = todo[p] /\ known'[p] = known[p]
      /\ answer'[p] = answer[p]
  BY <1>1, <1>2, TypesAre DEF OthersStay
<1>7. todo[p] = <<>> /\ answer[p] = None /\ known[p] = {}
  BY <1>2, IdleIs, FitsIs
<1>8. ProcessFits(p, <<>>, None, listening[p], number[p], {}, lost, Entries(map))
  BY <1>7, FitsIs
<1>9. ProcessFits(p, <<>>, None, n, n, {}, lost, Entries(map))
  BY <1>3, <1>8, QuietIs, NoStepIs
<1> QED BY <1>1, <1>2, <1>5, <1>6, <1>7, <1>9, OneProcess

(* A call begins.                                                           *)
LEMMA CallKeeps ==
  ASSUME PInv, NEW p \in Processes, NEW t \in Todos, Call(p, t),
         \/ UNCHANGED listening /\ t \notin Removing
         \/ listening' = [listening EXCEPT ![p] = NoPort] /\ t \in Removing,
         number[p] = NoPort => t \in Plain,
         OnStep(t, "clean") => known[p] = {}, OnStep(t, "register") => known[p] # {}
  PROVE  PInv'
<1>1. /\ Idle(p) /\ todo' = [todo EXCEPT ![p] = t]
      /\ UNCHANGED <<map, number, known, registered, answer, orphans, lost, faults>>
  BY DEF Call
<1>2. NoPort \in Answers
  BY DEF Answers
<1>3. t \in Seq(Steps)
  BY ShapeIs
<1>4. listening' \in [Processes -> Answers] /\ todo' \in [Processes -> Seq(Steps)]
  BY <1>1, <1>2, <1>3, TypesAre
<1>5. TypeOK'
  BY <1>1, <1>4, TypesAre, TypeOKIs
<1>6. /\ OthersStay(p)
      /\ number'[p] = number[p] /\ todo'[p] = t /\ known'[p] = known[p]
      /\ answer'[p] = answer[p]
      /\ listening'[p] = IF t \in Removing THEN NoPort ELSE listening[p]
  BY <1>1, TypesAre DEF OthersStay
<1>7. answer[p] = None /\ listening[p] = number[p]
  BY <1>1, IdleIs
<1>8. number[p] = NoPort => known[p] = {}
  BY FitsIs
<1> QED BY <1>1, <1>5, <1>6, <1>7, <1>8, QuietStep

LEMMA RegisterNameKeeps ==
  ASSUME PInv, NEW p \in Processes, NEW n \in Names, RegisterName(p, n)
  PROVE  PInv'
<1> DEFINE t == Registration(p, n)
<1>1. number[p] # NoPort /\ Call(p, t) /\ UNCHANGED listening
  BY DEF RegisterName, Has
<1>2. t \in Todos /\ t \notin Removing
      /\ (OnStep(t, "clean") => known[p] = {}) /\ (OnStep(t, "register") => known[p] # {})
  <2>1. CASE known[p] = {}
    <3> DEFINE r == <<Step("clean", NoName), Step("register", n)>>
    <3>1. t = r
      BY <2>1 DEF Registration
    <3>2. r \in Todos /\ \A x : OnStep(r, x) <=> x = "clean"
      BY TodosAre, TwoStepsIs
    <3> HIDE DEF t, r
    <3>3. r \notin Removing
      BY <3>2, ShapeIs
    <3> QED BY <2>1, <3>1, <3>2, <3>3
  <2>2. CASE known[p] # {}
    <3> DEFINE r == <<Step("register", n)>>
    <3>1. t = r
      BY <2>2 DEF Registration
    <3>2. r \in Todos /\ \A x : OnStep(r, x) <=> x = "register"
      BY TodosAre, OneStepIs
    <3> HIDE DEF t, r
    <3>3. r \notin Removing
      BY <3>2, ShapeIs
    <3> QED BY <2>2, <3>1, <3>2, <3>3
  <2> QED BY <2>1, <2>2
<1> HIDE DEF t
<1> QED BY <1>1, <1>2, CallKeeps

LEMMA RegisterNilKeeps ==
  ASSUME PInv, NEW p \in Processes, RegisterNil(p)
  PROVE  PInv'
<1> DEFINE t == <<Step("forget", registered[p]), Step("name", NoName)>>
<1>1. number[p] # NoPort /\ Call(p, t) /\ UNCHANGED listening
  BY DEF RegisterNil, Has
<1>2. registered[p] \in AnyName /\ NoName \in AnyName
  BY FitsIs DEF AnyName
<1>3. t \in Todos /\ t \notin Removing /\ \A x : OnStep(t, x) <=> x = "forget"
  BY <1>2, TodosAre, TwoStepsIs
<1> HIDE DEF t
<1> QED BY <1>1, <1>3, CallKeeps

LEMMA LookUpKeeps ==
  ASSUME PInv, NEW p \in Processes, NEW n \in Names, LookUp(p, n)
  PROVE  PInv'
<1> DEFINE t == <<Step("lookup", n)>>
<1>1. Call(p, t) /\ UNCHANGED listening
  BY DEF LookUp
<1>2. t \in Todos /\ \A x : OnStep(t, x) <=> x = "lookup"
  BY TodosAre, OneStepIs
<1> HIDE DEF t
<1>3. t \in Plain /\ t \notin Removing
  BY <1>2, ShapeIs
<1> QED BY <1>1, <1>2, <1>3, CallKeeps

LEMMA InvalidateKeeps ==
  ASSUME PInv, NEW p \in Processes, Invalidate(p)
  PROVE  PInv'
<1> DEFINE t == <<Step("removeAll", NoName)>>
<1>1. number[p] # NoPort /\ Call(p, t) /\ listening' = [listening EXCEPT ![p] = NoPort]
  BY DEF Invalidate, Has
<1>2. t \in Todos /\ t \in Removing /\ \A x : OnStep(t, x) <=> x = "removeAll"
  BY TodosAre, OneStepIs
<1> HIDE DEF t
<1> QED BY <1>1, <1>2, CallKeeps

(* What follows a step in a call is what is left of a call.                 *)
LEMMA RestIs ==
  ASSUME NEW t \in Todos
  PROVE  /\ OnStep(t, "forget") =>
              /\ Tail(t) \in Todos /\ Tail(t) \notin Plain
              /\ Tail(t) \in Removing <=> t \in Removing
              /\ ~ OnStep(Tail(t), "clean") /\ ~ OnStep(Tail(t), "register")
         /\ OnStep(t, "clean") =>
              /\ Tail(t) \in Todos /\ Tail(t) \notin Removing
              /\ OnStep(Tail(t), "register")
         /\ OnStep(t, "name") \/ OnStep(t, "lookup") \/ OnStep(t, "register")
              \/ OnStep(t, "removeAll") => Tail(t) = <<>>
<1>1. CASE OnStep(t, "forget")
  <2>1. CASE Tail(t) = <<Step("removeAll", NoName)>> /\ t \in Removing
    <3> DEFINE r == <<Step("removeAll", NoName)>>
    <3>1. r \in Todos /\ r \in Removing /\ \A x : OnStep(r, x) <=> x = "removeAll"
      BY TodosAre, OneStepIs
    <3> HIDE DEF r
    <3>2. r \notin Plain
      BY <3>1, ShapeIs
    <3>3. Tail(t) = r
      BY <2>1 DEF r
    <3> QED BY <1>1, <2>1, <3>1, <3>2, <3>3 DEF OnStep
  <2>2. CASE (\E x \in AnyName : Tail(t) = <<Step("name", x)>>) /\ t \notin Removing
    <3>1. PICK x \in AnyName : Tail(t) = <<Step("name", x)>>
      BY <2>2
    <3> DEFINE r == <<Step("name", x)>>
    <3>2. r \in Todos /\ \A y : OnStep(r, y) <=> y = "name"
      BY TodosAre, OneStepIs
    <3>3. Tail(t) = r
      BY <3>1
    <3> HIDE DEF r
    <3>4. r \notin Plain /\ r \notin Removing
      BY <3>2, ShapeIs
    <3> QED BY <1>1, <2>2, <3>2, <3>3, <3>4 DEF OnStep
  <2> QED BY <1>1, <2>1, <2>2, ShapeIs
<1>2. CASE OnStep(t, "clean")
  <2>1. PICK n \in Names : Tail(t) = <<Step("register", n)>>
    BY <1>2, ShapeIs
  <2> DEFINE r == <<Step("register", n)>>
  <2>2. r \in Todos /\ \A y : OnStep(r, y) <=> y = "register"
    BY TodosAre, OneStepIs
  <2>3. Tail(t) = r
    BY <2>1
  <2> HIDE DEF r
  <2>4. r \notin Removing
    BY <2>2, ShapeIs
  <2> QED BY <1>2, <2>2, <2>3, <2>4 DEF OnStep
<1>3. CASE ~ OnStep(t, "forget") /\ ~ OnStep(t, "clean")
  BY <1>3, ShapeIs
<1> QED BY <1>1, <1>2, <1>3

LEMMA SameSequence ==
  ASSUME NEW T, NEW a \in Seq(T), NEW b \in Seq(T), Len(a) = Len(b),
         \A i \in 1 .. Len(a) : a[i] = b[i]
  PROVE  a = b
OBVIOUS

LEMMA JoinIs ==
  /\ \A T, s : s \in Seq(T) => <<>> \o s = s /\ s \o <<>> = s
  /\ \A x, y : <<x>> \o <<y>> = <<x, y>>
<1>1. \A T, s : s \in Seq(T) => <<>> \o s = s /\ s \o <<>> = s
  OBVIOUS
<1>2. ASSUME NEW x, NEW y PROVE <<x>> \o <<y>> = <<x, y>>
  <2> DEFINE T == {x, y}
             a == <<x>>
             b == <<y>>
             c == <<x, y>>
  <2>1. a \in Seq(T) /\ b \in Seq(T) /\ Len(a) = 1 /\ Len(b) = 1 /\ a[1] = x /\ b[1] = y
    OBVIOUS
  <2>2. c \in Seq(T) /\ Len(c) = 2 /\ c[1] = x /\ c[2] = y
    OBVIOUS
  <2> HIDE DEF T, a, b, c
  <2>3. a \o b \in Seq(T) /\ Len(a \o b) = 2 /\ (a \o b)[1] = x /\ (a \o b)[1 + 1] = y
    <3>1. /\ a \o b \in Seq(T) /\ Len(a \o b) = Len(a) + Len(b)
          /\ \A k \in 1 .. Len(a) : (a \o b)[k] = a[k]
          /\ \A k \in 1 .. Len(b) : (a \o b)[Len(a) + k] = b[k]
      BY ONLY <2>1, ConcatIs
    <3>2. 1 \in 1 .. Len(a) /\ 1 \in 1 .. Len(b)
      BY <2>1
    <3>3. (a \o b)[1] = a[1] /\ (a \o b)[Len(a) + 1] = b[1]
      BY <3>1, <3>2
    <3> QED BY <3>1, <3>3, <2>1
  <2>4. \A i \in 1 .. Len(c) : c[i] = (a \o b)[i]
    BY <2>2, <2>3
  <2>5. c = a \o b
    BY <2>2, <2>3, <2>4, SameSequence
  <2> QED BY <2>5 DEF a, b, c
<1> QED BY <1>1, <1>2

LEMMA TailIsTyped ==
  ASSUME NEW t \in Todos, t # <<>>
  PROVE  Tail(t) \in Seq(Steps) /\ <<>> \o Tail(t) = Tail(t)
<1>1. t \in Seq(Steps)
  BY ShapeIs
<1>2. Tail(t) \in Seq(Steps)
  BY <1>1
<1> QED BY <1>2, JoinIs

(* The call goes on with what is left of it.                                *)
LEMMA ThenIs ==
  ASSUME PInv, NEW p \in Processes, NEW steps, todo' = Then(p, steps)
  PROVE  /\ todo'[p] = steps \o Tail(todo[p])
         /\ \A q \in Processes : q # p => todo'[q] = todo[q]
         /\ steps \o Tail(todo[p]) \in Seq(Steps) => todo' \in [Processes -> Seq(Steps)]
BY TypesAre DEF Then

LEMMA SkipKeeps ==
  ASSUME PInv, NEW p \in Processes, Skip(p)
  PROVE  PInv'
<1> DEFINE t == todo[p]
<1>1. /\ OnStep(t, "forget") /\ Head(t).name \notin known[p]
      /\ todo' = Then(p, <<>>)
      /\ UNCHANGED <<map, listening, number, known, registered, answer, orphans,
                     lost, faults>>
  BY FitsIs DEF Skip
<1>2. t \in Todos /\ t # <<>>
  BY <1>1, FitsIs DEF OnStep
<1>3. todo'[p] = Tail(t) /\ Tail(t) \in Seq(Steps)
      /\ \A q \in Processes : q # p => todo'[q] = todo[q]
  BY <1>1, <1>2, ThenIs, TailIsTyped
<1>4. todo' \in [Processes -> Seq(Steps)]
  BY <1>1, <1>2, <1>3, ThenIs, TailIsTyped
<1>5. TypeOK'
  BY <1>1, <1>4, TypesAre, TypeOKIs
<1>6. OthersStay(p) /\ answer'[p] = answer[p] /\ known'[p] = known[p]
      /\ number'[p] = number[p] /\ listening'[p] = listening[p]
  BY <1>1, <1>3 DEF OthersStay
<1>7. answer[p] = None
  <2>1. ~ AsksBy(t, known[p])
    BY <1>1 DEF AsksBy, OnStep
  <2> QED BY <2>1, FitsIs
<1>8. number[p] # NoPort /\ listening[p] = IF t \in Removing THEN NoPort ELSE number[p]
  BY <1>1, <1>2, FitsIs, ShapeIs
<1>9. /\ Tail(t) \in Todos /\ (Tail(t) \in Removing <=> t \in Removing)
      /\ ~ OnStep(Tail(t), "clean") /\ ~ OnStep(Tail(t), "register")
  BY <1>1, <1>2, RestIs
<1> HIDE DEF t
<1> QED BY <1>1, <1>3, <1>5, <1>6, <1>7, <1>8, <1>9, QuietStep

LEMMA NameKeeps ==
  ASSUME PInv, NEW p \in Processes, Name(p)
  PROVE  PInv'
<1> DEFINE t == todo[p]
<1>1. /\ OnStep(t, "name")
      /\ registered' = [registered EXCEPT ![p] = Head(t).name]
      /\ todo' = Then(p, <<>>)
      /\ UNCHANGED <<map, listening, number, known, answer, orphans, lost, faults>>
  BY FitsIs DEF Name
<1>2. t \in Todos /\ t # <<>> /\ Head(t).name \in AnyName
  BY <1>1, FitsIs, ShapeIs DEF OnStep
<1>3. todo'[p] = Tail(t) /\ Tail(t) \in Seq(Steps) /\ Tail(t) = <<>>
      /\ \A q \in Processes : q # p => todo'[q] = todo[q]
  BY <1>1, <1>2, ThenIs, TailIsTyped, RestIs
<1>4. todo' \in [Processes -> Seq(Steps)]
  BY <1>1, <1>2, <1>3, ThenIs, TailIsTyped
<1>5. registered' \in [Processes -> AnyName]
  BY <1>1, <1>2, TypesAre
<1>6. TypeOK'
  BY <1>1, <1>4, <1>5, TypesAre, TypeOKIs
<1>7. OthersStay(p) /\ answer'[p] = answer[p] /\ known'[p] = known[p]
      /\ number'[p] = number[p] /\ listening'[p] = listening[p]
  BY <1>1, <1>3 DEF OthersStay
<1>8. answer[p] = None
  <2>1. ~ AsksBy(t, known[p])
    BY <1>1 DEF AsksBy, OnStep
  <2> QED BY <2>1, FitsIs
<1>9. number[p] # NoPort /\ listening[p] = number[p]
  BY <1>1, <1>2, FitsIs, ShapeIs
<1> HIDE DEF t
<1> QED BY <1>1, <1>3, <1>6, <1>7, <1>8, <1>9, NoStepIs, QuietStep

LEMMA RemoveAllKeeps ==
  ASSUME PInv, NEW p \in Processes, RemoveAll(p)
  PROVE  PInv'
<1> DEFINE t == todo[p]
<1>1. /\ OnStep(t, "removeAll")
      /\ UNCHANGED <<map, listening, known, answer, orphans, lost, faults>>
  BY FitsIs DEF RemoveAll
<1>2. /\ t \in Todos /\ t # <<>> /\ t = <<Step("removeAll", NoName)>> /\ t \in Removing
      /\ Tail(t) = <<>> /\ t \notin Plain
  BY <1>1, FitsIs, ShapeIs DEF OnStep
<1>3. answer[p] = None
  <2>1. ~ AsksBy(t, known[p])
    BY <1>1 DEF AsksBy, OnStep
  <2> QED BY <2>1, FitsIs
<1>4. listening[p] = NoPort /\ number[p] # NoPort
  BY <1>2, FitsIs
<1>5. CASE known[p] = {} /\ todo' = Then(p, <<>>)
           /\ number' = [number EXCEPT ![p] = NoPort]
           /\ registered' = [registered EXCEPT ![p] = NoName]
  <2>1. todo'[p] = <<>> /\ \A q \in Processes : q # p => todo'[q] = todo[q]
    BY <1>2, <1>5, ThenIs, TailIsTyped
  <2>2. todo' \in [Processes -> Seq(Steps)]
    BY <1>2, <1>5, <2>1, ThenIs, TailIsTyped
  <2>3. NoName \in AnyName /\ NoPort \in Answers
    BY DEF AnyName, Answers
  <2>4. registered' \in [Processes -> AnyName] /\ number' \in [Processes -> Answers]
    BY <1>5, <2>3, TypesAre
  <2>5. TypeOK'
    BY <1>1, <2>2, <2>4, TypesAre, TypeOKIs
  <2>6. OthersStay(p) /\ answer'[p] = answer[p] /\ known'[p] = known[p]
        /\ number'[p] = NoPort /\ listening'[p] = listening[p]
    BY <1>1, <1>5, <2>1, TypesAre DEF OthersStay
  <2> HIDE DEF t
  <2> QED BY <1>1, <1>3, <1>4, <1>5, <2>1, <2>5, <2>6, NoStepIs, QuietStep
<1>6. ASSUME NEW n \in known[p], todo' = [todo EXCEPT ![p] = <<Step("forget", n)>> \o t],
             UNCHANGED <<number, registered>>
      PROVE  PInv'
  <2> DEFINE r == <<Step("forget", n), Step("removeAll", NoName)>>
  <2>1. n \in AnyName
    BY FitsIs DEF AnyName
  <2>2. r \in Todos /\ r \in Removing /\ (\A x : OnStep(r, x) <=> x = "forget")
    BY <2>1, TodosAre, TwoStepsIs
  <2>3. todo' = [todo EXCEPT ![p] = r]
    BY <1>2, <1>6, JoinIs
  <2> HIDE DEF r, t
  <2>4. r \in Seq(Steps)
    BY <2>2, ShapeIs
  <2>5. todo' \in [Processes -> Seq(Steps)] /\ todo'[p] = r
        /\ \A q \in Processes : q # p => todo'[q] = todo[q]
    BY <2>3, <2>4, TypesAre
  <2>6. TypeOK'
    BY <1>1, <1>6, <2>5, TypesAre, TypeOKIs
  <2>7. OthersStay(p) /\ answer'[p] = answer[p] /\ known'[p] = known[p]
        /\ number'[p] = number[p] /\ listening'[p] = listening[p]
    BY <1>1, <1>6, <2>5 DEF OthersStay
  <2> QED BY <1>1, <1>3, <1>4, <2>2, <2>5, <2>6, <2>7, QuietStep
<1> QED BY <1>5, <1>6 DEF RemoveAll

LEMMA BrokenKeeps ==
  ASSUME PInv, NEW p \in Processes, Broken(p)
  PROVE  PInv'
<1> DEFINE t == todo[p]
<1>1. /\ answer[p] = Lost /\ todo' = Failed(p)
      /\ answer' = [answer EXCEPT ![p] = None]
      /\ UNCHANGED <<map, listening, number, known, registered, orphans, lost, faults>>
  BY DEF Broken
<1>2. t \in Todos /\ AsksBy(t, known[p])
  BY <1>1, FitsIs, NoneAnswers
<1>3. t # <<>>
  BY <1>2 DEF AsksBy, OnStep
<1>4. /\ todo'[p] \in Todos /\ (OnStep(t, "forget") => todo'[p] = Tail(t))
      /\ (~ OnStep(t, "forget") => todo'[p] = <<>>)
      /\ \A q \in Processes : q # p => todo'[q] = todo[q]
      /\ todo' \in [Processes -> Seq(Steps)]
  <2>1. CASE OnStep(t, "forget")
    <3>1. todo' = Then(p, <<>>)
      BY <2>1, <1>1, FitsIs DEF Failed
    <3>2. Tail(t) \in Todos
      BY <1>2, <2>1, RestIs
    <3> QED BY <1>2, <1>3, <2>1, <3>1, <3>2, ThenIs, TailIsTyped
  <2>2. CASE ~ OnStep(t, "forget")
    <3>1. todo' = [todo EXCEPT ![p] = <<>>]
      BY <2>2, <1>1, FitsIs DEF Failed
    <3> QED BY <2>2, <3>1, TypesAre, NoStepIs
  <2> QED BY <2>1, <2>2
<1>5. answer' \in [Processes -> Answers \cup {None, Lost}]
  BY <1>1, TypesAre
<1>6. TypeOK'
  BY <1>1, <1>4, <1>5, TypesAre, TypeOKIs
<1>7. OthersStay(p) /\ answer'[p] = None /\ known'[p] = known[p]
      /\ number'[p] = number[p] /\ listening'[p] = listening[p]
  BY <1>1, <1>4, TypesAre DEF OthersStay
<1>8. ProcessFits(p, t, Lost, listening[p], number[p], known[p], lost, Entries(map))
  BY <1>1, FitsIs
<1>9. GivenBy(t, Lost) = {} /\ ForgottenBy(t, Lost) = {}
  BY NoneAnswers DEF Answers, GivenBy, ForgottenBy
<1>10. /\ listening[p] # NoPort => \A n \in known[p] :
            <<p, n>> \in lost \/ [name |-> n, port |-> listening[p], by |-> p] \in Entries(map)
       /\ known[p] # {} => \A e \in Entries(map) : e.port = listening[p] => e.by \in {p, "late"}
       /\ \A e \in Entries(map) : e.by = p => e.name \in known[p]
  BY <1>8, <1>9 DEF ProcessFits, HeldBy, FreshFor, CleanBy, OwnedBy
<1>11. /\ listening[p] = IF todo'[p] \in Removing THEN NoPort ELSE number[p]
       /\ number[p] = NoPort => todo'[p] \in Plain /\ known[p] = {}
       /\ ~ OnStep(todo'[p], "clean") /\ ~ OnStep(todo'[p], "register")
  <2>1. CASE OnStep(t, "forget")
    <3>1. t \notin Plain
      BY <1>2, <2>1, ShapeIs
    <3>2. number[p] # NoPort /\ listening[p] = IF t \in Removing THEN NoPort ELSE number[p]
      BY <3>1, FitsIs
    <3>3. todo'[p] = Tail(t)
      BY <1>4, <2>1
    <3>4. /\ Tail(t) \in Removing <=> t \in Removing
          /\ ~ OnStep(Tail(t), "clean") /\ ~ OnStep(Tail(t), "register")
      BY <1>2, <2>1, RestIs
    <3> HIDE DEF t
    <3> QED BY <3>2, <3>3, <3>4
  <2>2. CASE ~ OnStep(t, "forget")
    <3>1. t \notin Removing
      BY <2>2, <1>2, ShapeIs DEF AsksBy
    <3> QED BY <2>2, <3>1, <1>4, NoStepIs, FitsIs
  <2> QED BY <2>1, <2>2
<1>12. ProcessFits(p, todo'[p], None, listening[p], number[p], known[p], lost, Entries(map))
  BY <1>4, <1>10, <1>11, QuietIs
<1> QED BY <1>1, <1>6, <1>7, <1>12, OneProcess

(* A process reads the answer to its request.                               *)
LEMMA AnsweredFits ==
  ASSUME PInv, NEW p \in Processes, answer[p] \in Answers,
         NEW t, t = todo[p], NEW a, a = answer[p], NEW k, k = known[p],
         NEW r, NEW kk,
         \/ OnStep(t, "clean") /\ kk = k /\ r = Tail(t)
         \/ OnStep(t, "lookup") /\ kk = k /\ r = <<>>
         \/ OnStep(t, "register") /\ a = NoPort /\ kk = k /\ r = <<Step("lookup", Head(t).name)>>
         \/ /\ OnStep(t, "register") /\ a # NoPort /\ kk = k \cup {Head(t).name}
            /\ \/ r = <<Step("name", Head(t).name)>>
               \/ \E x \in AnyName : r = <<Step("forget", x), Step("name", Head(t).name)>>
         \/ OnStep(t, "forget") /\ kk = k \ {Head(t).name} /\ r = Tail(t)
  PROVE  ProcessFits(p, r, None, listening[p], number[p], kk, lost, Entries(map))
<1> DEFINE E == Entries(map)
           l == listening[p]
           u == number[p]
<1>1. ProcessFits(p, t, a, l, u, k, lost, E)
  BY FitsIs
<1>2. /\ t \in Todos /\ l = IF t \in Removing THEN NoPort ELSE u
      /\ u = NoPort => t \in Plain /\ k = {}
      /\ OnStep(t, "clean") => k = {}
  BY <1>1 DEF ProcessFits, CallFits
<1>3. a \notin {None, Lost} /\ (a # NoPort => a \in Ports)
  BY NoneAnswers DEF Answers
<1>4. /\ l # NoPort => \A n \in (k \ ForgottenBy(t, a)) \cup GivenBy(t, a) :
           <<p, n>> \in lost \/ [name |-> n, port |-> l, by |-> p] \in E
      /\ CleanBy(t, a, k) => \A e \in E : e.port = l => e.by \in {p, "late"}
      /\ \A e \in E : e.by = p => e.name \in (k \cup GivenBy(t, a)) \ ForgottenBy(t, a)
  BY <1>1 DEF ProcessFits, HeldBy, FreshFor, OwnedBy
<1> HIDE DEF E, l, u
<1>5. SUFFICES /\ r \in Todos
               /\ l = IF r \in Removing THEN NoPort ELSE u
               /\ u = NoPort => r \in Plain /\ kk = {}
               /\ OnStep(r, "clean") => kk = {}
               /\ l # NoPort => \A n \in kk :
                    <<p, n>> \in lost \/ [name |-> n, port |-> l, by |-> p] \in E
               /\ kk # {} \/ OnStep(r, "register") =>
                    \A e \in E : e.port = l => e.by \in {p, "late"}
               /\ \A e \in E : e.by = p => e.name \in kk
  BY QuietIs DEF E, l, u
<1>6. CASE OnStep(t, "clean") /\ kk = k /\ r = Tail(t)
  <2>1. GivenBy(t, a) = {} /\ ForgottenBy(t, a) = {} /\ CleanBy(t, a, k)
    BY <1>6, <1>3 DEF GivenBy, ForgottenBy, CleanBy, OnStep
  <2>2. r \in Todos /\ r \notin Removing /\ OnStep(r, "register")
    BY <1>2, <1>6, RestIs
  <2>3. ~ OnStep(r, "clean")
    BY <2>2 DEF OnStep
  <2>4. t \notin Removing /\ t \notin Plain
    BY <1>2, <1>6, ShapeIs
  <2> QED BY <2>1, <2>2, <2>3, <2>4, <1>2, <1>4, <1>6
<1>7. CASE OnStep(t, "lookup") /\ kk = k /\ r = <<>>
  <2>1. GivenBy(t, a) = {} /\ ForgottenBy(t, a) = {} /\ (CleanBy(t, a, k) <=> k # {})
    BY <1>7 DEF GivenBy, ForgottenBy, CleanBy, OnStep
  <2>2. t \notin Removing
    BY <1>2, <1>7, ShapeIs
  <2> QED BY <2>1, <2>2, <1>2, <1>4, <1>7, NoStepIs
<1>8. CASE OnStep(t, "register") /\ a = NoPort /\ kk = k
           /\ r = <<Step("lookup", Head(t).name)>>
  <2>1. GivenBy(t, a) = {} /\ ForgottenBy(t, a) = {} /\ CleanBy(t, a, k)
    BY <1>8, NoPortAssumption DEF GivenBy, ForgottenBy, CleanBy, OnStep
  <2>2. Head(t).name \in Names /\ t \notin Removing /\ t \notin Plain
    BY <1>2, <1>8, ShapeIs
  <2>3. r \in Todos /\ \A x : OnStep(r, x) <=> x = "lookup"
    BY <1>8, <2>2, TodosAre, OneStepIs
  <2>4. r \notin Removing
    BY <2>3, ShapeIs
  <2> QED BY <2>1, <2>2, <2>3, <2>4, <1>2, <1>4, <1>8
<1>9. CASE /\ OnStep(t, "register") /\ a # NoPort /\ kk = k \cup {Head(t).name}
           /\ \/ r = <<Step("name", Head(t).name)>>
              \/ \E x \in AnyName : r = <<Step("forget", x), Step("name", Head(t).name)>>
  <2>1. GivenBy(t, a) = {Head(t).name} /\ ForgottenBy(t, a) = {} /\ CleanBy(t, a, k)
    BY <1>9, <1>3 DEF GivenBy, ForgottenBy, CleanBy, OnStep
  <2>2. Head(t).name \in Names /\ t \notin Removing /\ t \notin Plain
    BY <1>2, <1>9, ShapeIs
  <2>3. Head(t).name \in AnyName
    BY <2>2 DEF AnyName
  <2>4. r \in Todos /\ r \notin Removing /\ ~ OnStep(r, "clean") /\ ~ OnStep(r, "register")
    <3>1. CASE r = <<Step("name", Head(t).name)>>
      <4>1. r \in Todos /\ \A x : OnStep(r, x) <=> x = "name"
        BY <3>1, <2>3, TodosAre, OneStepIs
      <4> QED BY <4>1, ShapeIs
    <3>2. ASSUME NEW x \in AnyName, r = <<Step("forget", x), Step("name", Head(t).name)>>
          PROVE  r \in Todos /\ r \notin Removing
                 /\ ~ OnStep(r, "clean") /\ ~ OnStep(r, "register")
      BY <3>2, <2>3, TodosAre, TwoStepsIs
    <3> QED BY <3>1, <3>2, <1>9
  <2> QED BY <2>1, <2>2, <2>4, <1>2, <1>4, <1>9
<1>10. CASE OnStep(t, "forget") /\ kk = k \ {Head(t).name} /\ r = Tail(t)
  <2>1. GivenBy(t, a) = {} /\ ForgottenBy(t, a) = {Head(t).name}
        /\ (CleanBy(t, a, k) <=> k # {})
    BY <1>10, <1>3 DEF GivenBy, ForgottenBy, CleanBy, OnStep
  <2>2. /\ r \in Todos /\ (r \in Removing <=> t \in Removing)
        /\ ~ OnStep(r, "clean") /\ ~ OnStep(r, "register")
    BY <1>2, <1>10, RestIs
  <2>3. t \notin Plain
    BY <1>2, <1>10, ShapeIs
  <2> QED BY <2>1, <2>2, <2>3, <1>2, <1>4, <1>10
<1> QED BY <1>6, <1>7, <1>8, <1>9, <1>10

LEMMA AnsweredKeeps ==
  ASSUME PInv, NEW p \in Processes, Answered(p)
  PROVE  PInv'
<1> DEFINE t == todo[p]
           a == answer[p]
           k == known[p]
           n == Head(t).name
           given == Head(t).do = "register" /\ a # NoPort
           kk == CASE given -> k \cup {n}
                   [] Head(t).do = "forget" -> k \ {n}
                   [] OTHER -> k
           steps == CASE given -> (IF registered[p] = NoName THEN <<>>
                                   ELSE <<Step("forget", registered[p])>>)
                                  \o <<Step("name", n)>>
                      [] Head(t).do = "register" /\ ~ given -> <<Step("lookup", n)>>
                      [] OTHER -> <<>>
           r == steps \o Tail(t)
<1>1. /\ a \notin {None, Lost}
      /\ known' = [known EXCEPT ![p] = kk]
      /\ todo' = Then(p, steps)
      /\ answer' = [answer EXCEPT ![p] = None]
      /\ UNCHANGED <<map, listening, number, registered, orphans, lost, faults>>
  BY DEF Answered
<1>2. a \in Answers
  BY <1>1, TypesAre
<1>3. t \in Todos /\ AsksBy(t, k) /\ registered[p] \in AnyName /\ k \subseteq Names
  BY <1>1, FitsIs
<1>4. t # <<>> /\ Head(t).do \in {"clean", "register", "lookup", "forget"}
  BY <1>3 DEF AsksBy, OnStep
<1>5. /\ Tail(t) \in Seq(Steps) /\ <<>> \o Tail(t) = Tail(t)
  BY <1>3, <1>4, TailIsTyped
<1>6. \A d : OnStep(t, d) <=> Head(t).do = d
  BY <1>4 DEF OnStep
<1>7. \/ OnStep(t, "clean") /\ kk = k /\ r = Tail(t)
      \/ OnStep(t, "lookup") /\ kk = k /\ r = <<>>
      \/ OnStep(t, "register") /\ a = NoPort /\ kk = k /\ r = <<Step("lookup", n)>>
      \/ /\ OnStep(t, "register") /\ a # NoPort /\ kk = k \cup {n}
         /\ \/ r = <<Step("name", n)>>
            \/ \E x \in AnyName : r = <<Step("forget", x), Step("name", n)>>
      \/ OnStep(t, "forget") /\ kk = k \ {n} /\ r = Tail(t)
  <2>1. CASE Head(t).do = "clean"
    <3>1. steps = <<>> /\ kk = k
      BY <2>1
    <3> QED BY <3>1, <2>1, <1>5, <1>6
  <2>2. CASE Head(t).do = "lookup"
    <3>1. steps = <<>> /\ kk = k
      BY <2>2
    <3>2. Tail(t) = <<>>
      BY <2>2, <1>3, <1>6, ShapeIs
    <3> QED BY <3>1, <3>2, <2>2, <1>5, <1>6
  <2>3. CASE Head(t).do = "register" /\ a = NoPort
    <3>1. steps = <<Step("lookup", n)>> /\ kk = k
      BY <2>3
    <3>2. Tail(t) = <<>> /\ n \in Names
      BY <2>3, <1>3, <1>6, ShapeIs
    <3>3. <<Step("lookup", n)>> \o <<>> = <<Step("lookup", n)>>
      <4>1. <<Step("lookup", n)>> \in Seq(Steps)
        BY <3>2, TodosAre, ShapeIs
      <4> QED BY <4>1, JoinIs
    <3> QED BY <3>1, <3>2, <3>3, <2>3, <1>6
  <2>4. CASE Head(t).do = "register" /\ a # NoPort
    <3>1. kk = k \cup {n}
      BY <2>4
    <3>2. Tail(t) = <<>> /\ n \in Names
      BY <2>4, <1>3, <1>6, ShapeIs
    <3>3. n \in AnyName
      BY <3>2 DEF AnyName
    <3> DEFINE one == <<Step("name", n)>>
    <3>4. one \in Seq(Steps) /\ <<>> \o one = one /\ one \o <<>> = one
      <4>1. one \in Seq(Steps)
        BY <3>3, TodosAre, ShapeIs
      <4> QED BY <4>1, JoinIs
    <3>5. CASE registered[p] = NoName
      <4>1. steps = <<>> \o one
        BY <2>4, <3>5
      <4>2. r = one
        BY <4>1, <3>2, <3>4
      <4> QED BY <4>2, <3>1, <2>4, <1>6
    <3>6. CASE registered[p] # NoName
      <4> DEFINE two == <<Step("forget", registered[p]), Step("name", n)>>
      <4>1. steps = <<Step("forget", registered[p])>> \o one
        BY <2>4, <3>6
      <4>2. two \in Seq(Steps)
        BY <3>3, <1>3, TodosAre, ShapeIs
      <4>3. steps = two
        BY <4>1, JoinIs
      <4>4. r = two \o <<>>
        BY <4>3, <3>2
      <4>5. r = two
        BY <4>2, <4>4, JoinIs
      <4> QED BY <4>5, <3>1, <2>4, <1>6, <1>3
    <3> QED BY <3>5, <3>6
  <2>5. CASE Head(t).do = "forget"
    <3>1. steps = <<>> /\ kk = k \ {n}
      BY <2>5
    <3> QED BY <3>1, <2>5, <1>5, <1>6
  <2> QED BY <2>1, <2>2, <2>3, <2>4, <2>5, <1>4
<1> HIDE DEF kk, r, steps, given
<1>8. ProcessFits(p, r, None, listening[p], number[p], kk, lost, Entries(map))
  <2> HIDE DEF t, a, k
  <2>1. answer[p] \in Answers /\ t = todo[p] /\ a = answer[p] /\ k = known[p]
    BY <1>2 DEF t, a, k
  <2> QED BY <2>1, <1>7, AnsweredFits
<1>9. r \in Todos
  BY <1>8, QuietIs
<1>10. todo'[p] = r /\ todo' \in [Processes -> Seq(Steps)]
       /\ \A q \in Processes : q # p => todo'[q] = todo[q]
  BY <1>1, <1>9, ThenIs, ShapeIs DEF r
<1>11. kk \subseteq Names
  <2>1. OnStep(t, "register") => n \in Names
    BY <1>3, ShapeIs
  <2> QED BY <2>1, <1>3, <1>7
<1>12. known' \in [Processes -> SUBSET Names] /\ answer' \in [Processes -> Answers \cup {None, Lost}]
  BY <1>1, <1>11, TypesAre
<1>13. TypeOK'
  BY <1>1, <1>10, <1>12, TypesAre, TypeOKIs
<1>14. OthersStay(p) /\ answer'[p] = None /\ known'[p] = kk
       /\ number'[p] = number[p] /\ listening'[p] = listening[p]
  BY <1>1, <1>10, TypesAre DEF OthersStay
<1> QED BY <1>1, <1>8, <1>10, <1>13, <1>14, OneProcess

--------------------------------------------------------------------------
(* A process is not disturbed by a change of the table that takes no name   *)
(* of it but a lost one, makes no entry for another at its port, and gives  *)
(* it no name.                                                              *)
Undisturbing(q, l, o, E, oo, EE) ==
  /\ \A n : <<q, n>> \in o => <<q, n>> \in oo
  /\ l # NoPort => \A n : [name |-> n, port |-> l, by |-> q] \in E =>
       <<q, n>> \in oo \/ [name |-> n, port |-> l, by |-> q] \in EE
  /\ l # NoPort => \A e \in EE : e.port = l =>
       e.by \in {q, "late"} \/ \E f \in E : f.port = l /\ f.by \notin {q, "late"}
  /\ \A e \in EE : e.by = q => \E f \in E : f.by = q /\ f.name = e.name

LEMMA StillFits ==
  ASSUME NEW q, NEW t, NEW a, NEW l, NEW u, NEW k, NEW o, NEW E, NEW oo, NEW EE,
         EE \subseteq Entry(Owners),
         ProcessFits(q, t, a, l, u, k, o, E), Undisturbing(q, l, o, E, oo, EE)
  PROVE  ProcessFits(q, t, a, l, u, k, oo, EE)
<1>1. CallFits(t, a, l, u, k)
  BY DEF ProcessFits
<1>2. HeldBy(q, t, a, l, k, oo, EE)
  BY DEF ProcessFits, HeldBy, Undisturbing
<1>3. FreshFor(q, t, a, l, k, EE)
  <2>1. \A e \in EE : e.port # NoPort
    BY NoPortAssumption DEF Entry
  <2> QED BY <2>1 DEF ProcessFits, FreshFor, Undisturbing
<1>4. OwnedBy(q, t, a, k, EE)
  <2> SUFFICES ASSUME NEW e \in EE, e.by = q
               PROVE  e.name \in (k \cup GivenBy(t, a)) \ ForgottenBy(t, a)
    BY DEF OwnedBy
  <2>1. PICK f \in E : f.by = q /\ f.name = e.name
    BY DEF Undisturbing
  <2> QED BY <2>1 DEF ProcessFits, OwnedBy
<1> QED BY <1>1, <1>2, <1>3, <1>4 DEF ProcessFits

LEMMA NothingDisturbed ==
  ASSUME NEW q, NEW l, NEW o, NEW E
  PROVE  Undisturbing(q, l, o, E, o, E)
BY DEF Undisturbing

(* A step that changes the table.                                           *)
LEMMA TableStep ==
  ASSUME PInv, NEW p \in Processes, OthersStay(p), TypeOK', Ordered(map'), OrphansFit',
         listening'[p] \in {listening[p], NoPort},
         \A q \in Processes : q # p =>
           Undisturbing(q, listening[q], lost, Entries(map), lost', Entries(map')),
         ProcessFits(p, todo'[p], answer'[p], listening'[p], number'[p], known'[p],
                     lost', Entries(map'))
  PROVE  PInv'
<1>1. InOrder(map)'
  BY DEF Ordered, InOrder
<1>2. PortsApart'
  <2>1. \A q \in Processes : q # p => listening'[q] = listening[q]
    BY DEF OthersStay
  <2> QED BY <2>1 DEF PInv, PortsApart
<1>3. ProcessesFit'
  <2> SUFFICES ASSUME NEW q \in Processes
               PROVE  ProcessFits(q, todo'[q], answer'[q], listening'[q], number'[q],
                                  known'[q], lost', Entries(map'))
    BY DEF ProcessesFit
  <2>1. CASE q = p
    BY <2>1
  <2>2. CASE q # p
    <3>1. ProcessFits(q, todo[q], answer[q], listening[q], number[q], known[q],
                      lost, Entries(map))
      BY FitsIs
    <3>2. Undisturbing(q, listening[q], lost, Entries(map), lost', Entries(map'))
      BY <2>2
    <3>3. Entries(map') \subseteq Entry(Owners)
      BY EntriesAre
    <3>4. ProcessFits(q, todo[q], answer[q], listening[q], number[q], known[q],
                      lost', Entries(map'))
      BY <3>1, <3>2, <3>3, StillFits
    <3> QED BY <3>4, <2>2 DEF OthersStay
  <2> QED BY <2>1, <2>2
<1> QED BY <1>1, <1>2, <1>3 DEF PInv

(* Entries that change hands.                                               *)
Marked(m, S, mark) ==
  [i \in DOMAIN m |-> IF m[i] \in S THEN [m[i] EXCEPT !.by = mark] ELSE m[i]]

LEMMA MarkedIs ==
  ASSUME NEW m, Ordered(m), NEW S, NEW mark \in Owners
  PROVE  /\ Ordered(Marked(m, S, mark))
         /\ \A e \in Entries(Marked(m, S, mark)) : \E f \in Entries(m) :
              /\ e.name = f.name /\ e.port = f.port
              /\ IF f \in S THEN e.by = mark ELSE e = f
         /\ \A f \in Entries(m) : f \notin S => f \in Entries(Marked(m, S, mark))
<1> DEFINE r == Marked(m, S, mark)
           l == Len(m)
<1>1. /\ l \in Nat /\ DOMAIN m = 1 .. l
      /\ \A i \in 1 .. l : m[i] \in Entries(m) /\ m[i] \in Entry(Owners)
      /\ \A e : e \in Entries(m) <=> \E i \in 1 .. l : m[i] = e
  BY EntriesAre
<1>2. \A f \in Entry(Owners) :
        /\ [f EXCEPT !.by = mark] \in Entry(Owners)
        /\ [f EXCEPT !.by = mark].name = f.name
        /\ [f EXCEPT !.by = mark].port = f.port
        /\ [f EXCEPT !.by = mark].by = mark
  BY DEF Entry
<1>3. r = [i \in 1 .. l |-> IF m[i] \in S THEN [m[i] EXCEPT !.by = mark] ELSE m[i]]
  BY <1>1 DEF Marked
<1> HIDE DEF l, r
<1>4. \A i \in 1 .. l :
        /\ r[i] \in Entry(Owners) /\ r[i].name = m[i].name /\ r[i].port = m[i].port
        /\ IF m[i] \in S THEN r[i].by = mark ELSE r[i] = m[i]
  BY <1>1, <1>2, <1>3
<1>5. r \in Seq(Entry(Owners)) /\ Len(r) = l
  <2>1. DOMAIN r = 1 .. l
    BY <1>3
  <2> QED BY <1>1, <1>3, <1>4
<1>6. Ordered(r) /\ \A e : e \in Entries(r) <=> \E i \in 1 .. l : r[i] = e
  <2>1. Len(r) = Len(m) /\ \A i \in 1 .. Len(m) : r[i].name = m[i].name
    BY <1>4, <1>5 DEF l
  <2> QED BY <2>1, <1>5, RelabelIs DEF l
<1>7. ASSUME NEW e \in Entries(r)
      PROVE  \E f \in Entries(m) : /\ e.name = f.name /\ e.port = f.port
                                   /\ IF f \in S THEN e.by = mark ELSE e = f
  <2>1. PICK i \in 1 .. l : r[i] = e
    BY <1>6
  <2> QED BY <2>1, <1>1, <1>4
<1>8. ASSUME NEW f \in Entries(m), f \notin S PROVE f \in Entries(r)
  <2>1. PICK i \in 1 .. l : m[i] = f
    BY <1>1
  <2> QED BY <2>1, <1>4, <1>6, <1>8
<1> QED BY <1>6, <1>7, <1>8 DEF r

LEMMA OwnersAre ==
  /\ Processes \subseteq Owners /\ "gone" \in Owners /\ "late" \in Owners
  /\ \A p \in Processes : p # "gone" /\ p # "late"
BY ProcessesAssumption DEF Owners

(* The entries of one process that change hands are none of another's.      *)
LEMMA MarkedDisturbsNone ==
  ASSUME PInv, NEW p \in Processes, NEW q \in Processes, q # p, NEW S,
         S \subseteq {e \in Entries(map) : e.by = p}, NEW mark \in {"gone", "late"},
         NEW oo, \A n : <<q, n>> \in lost => <<q, n>> \in oo
  PROVE  Undisturbing(q, listening[q], lost, Entries(map), oo, Entries(Marked(map, S, mark)))
<1> DEFINE E == Entries(map)
           EE == Entries(Marked(map, S, mark))
<1>1. /\ \A e \in EE : \E f \in E : /\ e.name = f.name /\ e.port = f.port
                                    /\ IF f \in S THEN e.by = mark ELSE e = f
      /\ \A f \in E : f \notin S => f \in EE
  BY FitsIs, OwnersAre, MarkedIs
<1>2. \A e \in S : e \in E /\ e.by = p
  OBVIOUS
<1> HIDE DEF E, EE
<1>3. p # "late" /\ p # "gone" /\ q # "late" /\ q # "gone"
  BY OwnersAre
<1>4. \A n : [name |-> n, port |-> listening[q], by |-> q] \notin S
  BY <1>2
<1>5. ASSUME NEW e \in EE
      PROVE  \E f \in E : /\ e.name = f.name /\ e.port = f.port
                          /\ (f.by = p /\ e.by = mark) \/ e = f
  BY <1>1, <1>2
<1>6. ASSUME NEW e \in EE
      PROVE  e.by \in {q, "late"} \/ \E f \in E : f.port = e.port /\ f.by \notin {q, "late"}
  BY <1>3, <1>5
<1>7. ASSUME NEW e \in EE, e.by = q PROVE \E f \in E : f.by = q /\ f.name = e.name
  BY <1>3, <1>5, <1>7
<1>8. Undisturbing(q, listening[q], lost, E, oo, EE)
  BY <1>1, <1>4, <1>6, <1>7 DEF Undisturbing
<1> QED BY <1>8 DEF E, EE

(* What a request asks for.                                                 *)
LEMMA RequestIs ==
  ASSUME PInv, NEW p \in Processes, Asks(p), NEW r, r = RequestFor(p),
         NEW t, t = todo[p]
  PROVE  /\ r \in Requests /\ t \in Todos /\ t # <<>>
         /\ r.op # "unregisterPort" => r.name \in Names
         /\ r.op = "register" => r.port \in Ports
         /\ OnStep(t, "clean") => /\ r.op = "unregisterPort" /\ r.port = number[p]
                                  /\ number[p] # NoPort /\ listening[p] = number[p]
         /\ OnStep(t, "register") => /\ r.op = "register" /\ r.name = Head(t).name
                                     /\ r.port = number[p] /\ listening[p] = number[p]
         /\ OnStep(t, "forget") => r.op = "unregisterName" /\ r.name = Head(t).name
         /\ OnStep(t, "lookup") => r.op = "lookup" /\ r.name = Head(t).name
         /\ \/ OnStep(t, "clean") \/ OnStep(t, "register") \/ OnStep(t, "forget")
            \/ OnStep(t, "lookup")
<1>1. /\ t \in Todos /\ AsksBy(t, known[p]) /\ known[p] \subseteq Names
      /\ listening[p] = IF t \in Removing THEN NoPort ELSE number[p]
      /\ number[p] = NoPort => t \in Plain
      /\ number[p] \in Answers
  BY FitsIs
<1>2. /\ t # <<>>
      /\ \/ OnStep(t, "clean") \/ OnStep(t, "register")
         \/ (OnStep(t, "forget") /\ Head(t).name \in known[p]) \/ OnStep(t, "lookup")
      /\ \A d : OnStep(t, d) <=> Head(t).do = d
  BY <1>1 DEF AsksBy, OnStep
<1>3. r = CASE Head(t).do = "clean" -> Request("unregisterPort", NoName, number[p])
            [] Head(t).do = "register" -> Request("register", Head(t).name, number[p])
            [] Head(t).do = "forget" -> Request("unregisterName", Head(t).name, NoPort)
            [] Head(t).do = "lookup" -> Request("lookup", Head(t).name, NoPort)
  BY DEF RequestFor
<1>4. \A o, n, x : /\ Request(o, n, x).op = o /\ Request(o, n, x).name = n
                   /\ Request(o, n, x).port = x
  BY DEF Request
<1>5. \A o \in {"register", "lookup", "unregisterName", "unregisterPort"},
         n \in Names \cup {NoName}, x \in Answers : Request(o, n, x) \in Requests
  BY DEF Request, Requests, NoPortOr, Answers
<1>6. NoPort \in Answers
  BY DEF Answers
<1>7. CASE OnStep(t, "clean")
  <2>1. r = Request("unregisterPort", NoName, number[p])
    BY <1>2, <1>3, <1>7
  <2>2. number[p] # NoPort /\ t \notin Removing
    BY <1>1, <1>7, ShapeIs
  <2> QED BY <2>1, <2>2, <1>1, <1>2, <1>4, <1>5, <1>7
<1>8. CASE OnStep(t, "register")
  <2>1. r = Request("register", Head(t).name, number[p])
    BY <1>2, <1>3, <1>8
  <2>2. Head(t).name \in Names /\ number[p] # NoPort /\ t \notin Removing
    BY <1>1, <1>8, ShapeIs
  <2>3. number[p] \in Ports
    BY <2>2, <1>1 DEF Answers
  <2> QED BY <2>1, <2>2, <2>3, <1>1, <1>2, <1>4, <1>5, <1>8
<1>9. CASE OnStep(t, "forget")
  <2>1. r = Request("unregisterName", Head(t).name, NoPort)
    BY <1>2, <1>3, <1>9
  <2>2. Head(t).name \in Names
    BY <1>1, <1>2, <1>9
  <2> QED BY <2>1, <2>2, <1>1, <1>2, <1>4, <1>5, <1>6, <1>9
<1>10. CASE OnStep(t, "lookup")
  <2>1. r = Request("lookup", Head(t).name, NoPort)
    BY <1>2, <1>3, <1>10
  <2>2. Head(t).name \in Names
    BY <1>1, <1>10, ShapeIs
  <2> QED BY <2>1, <2>2, <1>1, <1>2, <1>4, <1>5, <1>6, <1>10
<1> QED BY <1>2, <1>7, <1>8, <1>9, <1>10

LEMMA FaultTyped ==
  ASSUME PInv, Fault
  PROVE  faults' \in 0 .. MaxFaults
<1>1. faults \in 0 .. MaxFaults /\ faults < MaxFaults /\ faults' = faults + 1
  BY TypesAre DEF Fault
<1> QED BY <1>1, MaxFaultsAssumption

(* What a process asked goes on without it.                                 *)
LEMMA UnansweredIs ==
  ASSUME PInv, NEW p \in Processes, orphans' = orphans \cup Unanswered(p)
  PROVE  OrphansFit' /\ orphans' \subseteq Requests
<1>1. \A r \in Unanswered(p) : Asks(p) /\ r = RequestFor(p)
  BY DEF Unanswered, Asked
<1>2. \A r \in Unanswered(p) : /\ r \in Requests
                               /\ r.op # "unregisterPort" => r.name \in Names
                               /\ r.op = "register" => r.port \in Ports
  BY <1>1, RequestIs
<1>3. OrphansFit /\ orphans \subseteq Requests
  BY TypesAre DEF PInv
<1> QED BY <1>2, <1>3 DEF OrphansFit

(* What is left of a call whose request has no answer.                      *)
LEMMA FailedIs ==
  ASSUME PInv, NEW p \in Processes, Asks(p), NEW t, t = todo[p], todo' = Failed(p)
  PROVE  /\ todo'[p] \in Todos /\ todo' \in [Processes -> Seq(Steps)]
         /\ \A q \in Processes : q # p => todo'[q] = todo[q]
         /\ listening[p] = IF todo'[p] \in Removing THEN NoPort ELSE number[p]
         /\ number[p] = NoPort => todo'[p] \in Plain /\ known[p] = {}
         /\ ~ OnStep(todo'[p], "clean") /\ ~ OnStep(todo'[p], "register")
<1>1. t \in Todos /\ AsksBy(t, known[p])
  BY FitsIs
<1>2. t # <<>>
  BY <1>1 DEF AsksBy, OnStep
<1>3. CASE OnStep(t, "forget")
  <2>1. todo' = Then(p, <<>>)
    BY <1>3, FitsIs DEF Failed
  <2>2. /\ todo'[p] = Tail(t) /\ Tail(t) \in Todos
        /\ \A q \in Processes : q # p => todo'[q] = todo[q]
        /\ todo' \in [Processes -> Seq(Steps)]
    BY <2>1, <1>1, <1>2, <1>3, ThenIs, TailIsTyped, RestIs
  <2>3. t \notin Plain
    BY <1>1, <1>3, ShapeIs
  <2>4. number[p] # NoPort /\ listening[p] = IF t \in Removing THEN NoPort ELSE number[p]
    BY <2>3, FitsIs
  <2>5. /\ Tail(t) \in Removing <=> t \in Removing
        /\ ~ OnStep(Tail(t), "clean") /\ ~ OnStep(Tail(t), "register")
    BY <1>1, <1>3, RestIs
  <2> QED BY <2>2, <2>4, <2>5
<1>4. CASE ~ OnStep(t, "forget")
  <2>1. todo' = [todo EXCEPT ![p] = <<>>]
    BY <1>4, FitsIs DEF Failed
  <2>2. /\ todo'[p] = <<>> /\ todo' \in [Processes -> Seq(Steps)]
        /\ \A q \in Processes : q # p => todo'[q] = todo[q]
    BY <2>1, TypesAre
  <2>3. t \notin Removing
    BY <1>1, <1>4, ShapeIs DEF AsksBy
  <2>4. listening[p] = number[p] /\ (number[p] = NoPort => known[p] = {})
    BY <2>3, FitsIs
  <2> QED BY <2>2, <2>4, NoStepIs
<1> QED BY <1>3, <1>4

LEMMA GiveUpKeeps ==
  ASSUME PInv, NEW p \in Processes, GiveUp(p)
  PROVE  PInv'
<1> DEFINE t == todo[p]
           a == answer[p]
           k == known[p]
           l == listening[p]
           E == Entries(map)
           S == {e \in E : /\ a # None /\ OnStep(t, "register") /\ e.by = p
                           /\ e.name = Head(t).name /\ e.name \notin k}
           EE == Entries(map')
<1>1. /\ Fault /\ Asks(p) /\ a # Lost /\ todo' = Failed(p)
      /\ orphans' = orphans \cup Unanswered(p)
      /\ answer' = [answer EXCEPT ![p] = None]
      /\ lost' = IF a # None /\ OnStep(t, "forget")
                 THEN lost \cup {<<p, Head(t).name>>} ELSE lost
      /\ UNCHANGED <<listening, number, known, registered>>
  BY FitsIs DEF GiveUp
<1>2. \A i \in DOMAIN map : map[i] \in E
  BY DEF Entries
<1>3. map' = Marked(map, S, "late")
  <2>1. map' = [i \in DOMAIN map |->
          IF a # None /\ OnStep(t, "register") /\ map[i].by = p
               /\ map[i].name = Head(t).name /\ map[i].name \notin k
          THEN [map[i] EXCEPT !.by = "late"] ELSE map[i]]
    BY FitsIs DEF GiveUp
  <2>2. \A i \in DOMAIN map : map[i] \in S <=>
          (a # None /\ OnStep(t, "register") /\ map[i].by = p
               /\ map[i].name = Head(t).name /\ map[i].name \notin k)
    BY <1>2
  <2> HIDE DEF S
  <2> QED BY <2>1, <2>2 DEF Marked
<1>4. "late" \in Owners /\ p # "late"
  BY OwnersAre
<1>5. Ordered(map)
  BY FitsIs
<1> HIDE DEF S
<1>6. /\ Ordered(map')
      /\ \A e \in EE : \E f \in E : /\ e.name = f.name /\ e.port = f.port
                                    /\ IF f \in S THEN e.by = "late" ELSE e = f
      /\ \A f \in E : f \notin S => f \in EE
  BY <1>3, <1>4, <1>5, MarkedIs
<1>7. \A e : e \in S <=> e \in E /\ a # None /\ OnStep(t, "register") /\ e.by = p
                         /\ e.name = Head(t).name /\ e.name \notin k
  BY DEF S
<1>8. \A x : x \in lost => x \in lost'
  BY <1>1
<1>9. \A q \in Processes : q # p => Undisturbing(q, listening[q], lost, E, lost', EE)
  <2> SUFFICES ASSUME NEW q \in Processes, q # p
               PROVE  Undisturbing(q, listening[q], lost, E, lost', EE)
    OBVIOUS
  <2>1. S \subseteq {e \in E : e.by = p}
    BY <1>7
  <2> QED BY <2>1, <1>3, <1>8, MarkedDisturbsNone
<1>10. /\ todo'[p] \in Todos /\ todo' \in [Processes -> Seq(Steps)]
       /\ \A q \in Processes : q # p => todo'[q] = todo[q]
       /\ l = IF todo'[p] \in Removing THEN NoPort ELSE number[p]
       /\ number[p] = NoPort => todo'[p] \in Plain /\ k = {}
       /\ ~ OnStep(todo'[p], "clean") /\ ~ OnStep(todo'[p], "register")
  BY <1>1, FailedIs
<1>11. ProcessFits(p, t, a, l, number[p], k, lost, E)
  BY FitsIs
<1>12. a = None \/ a \in Answers
  BY <1>1, TypesAre
<1>13. l # NoPort => \A n \in k :
         <<p, n>> \in lost' \/ [name |-> n, port |-> l, by |-> p] \in EE
  <2> SUFFICES ASSUME l # NoPort, NEW n \in k
               PROVE  <<p, n>> \in lost' \/ [name |-> n, port |-> l, by |-> p] \in EE
    OBVIOUS
  <2>1. CASE n \in ForgottenBy(t, a)
    <3>1. OnStep(t, "forget") /\ a # None /\ n = Head(t).name
      BY <2>1 DEF ForgottenBy
    <3> QED BY <3>1, <1>1
  <2>2. CASE n \notin ForgottenBy(t, a)
    <3>1. <<p, n>> \in lost \/ [name |-> n, port |-> l, by |-> p] \in E
      BY <2>2, <1>11 DEF ProcessFits, HeldBy
    <3>2. [name |-> n, port |-> l, by |-> p] \notin S
      BY <1>7
    <3> QED BY <3>1, <3>2, <1>6, <1>8
  <2> QED BY <2>1, <2>2
<1>14. k # {} => \A e \in EE : e.port = l => e.by \in {p, "late"}
  BY <1>6, <1>11 DEF ProcessFits, FreshFor, CleanBy
<1>15. \A e \in EE : e.by = p => e.name \in k
  <2> SUFFICES ASSUME NEW e \in EE, e.by = p, e.name \notin k PROVE FALSE
    OBVIOUS
  <2>1. e \in E /\ e \notin S
    BY <1>4, <1>6
  <2>2. e.name \in GivenBy(t, a)
    BY <2>1, <1>11 DEF ProcessFits, OwnedBy
  <2>3. OnStep(t, "register") /\ a \in Ports /\ e.name = Head(t).name
    BY <2>2 DEF GivenBy
  <2>4. a # None
    BY <2>3, NoneAnswers DEF Answers
  <2> QED BY <2>1, <2>3, <2>4, <1>7
<1>16. ProcessFits(p, todo'[p], None, l, number[p], k, lost', EE)
  BY <1>10, <1>13, <1>14, <1>15, QuietIs
<1>17. OthersStay(p) /\ answer'[p] = None /\ known'[p] = k
       /\ number'[p] = number[p] /\ listening'[p] = l
  BY <1>1, <1>10, TypesAre DEF OthersStay
<1>18. OrphansFit' /\ orphans' \subseteq Requests
  BY <1>1, UnansweredIs
<1>19. lost' \subseteq Processes \X Names
  <2>1. OnStep(t, "forget") => Head(t).name \in Names
    <3>1. AsksBy(t, k) /\ k \subseteq Names
      BY <1>1, FitsIs
    <3> QED BY <3>1 DEF AsksBy, OnStep
  <2> QED BY <2>1, <1>1, TypesAre
<1>20. TypeOK'
  <2>1. map' \in Tables
    BY <1>6 DEF Ordered
  <2>2. answer' \in [Processes -> Answers \cup {None, Lost}]
    BY <1>1, TypesAre
  <2>3. faults' \in 0 .. MaxFaults
    BY <1>1, FaultTyped
  <2> QED BY <2>1, <2>2, <2>3, <1>1, <1>10, <1>18, <1>19, TypesAre, TypeOKIs
<1> QED BY <1>6, <1>9, <1>16, <1>17, <1>18, <1>20, TableStep

LEMMA CrashKeeps ==
  ASSUME PInv, NEW p \in Processes, Crash(p)
  PROVE  PInv'
<1> DEFINE E == Entries(map)
           S == {e \in E : e.by = p}
           EE == Entries(map')
<1>1. /\ Fault
      /\ listening' = [listening EXCEPT ![p] = NoPort]
      /\ number' = [number EXCEPT ![p] = NoPort]
      /\ known' = [known EXCEPT ![p] = {}]
      /\ registered' = [registered EXCEPT ![p] = NoName]
      /\ todo' = [todo EXCEPT ![p] = <<>>]
      /\ orphans' = orphans \cup Unanswered(p)
      /\ answer' = [answer EXCEPT ![p] = None]
      /\ lost' = {x \in lost : x[1] # p}
  BY DEF Crash
<1>2. map' = Marked(map, S, "gone")
  <2>1. map' = [i \in DOMAIN map |->
          IF map[i].by = p THEN [map[i] EXCEPT !.by = "gone"] ELSE map[i]]
    BY DEF Crash, Disowned
  <2>2. \A i \in DOMAIN map : map[i] \in S <=> map[i].by = p
    BY DEF Entries
  <2> HIDE DEF S
  <2> QED BY <2>1, <2>2 DEF Marked
<1>3. "gone" \in Owners /\ p # "gone"
  BY OwnersAre
<1>4. Ordered(map) /\ S \subseteq {e \in E : e.by = p} /\ \A e \in E : e.by = p => e \in S
  BY FitsIs
<1> HIDE DEF S
<1>5. /\ Ordered(map')
      /\ \A e \in EE : \E f \in E : /\ e.name = f.name /\ e.port = f.port
                                    /\ IF f \in S THEN e.by = "gone" ELSE e = f
  BY <1>2, <1>3, <1>4, MarkedIs
<1>6. \A q \in Processes : q # p => Undisturbing(q, listening[q], lost, E, lost', EE)
  <2> SUFFICES ASSUME NEW q \in Processes, q # p
               PROVE  Undisturbing(q, listening[q], lost, E, lost', EE)
    OBVIOUS
  <2>1. \A n : <<q, n>> \in lost => <<q, n>> \in lost'
    BY <1>1
  <2> QED BY <2>1, <1>2, <1>4, MarkedDisturbsNone
<1>7. \A e \in EE : e.by # p
  BY <1>3, <1>4, <1>5
<1>8. ProcessFits(p, <<>>, None, NoPort, NoPort, {}, lost', EE)
  BY <1>7, NoStepIs, QuietIs
<1>9. NoPort \in Answers /\ NoName \in AnyName /\ <<>> \in Seq(Steps)
  BY DEF Answers, AnyName
<1>10. OthersStay(p) /\ answer'[p] = None /\ known'[p] = {} /\ todo'[p] = <<>>
       /\ number'[p] = NoPort /\ listening'[p] = NoPort
  BY <1>1, TypesAre DEF OthersStay
<1>11. OrphansFit' /\ orphans' \subseteq Requests
  BY <1>1, UnansweredIs
<1>12. TypeOK'
  <2>1. map' \in Tables /\ lost' \subseteq Processes \X Names
    BY <1>1, <1>5, TypesAre DEF Ordered
  <2>2. answer' \in [Processes -> Answers \cup {None, Lost}]
        /\ registered' \in [Processes -> AnyName] /\ todo' \in [Processes -> Seq(Steps)]
    BY <1>1, <1>9, TypesAre
  <2>3. known' \in [Processes -> SUBSET Names] /\ number' \in [Processes -> Answers]
        /\ listening' \in [Processes -> Answers]
    BY <1>1, <1>9, TypesAre
  <2>4. faults' \in 0 .. MaxFaults
    BY <1>1, FaultTyped
  <2> QED BY <2>1, <2>2, <2>3, <2>4, <1>11, TypeOKIs
<1> QED BY <1>5, <1>6, <1>8, <1>10, <1>11, <1>12, TableStep

--------------------------------------------------------------------------
(* The steps of gdomap.                                                     *)
LEMMA HandledIs ==
  ASSUME NEW r, NEW by
  PROVE  /\ r.op = "register" => Handled(r, by) = Register(map, r.name, r.port, by, Used)
         /\ r.op = "lookup" => Handled(r, by) = Lookup(map, r.name, Used)
         /\ r.op = "unregisterName" => Handled(r, by) = UnregisterName(map, r.name)
         /\ r.op = "unregisterPort" => Handled(r, by) = UnregisterPort(map, r.port)
BY DEF Handled

(* A request disturbs no process but the one that asked; the names it takes *)
(* from others count as lost.                                               *)
LEMMA RequestDisturbsNone ==
  ASSUME PInv, NEW by \in Processes \cup {"late"}, NEW r \in Requests,
         r.op # "unregisterPort" => r.name \in Names,
         r.op = "register" => r.port \in Ports,
         by \in Processes /\ r.op = "register" => r.port = listening[by],
         NEW res, res = Handled(r, by), NEW EE, EE = Entries(res.map),
         NEW q \in Processes, q # by,
         NEW oo, \A n : <<q, n>> \in lost => <<q, n>> \in oo,
         Taken(r, by, res.map) \subseteq oo
  PROVE  Undisturbing(q, listening[q], lost, Entries(map), oo, EE)
<1> DEFINE E == Entries(map)
           l == listening[q]
<1>1. Ordered(map) /\ by \in Owners /\ q # "late"
  BY FitsIs, OwnersAre
<1>2. l # NoPort => l \in Used
  BY DEF Used
<1>3. E \subseteq Entry(Owners)
  BY <1>1, EntriesAre
<1> HIDE DEF E, l
<1>4. SUFFICES /\ l # NoPort => \A n : [name |-> n, port |-> l, by |-> q] \in E =>
                    <<q, n>> \in oo \/ [name |-> n, port |-> l, by |-> q] \in EE
               /\ l # NoPort => \A e \in EE : e.port = l =>
                    e.by \in {q, "late"} \/ \E f \in E : f.port = l /\ f.by \notin {q, "late"}
               /\ \A e \in EE : e.by = q => \E f \in E : f.by = q /\ f.name = e.name
  BY DEF Undisturbing, E, l
<1>5. CASE r.op \in {"unregisterName", "unregisterPort"}
  <2>1. EE \subseteq E
    <3>1. CASE r.op = "unregisterName"
      <4>1. r.name \in Names /\ res = UnregisterName(map, r.name)
        BY <3>1, HandledIs
      <4> QED BY <4>1, <1>1, UnregisterNameIs DEF E
    <3>2. CASE r.op = "unregisterPort"
      <4>1. r.port \in Answers
        BY DEF Requests, NoPortOr, Answers
      <4>2. res = UnregisterPort(map, r.port)
        BY <3>2, HandledIs
      <4> QED BY <4>1, <4>2, <1>1, UnregisterPortIs DEF E
    <3> QED BY <3>1, <3>2, <1>5
  <2>2. \A e \in E : e.by = q => e \in EE \/ <<q, e.name>> \in oo
    <3> SUFFICES ASSUME NEW e \in E, e.by = q, e \notin EE PROVE <<q, e.name>> \in oo
      OBVIOUS
    <3>1. <<e.by, e.name>> \in Taken(r, by, res.map)
      BY <1>5 DEF Taken, E
    <3> QED BY <3>1
  <2>3. \A n : [name |-> n, port |-> l, by |-> q].by = q /\ [name |-> n, port |-> l, by |-> q].name = n
    OBVIOUS
  <2> QED BY <2>1, <2>2, <2>3
<1>6. CASE r.op = "lookup"
  <2>1. r.name \in Names /\ res = Lookup(map, r.name, Used)
    BY <1>6, HandledIs
  <2>2. EE \subseteq E /\ \A e \in E : e.port \in Used => e \in EE
    BY <2>1, <1>1, LookupIs DEF E
  <2>3. \A n : [name |-> n, port |-> l, by |-> q].port = l
    OBVIOUS
  <2> QED BY <2>2, <2>3, <1>2
<1>7. CASE r.op = "register"
  <2>1. r.name \in Names /\ r.port \in Ports /\ res = Register(map, r.name, r.port, by, Used)
    BY <1>7, HandledIs
  <2>2. /\ res.answer \in {r.port, NoPort}
        /\ res.answer = NoPort => res.map = map
        /\ res.answer = r.port => \E e \in Entry(Owners) :
             /\ e.name = r.name /\ e.port = r.port
             /\ \/ e.by = by
                \/ /\ by = "late"
                   /\ \E f \in E : f.name = r.name /\ f.port = r.port /\ e.by = f.by
             /\ by = "late" => \A f \in E : f.name = r.name /\ f.port = r.port => e.by = f.by
             /\ EE = {x \in E : x.name # r.name} \cup {e}
             /\ \A f \in E : f.name = r.name => f.port = r.port \/ f.port \notin Used
    BY <2>1, <1>1, RegisterIs DEF E
  <2>3. CASE res.answer = NoPort
    <3>1. EE = E
      BY <2>2, <2>3 DEF E
    <3> QED BY <3>1
  <2>4. CASE res.answer = r.port
    <3>1. PICK e \in Entry(Owners) :
            /\ e.name = r.name /\ e.port = r.port
            /\ \/ e.by = by
               \/ /\ by = "late"
                  /\ \E f \in E : f.name = r.name /\ f.port = r.port /\ e.by = f.by
            /\ by = "late" => \A f \in E : f.name = r.name /\ f.port = r.port => e.by = f.by
            /\ EE = {x \in E : x.name # r.name} \cup {e}
            /\ \A f \in E : f.name = r.name => f.port = r.port \/ f.port \notin Used
      BY <2>2, <2>4
    <3>2. by # "late" => e.by = by /\ (l # NoPort => l # r.port)
      <4>1. by # "late" => by \in Processes /\ r.port = listening[by]
        BY <1>7
      <4> QED BY <4>1, <3>1 DEF PInv, PortsApart, l
    <3>3. e = [name |-> r.name, port |-> r.port, by |-> e.by]
      BY <3>1 DEF Entry
    <3>4. ASSUME l # NoPort, NEW n, [name |-> n, port |-> l, by |-> q] \in E
          PROVE  [name |-> n, port |-> l, by |-> q] \in EE
      <4> DEFINE f == [name |-> n, port |-> l, by |-> q]
      <4>1. f.name = n /\ f.port = l /\ f.by = q /\ f \in E
        BY <3>4
      <4>2. CASE n # r.name
        BY <4>1, <4>2, <3>1
      <4>3. CASE n = r.name
        <5>1. l = r.port
          BY <4>1, <4>3, <3>1, <3>4, <1>2
        <5>2. by = "late"
          BY <5>1, <3>2, <3>4
        <5>3. e.by = q
          BY <4>1, <4>3, <5>1, <5>2, <3>1
        <5> QED BY <5>1, <5>3, <4>3, <3>1, <3>3
      <4> QED BY <4>2, <4>3
    <3>5. ASSUME l # NoPort, NEW d \in EE, d.port = l
          PROVE  d.by \in {q, "late"} \/ \E f \in E : f.port = l /\ f.by \notin {q, "late"}
      <4>1. CASE d \in E
        BY <4>1, <3>5
      <4>2. CASE d = e
        BY <4>2, <3>1, <3>2, <3>5
      <4> QED BY <4>1, <4>2, <3>1
    <3>6. ASSUME NEW d \in EE, d.by = q PROVE \E f \in E : f.by = q /\ f.name = d.name
      <4>1. CASE d \in E
        BY <4>1, <3>6
      <4>2. CASE d = e
        BY <4>2, <3>1, <3>6, <1>1
      <4> QED BY <4>1, <4>2, <3>1
    <3> QED BY <3>4, <3>5, <3>6
  <2> QED BY <2>2, <2>3, <2>4
<1>8. r.op \in {"register", "lookup", "unregisterName", "unregisterPort"}
  BY DEF Requests
<1> QED BY <1>5, <1>6, <1>7, <1>8

LEMMA HandledOrdered ==
  ASSUME PInv, NEW by \in Owners, NEW r \in Requests,
         r.op # "unregisterPort" => r.name \in Names,
         r.op = "register" => r.port \in Ports,
         NEW res, res = Handled(r, by)
  PROVE  Ordered(res.map) /\ res.answer \in Answers
<1>1. Ordered(map)
  BY TypesAre DEF Ordered
<1>2. CASE r.op = "register"
  BY <1>1, <1>2, HandledIs, RegisterIs DEF Answers
<1>3. CASE r.op = "lookup"
  BY <1>1, <1>3, HandledIs, LookupIs
<1>4. CASE r.op = "unregisterName"
  BY <1>1, <1>4, HandledIs, UnregisterNameIs
<1>5. CASE r.op = "unregisterPort"
  <2>1. r.port \in Answers
    BY DEF Requests, NoPortOr, Answers
  <2> QED BY <2>1, <1>1, <1>5, HandledIs, UnregisterPortIs
<1>6. r.op \in {"register", "lookup", "unregisterName", "unregisterPort"}
  BY DEF Requests
<1> QED BY <1>2, <1>3, <1>4, <1>5, <1>6

LEMMA TakenTyped ==
  ASSUME PInv, NEW r, NEW by, NEW after
  PROVE  Taken(r, by, after) \subseteq Processes \X Names
<1>0. Ordered(map)
  BY TypesAre DEF Ordered
<1>1. \A e \in Entries(map) : e.name \in Names
  BY <1>0, EntriesAre DEF Entry
<1> QED BY <1>1 DEF Taken

LEMMA ServeKeeps ==
  ASSUME PInv, NEW p \in Processes, Serve(p)
  PROVE  PInv'
<1> DEFINE t == todo[p]
           k == known[p]
           l == listening[p]
           u == number[p]
           n == Head(t).name
           r == RequestFor(p)
           res == Handled(r, p)
           E == Entries(map)
           EE == Entries(res.map)
<1>1. /\ Asks(p) /\ answer[p] = None
      /\ map' = res.map
      /\ answer' = [answer EXCEPT ![p] = res.answer]
      /\ lost' = (lost \ {<<p, e.name>> : e \in EE \ E}) \cup Taken(r, p, res.map)
      /\ UNCHANGED <<clientVars, orphans, faults>>
  BY DEF Serve, Asked
<1>2. UNCHANGED <<listening, number, known, registered, todo>>
  BY <1>1 DEF clientVars
<1>3. /\ r \in Requests /\ t \in Todos /\ t # <<>>
      /\ r.op # "unregisterPort" => r.name \in Names
      /\ r.op = "register" => r.port \in Ports
      /\ OnStep(t, "clean") => /\ r.op = "unregisterPort" /\ r.port = u /\ u # NoPort /\ l = u
      /\ OnStep(t, "register") => r.op = "register" /\ r.name = n /\ r.port = u /\ l = u
      /\ OnStep(t, "forget") => r.op = "unregisterName" /\ r.name = n
      /\ OnStep(t, "lookup") => r.op = "lookup" /\ r.name = n
      /\ \/ OnStep(t, "clean") \/ OnStep(t, "register") \/ OnStep(t, "forget")
         \/ OnStep(t, "lookup")
  BY <1>1, RequestIs
<1>4. p \in Owners /\ p # "late" /\ Ordered(map) /\ u \in Answers /\ l \in Answers
  BY OwnersAre, FitsIs
<1>5. Ordered(res.map) /\ res.answer \in Answers
  BY <1>3, <1>4, HandledOrdered
<1>6. res.answer \notin {None, Lost}
  BY <1>5, NoneAnswers
<1>7. \A q \in Processes : q # p => Undisturbing(q, listening[q], lost, E, lost', EE)
  <2> SUFFICES ASSUME NEW q \in Processes, q # p
               PROVE  Undisturbing(q, listening[q], lost, E, lost', EE)
    OBVIOUS
  <2>1. \A x : <<q, x>> \in lost => <<q, x>> \in lost'
    BY <1>1
  <2>2. Taken(r, p, res.map) \subseteq lost'
    BY <1>1
  <2>3. r.op = "register" => r.port = listening[p]
    BY <1>3 DEF OnStep
  <2> HIDE DEF r, res, t
  <2>4. res = Handled(r, p)
    BY DEF res
  <2> QED BY <2>1, <2>2, <2>3, <2>4, <1>3, RequestDisturbsNone
<1>8. /\ AsksBy(t, k) /\ CallFits(t, None, l, u, k)
      /\ l # NoPort => \A x \in k :
           <<p, x>> \in lost \/ [name |-> x, port |-> l, by |-> p] \in E
      /\ k # {} \/ OnStep(t, "register") => \A e \in E : e.port = l => e.by \in {p, "late"}
      /\ \A e \in E : e.by = p => e.name \in k
      /\ OnStep(t, "clean") => k = {}
  <2>1. ProcessFits(p, t, None, l, u, k, lost, E)
    BY <1>1, FitsIs
  <2> QED BY <2>1, <1>1, FitsIs, QuietIs DEF ProcessFits
<1>9. \A x : <<p, x>> \in lost => <<p, x>> \in lost' \/ \E e \in EE \ E : e.name = x
  BY <1>1
<1>10. E \subseteq Entry(Owners)
  BY <1>4, EntriesAre
<1>11. l # NoPort => l \in Used
  BY DEF Used
<1>12. \A d : OnStep(t, d) <=> Head(t).do = d
  BY <1>3 DEF OnStep
<1>13. /\ OnStep(t, "register") => res = Register(map, r.name, r.port, p, Used)
       /\ OnStep(t, "lookup") => res = Lookup(map, r.name, Used)
       /\ OnStep(t, "forget") => res = UnregisterName(map, r.name)
       /\ OnStep(t, "clean") => res = UnregisterPort(map, r.port)
  BY <1>3, HandledIs
<1>14. \A e \in EE : e \in Entry(Owners)
  BY <1>5, EntriesAre
<1> DEFINE a == res.answer
<1>15. CallFits(t, a, l, u, k)
  BY <1>8 DEF CallFits
<1>16. \A x : /\ [name |-> x, port |-> l, by |-> p].name = x
              /\ [name |-> x, port |-> l, by |-> p].port = l
              /\ [name |-> x, port |-> l, by |-> p].by = p
  OBVIOUS
<1> HIDE DEF res, r, t, a, E, EE, k, l, u, n
<1>18. ProcessFits(p, t, a, l, u, k, lost', EE)
  <2>1. SUFFICES HeldBy(p, t, a, l, k, lost', EE) /\ FreshFor(p, t, a, l, k, EE)
                 /\ OwnedBy(p, t, a, k, EE)
    BY <1>15 DEF ProcessFits
  <2>2. CASE OnStep(t, "clean")
    <3>1. EE = {e \in E : e.port # u} /\ l = u
      BY <1>3, <1>4, <1>13, <2>2, UnregisterPortIs DEF E, EE
    <3>2. GivenBy(t, a) = {} /\ ForgottenBy(t, a) = {} /\ k = {}
      BY <1>8, <1>12, <2>2 DEF GivenBy, ForgottenBy
    <3> QED BY <3>1, <3>2, <1>8 DEF HeldBy, FreshFor, OwnedBy
  <2>3. CASE OnStep(t, "lookup")
    <3>1. EE \subseteq E /\ \A e \in E : e.port \in Used => e \in EE
      BY <1>3, <1>4, <1>12, <1>13, <2>3, LookupIs DEF E, EE
    <3>2. GivenBy(t, a) = {} /\ ForgottenBy(t, a) = {} /\ (CleanBy(t, a, k) <=> k # {})
      BY <1>12, <2>3 DEF GivenBy, ForgottenBy, CleanBy
    <3>3. HeldBy(p, t, a, l, k, lost', EE)
      BY <3>1, <3>2, <1>8, <1>9, <1>11, <1>16 DEF HeldBy
    <3> QED BY <3>1, <3>2, <3>3, <1>8 DEF FreshFor, OwnedBy
  <2>4. CASE OnStep(t, "forget")
    <3>1. EE = {e \in E : e.name # n}
      BY <1>3, <1>4, <1>12, <1>13, <2>4, UnregisterNameIs DEF E, EE
    <3>2. GivenBy(t, a) = {} /\ ForgottenBy(t, a) = {n} /\ (CleanBy(t, a, k) <=> k # {})
      BY <1>6, <1>12, <2>4 DEF GivenBy, ForgottenBy, CleanBy, a, n
    <3>3. HeldBy(p, t, a, l, k, lost', EE)
      BY <3>1, <3>2, <1>8, <1>9, <1>16 DEF HeldBy
    <3> QED BY <3>1, <3>2, <3>3, <1>8 DEF FreshFor, OwnedBy
  <2>5. CASE OnStep(t, "register")
    <3>1. n \in Names /\ u \in Ports /\ l = u
      BY <1>3, <1>12, <2>5
    <3>2. res = Register(map, n, u, p, Used)
      BY <1>3, <1>13, <2>5
    <3>3. /\ a \in {u, NoPort} /\ (a = NoPort => res.map = map)
          /\ a = u => \E e \in Entry(Owners) :
               /\ e.name = n /\ e.port = u /\ e.by = p
               /\ EE = {x \in E : x.name # n} \cup {e}
      BY <3>1, <3>2, <1>4, RegisterIs DEF a, E, EE
    <3>4. CASE a = NoPort
      <4>1. EE = E
        BY <3>3, <3>4 DEF E, EE
      <4>2. GivenBy(t, a) = {} /\ ForgottenBy(t, a) = {} /\ CleanBy(t, a, k)
        BY <3>4, <1>12, <2>5, NoPortAssumption DEF GivenBy, ForgottenBy, CleanBy
      <4> QED BY <4>1, <4>2, <1>8, <1>9, <2>5 DEF HeldBy, FreshFor, OwnedBy
    <3>5. CASE a = u
      <4>1. PICK e \in Entry(Owners) : /\ e.name = n /\ e.port = u /\ e.by = p
                                       /\ EE = {x \in E : x.name # n} \cup {e}
        BY <3>3, <3>5
      <4>2. e = [name |-> n, port |-> l, by |-> p]
        BY <4>1, <3>1 DEF Entry
      <4>3. GivenBy(t, a) = {n} /\ ForgottenBy(t, a) = {} /\ CleanBy(t, a, k)
        BY <3>1, <3>5, <1>12, <2>5 DEF GivenBy, ForgottenBy, CleanBy, n
      <4>4. \A x : x # n /\ <<p, x>> \in lost => <<p, x>> \in lost'
        BY <4>1, <1>9
      <4>5. ASSUME l # NoPort, NEW x \in k \cup {n}
            PROVE  <<p, x>> \in lost' \/ [name |-> x, port |-> l, by |-> p] \in EE
        <5>1. CASE x = n
          BY <5>1, <4>1, <4>2
        <5>2. CASE x # n
          BY <5>2, <4>1, <4>4, <4>5, <1>8, <1>16
        <5> QED BY <5>1, <5>2
      <4>6. HeldBy(p, t, a, l, k, lost', EE)
        BY <4>3, <4>5 DEF HeldBy
      <4>7. FreshFor(p, t, a, l, k, EE)
        BY <4>1, <1>8, <2>5 DEF FreshFor
      <4>8. OwnedBy(p, t, a, k, EE)
        BY <4>1, <4>3, <1>8 DEF OwnedBy
      <4> QED BY <4>6, <4>7, <4>8
    <3> QED BY <3>3, <3>4, <3>5
  <2> QED BY <2>2, <2>3, <2>4, <2>5, <1>3
<1>19. /\ OthersStay(p) /\ answer'[p] = a /\ todo'[p] = t /\ known'[p] = k
       /\ number'[p] = u /\ listening'[p] = l
  BY <1>1, <1>2, TypesAre DEF OthersStay, a, t, k, u, l
<1>20. TypeOK'
  <2>1. lost' \subseteq Processes \X Names
    BY <1>1, TypesAre, TakenTyped
  <2>2. answer' \in [Processes -> Answers \cup {None, Lost}] /\ map' \in Tables
    BY <1>1, <1>5, TypesAre DEF Ordered
  <2> QED BY <2>1, <2>2, <1>1, <1>2, TypesAre, TypeOKIs
<1>21. OrphansFit'
  BY <1>1 DEF PInv, OrphansFit
<1>22. map' = res.map /\ EE = Entries(map')
  BY <1>1 DEF res, r, EE
<1> QED BY <1>5, <1>7, <1>18, <1>19, <1>20, <1>21, <1>22, TableStep DEF E, l

LEMMA ServeOrphanKeeps ==
  ASSUME PInv, ServeOrphan
  PROVE  PInv'
<1>1. PICK r \in orphans :
        /\ orphans' = orphans \ {r} /\ map' = Handled(r, "late").map
        /\ lost' = lost \cup Taken(r, "late", Handled(r, "late").map)
  BY DEF ServeOrphan
<1>2. UNCHANGED <<listening, number, known, registered, todo, answer, faults>>
  BY DEF ServeOrphan, clientVars
<1> DEFINE res == Handled(r, "late")
           EE == Entries(res.map)
<1>3. /\ r \in Requests
      /\ r.op # "unregisterPort" => r.name \in Names
      /\ r.op = "register" => r.port \in Ports
  BY TypesAre DEF PInv, OrphansFit
<1>4. "late" \in Owners /\ \A p \in Processes : p # "late"
  BY OwnersAre
<1>5. Ordered(res.map)
  BY <1>3, <1>4, HandledOrdered
<1>6. \A q \in Processes :
        Undisturbing(q, listening[q], lost, Entries(map), lost', EE)
  <2> SUFFICES ASSUME NEW q \in Processes
               PROVE  Undisturbing(q, listening[q], lost, Entries(map), lost', EE)
    OBVIOUS
  <2>1. \A x : <<q, x>> \in lost => <<q, x>> \in lost'
    BY <1>1
  <2>2. Taken(r, "late", res.map) \subseteq lost'
    BY <1>1
  <2>3. res = Handled(r, "late") /\ EE = Entries(res.map) /\ "late" \notin Processes
    BY <1>4
  <2> HIDE DEF res, EE
  <2> QED BY <2>1, <2>2, <2>3, <1>3, <1>4, RequestDisturbsNone
<1>7. map' = res.map /\ EE = Entries(map') /\ Ordered(map')
  BY <1>1, <1>5
<1> HIDE DEF res, EE
<1>8. TypeOK'
  <2>1. lost' \subseteq Processes \X Names /\ orphans' \subseteq Requests /\ map' \in Tables
    BY <1>1, <1>7, TypesAre, TakenTyped DEF Ordered
  <2> QED BY <2>1, <1>2, TypesAre, TypeOKIs
<1>9. OrphansFit' /\ PortsApart' /\ InOrder(map)'
  BY <1>1, <1>2, <1>7 DEF PInv, OrphansFit, PortsApart, Ordered, InOrder
<1>10. ProcessesFit'
  <2> SUFFICES ASSUME NEW q \in Processes
               PROVE  ProcessFits(q, todo[q], answer[q], listening[q], number[q],
                                  known[q], lost', EE)
    BY <1>2, <1>7 DEF ProcessesFit
  <2>1. EE \subseteq Entry(Owners)
    BY <1>7, EntriesAre
  <2> QED BY <2>1, <1>6, FitsIs, StillFits
<1> QED BY <1>8, <1>9, <1>10 DEF PInv

LEMMA RestartKeeps ==
  ASSUME PInv, Restart
  PROVE  PInv'
<1>1. Fault /\ map' = <<>> /\ orphans' = {}
  BY DEF Restart
<1>2. UNCHANGED <<listening, number, known, registered, todo>>
  BY DEF Restart, clientVars
<1>3. PICK broken \in SUBSET {p \in Processes : Asks(p) /\ answer[p] # Lost} :
        /\ answer' = [p \in Processes |-> IF p \in broken THEN Lost ELSE answer[p]]
        /\ lost' = lost
             \cup {<<e.by, e.name>> : e \in {x \in Entries(map) : x.by \in Processes}}
             \cup {<<p, Head(todo[p]).name>> : p \in {x \in broken : At(x, "forget")}}
  BY DEF Restart
<1>4. Entries(map') = {} /\ Ordered(map')
  <2>1. Len(<<>>) = 0 /\ <<>> \in Seq(Entry(Owners)) /\ DOMAIN <<>> = {}
    OBVIOUS
  <2> QED BY <2>1, <1>1 DEF Entries, Ordered, Tables, InOrder
<1>5. TypeOK'
  <2>1. \A e \in Entries(map) : e.name \in Names
    <3>1. Ordered(map)
      BY TypesAre DEF Ordered
    <3> QED BY <3>1, EntriesAre DEF Entry
  <2>2. lost' \subseteq Processes \X Names
    <3>1. ASSUME NEW p \in broken, At(p, "forget") PROVE Head(todo[p]).name \in Names
      <4>1. AsksBy(todo[p], known[p]) /\ known[p] \subseteq Names
        BY <1>3, <3>1, FitsIs
      <4> QED BY <4>1, <3>1 DEF AsksBy, OnStep, At
    <3> QED BY <2>1, <3>1, <1>3, TypesAre
  <2>3. answer' \in [Processes -> Answers \cup {None, Lost}]
    BY <1>3, TypesAre
  <2>4. map' \in Tables /\ orphans' \subseteq Requests /\ faults' \in 0 .. MaxFaults
    BY <1>1, <1>4, FaultTyped DEF Ordered
  <2> QED BY <2>2, <2>3, <2>4, <1>2, TypesAre, TypeOKIs
<1>6. OrphansFit' /\ PortsApart' /\ InOrder(map)'
  BY <1>1, <1>2, <1>4 DEF PInv, OrphansFit, PortsApart, Ordered, InOrder
<1>7. ProcessesFit'
  <2> SUFFICES ASSUME NEW q \in Processes
               PROVE  ProcessFits(q, todo[q], answer'[q], listening[q], number[q],
                                  known[q], lost', {})
    BY <1>2, <1>4 DEF ProcessesFit
  <2> DEFINE t == todo[q]
             a == answer[q]
             b == answer'[q]
             k == known[q]
             l == listening[q]
             E == Entries(map)
  <2>1. ProcessFits(q, t, a, l, number[q], k, lost, E)
    BY FitsIs
  <2>2. b = a \/ (b = Lost /\ q \in broken /\ AsksBy(t, k))
    BY <1>3, FitsIs
  <2>3. /\ GivenBy(t, b) \subseteq GivenBy(t, a)
        /\ \A n \in ForgottenBy(t, a) : n \in ForgottenBy(t, b) \/ <<q, n>> \in lost'
    <3>1. None \notin Ports /\ Lost \notin Ports
      BY NoneAnswers DEF Answers
    <3>2. GivenBy(t, b) \subseteq GivenBy(t, a)
      <4> HIDE DEF t, a, b
      <4> QED BY <3>1, <2>2 DEF GivenBy
    <3>3. ASSUME NEW n \in ForgottenBy(t, a), n \notin ForgottenBy(t, b)
          PROVE  <<q, n>> \in lost'
      <4>1. OnStep(t, "forget") /\ n = Head(t).name
        BY <3>3 DEF ForgottenBy
      <4>2. b # a
        BY <3>3
      <4>3. q \in {x \in broken : At(x, "forget")}
        BY <4>1, <4>2, <2>2 DEF OnStep, At, Idle
      <4> QED BY <4>1, <4>3, <1>3
    <3> QED BY <3>2, <3>3
  <2>4. \A n : [name |-> n, port |-> l, by |-> q] \in E => <<q, n>> \in lost'
    <3> SUFFICES ASSUME NEW n, [name |-> n, port |-> l, by |-> q] \in E
                 PROVE  <<q, n>> \in lost'
      OBVIOUS
    <3> DEFINE e == [name |-> n, port |-> l, by |-> q]
    <3>1. e \in {x \in Entries(map) : x.by \in Processes} /\ e.by = q /\ e.name = n
      OBVIOUS
    <3> HIDE DEF e
    <3> QED BY <3>1, <1>3
  <2>5. lost \subseteq lost'
    BY <1>3
  <2> HIDE DEF t, a, b, k, l, E
  <2>6. CallFits(t, b, l, number[q], k)
    BY <2>1, <2>2 DEF ProcessFits, CallFits
  <2>7. HeldBy(q, t, b, l, k, lost', {})
    BY <2>1, <2>3, <2>4, <2>5 DEF ProcessFits, HeldBy
  <2>8. FreshFor(q, t, b, l, k, {}) /\ OwnedBy(q, t, b, k, {})
    BY DEF FreshFor, OwnedBy
  <2> QED BY <2>6, <2>7, <2>8 DEF ProcessFits, t, b, k, l
<1> QED BY <1>5, <1>6, <1>7 DEF PInv

--------------------------------------------------------------------------
(* The invariant holds at first, and every step keeps it.                   *)
LEMMA PInvInit ==
  ASSUME Init
  PROVE  PInv
<1>1. map = <<>> /\ Entries(map) = {} /\ Ordered(map)
  <2>1. Len(<<>>) = 0 /\ <<>> \in Seq(Entry(Owners)) /\ DOMAIN <<>> = {}
    OBVIOUS
  <2>2. map = <<>>
    BY DEF Init
  <2> QED BY <2>1, <2>2 DEF Entries, Ordered, Tables, InOrder
<1>2. TypeOK
  <2>1. map \in Seq(Entry(Owners)) /\ <<>> \in Seq(Steps) /\ 0 \in 0 .. MaxFaults
    BY <1>1, MaxFaultsAssumption DEF Ordered, Tables
  <2> QED BY <2>1 DEF Init, TypeOK, NoPortOr
<1>3. PortsApart /\ OrphansFit /\ InOrder(map)
  BY <1>1 DEF Init, PortsApart, OrphansFit, Ordered
<1>4. ASSUME NEW p \in Processes
      PROVE  ProcessFits(p, <<>>, None, NoPort, NoPort, {}, {}, {})
  BY QuietIs, NoStepIs
<1>5. ProcessesFit
  BY <1>1, <1>4 DEF ProcessesFit, Init
<1> QED BY <1>2, <1>3, <1>5 DEF PInv

LEMMA PInvNext ==
  ASSUME PInv, [Next]_vars
  PROVE  PInv'
<1>1. ASSUME NEW p \in Processes, Open(p) PROVE PInv'
  BY <1>1, OpenKeeps
<1>2. ASSUME NEW p \in Processes, RegisterNil(p) PROVE PInv'
  BY <1>2, RegisterNilKeeps
<1>3. ASSUME NEW p \in Processes, Invalidate(p) PROVE PInv'
  BY <1>3, InvalidateKeeps
<1>4. ASSUME NEW p \in Processes, NEW n \in Names, RegisterName(p, n) PROVE PInv'
  BY <1>4, RegisterNameKeeps
<1>5. ASSUME NEW p \in Processes, NEW n \in Names, LookUp(p, n) PROVE PInv'
  BY <1>5, LookUpKeeps
<1>6. ASSUME NEW p \in Processes, Skip(p) PROVE PInv'
  BY <1>6, SkipKeeps
<1>7. ASSUME NEW p \in Processes, Name(p) PROVE PInv'
  BY <1>7, NameKeeps
<1>8. ASSUME NEW p \in Processes, RemoveAll(p) PROVE PInv'
  BY <1>8, RemoveAllKeeps
<1>9. ASSUME NEW p \in Processes, Answered(p) PROVE PInv'
  BY <1>9, AnsweredKeeps
<1>10. ASSUME NEW p \in Processes, Broken(p) PROVE PInv'
  BY <1>10, BrokenKeeps
<1>11. ASSUME NEW p \in Processes, GiveUp(p) PROVE PInv'
  BY <1>11, GiveUpKeeps
<1>12. ASSUME NEW p \in Processes, Crash(p) PROVE PInv'
  BY <1>12, CrashKeeps
<1>13. ASSUME NEW p \in Processes, Serve(p) PROVE PInv'
  BY <1>13, ServeKeeps
<1>14. CASE ServeOrphan
  BY <1>14, ServeOrphanKeeps
<1>15. CASE Restart
  BY <1>15, RestartKeeps
<1>16. CASE UNCHANGED vars
  BY <1>16 DEF vars, clientVars, PInv, TypeOK, PortsApart, OrphansFit, ProcessesFit, InOrder
<1> QED BY <1>1, <1>2, <1>3, <1>4, <1>5, <1>6, <1>7, <1>8, <1>9, <1>10, <1>11, <1>12,
           <1>13, <1>14, <1>15, <1>16 DEF Next

LEMMA Always == Spec => []PInv
<1>1. Init => PInv
  BY PInvInit
<1>2. PInv /\ [Next]_vars => PInv'
  BY PInvNext
<1> QED BY <1>1, <1>2, PTL DEF Spec

--------------------------------------------------------------------------
(* The table, the ports, what is left of a call and what is on its way have *)
(* their types, whatever processes and gdomap fail.                         *)
THEOREM PortNamesTypeOK == Spec => []TypeOK
<1>1. PInv => TypeOK
  BY DEF PInv
<1> QED BY <1>1, Always, PTL

(* The table of gdomap stays in strict order through every registration,    *)
(* lookup and removal, and map_by_name() finds in it exactly the names that *)
(* are there.                                                               *)
THEOREM TableFindable == Spec => []Findable
<1>1. PInv => Findable
  <2> SUFFICES ASSUME PInv, NEW n \in Names
               PROVE  LET at == map_by_name(map, n) IN
                      IF \E e \in Entries(map) : e.name = n
                      THEN at \in DOMAIN map /\ map[at].name = n
                      ELSE at = 0
    BY DEF Findable, PInv
  <2>1. Ordered(map)
    BY TypesAre DEF Ordered
  <2>2. DOMAIN map = 1 .. Len(map)
    BY <2>1, EntriesAre
  <2> QED BY <2>1, <2>2, FoundIs
<1> QED BY <1>1, Always, PTL

(* A name that a process was told it has leads to its port while it is      *)
(* open, unless gdomap died, another who had the name removed it, or the    *)
(* process did not wait for the answer of its own removal.                  *)
THEOREM KnownNamesAreServed == Spec => []KnownNamesServed
<1>1. PInv => KnownNamesServed
  <2> SUFFICES ASSUME PInv, NEW p \in Processes, NEW n \in known[p],
                      listening[p] # NoPort, <<p, n>> \notin lost,
                      ~ (At(p, "forget") /\ Head(todo[p]).name = n)
               PROVE  \E e \in Entries(map) : e.name = n /\ e.port = listening[p]
    BY DEF KnownNamesServed
  <2>1. n \notin ForgottenBy(todo[p], answer[p])
    BY FitsIs DEF ForgottenBy
  <2>2. HeldBy(p, todo[p], answer[p], listening[p], known[p], lost, Entries(map))
    BY FitsIs DEF ProcessFits
  <2>3. [name |-> n, port |-> listening[p], by |-> p] \in Entries(map)
    BY <2>1, <2>2 DEF HeldBy
  <2> QED BY <2>3
<1> QED BY <1>1, Always, PTL

(* A port that was opened where that of another process was does not answer *)
(* to names the other was given: unregisterPort: came before its first name. *)
THEOREM NoNamesAreStale == Spec => []NoStaleNames
<1>1. PInv => NoStaleNames
  <2> SUFFICES ASSUME PInv, NEW q \in Processes, NEW e \in Entries(map),
                      listening[q] = e.port, known[q] # {}
               PROVE  e.by \in {q, "late"}
    BY DEF NoStaleNames
  <2>1. FreshFor(q, todo[q], answer[q], listening[q], known[q], Entries(map))
    BY FitsIs DEF ProcessFits
  <2>2. CleanBy(todo[q], answer[q], known[q])
    BY DEF CleanBy
  <2> QED BY <2>1, <2>2 DEF FreshFor
<1> QED BY <1>1, Always, PTL

(* When a port has been invalidated gdomap has no name left that the        *)
(* process was given for it.                                                *)
THEOREM NothingIsLeft == Spec => []NothingLeft
<1>1. PInv => NothingLeft
  <2> SUFFICES ASSUME PInv, NEW p \in Processes, Idle(p), ~ Has(p),
                      NEW e \in Entries(map), e.by = p
               PROVE  FALSE
    BY DEF NothingLeft, NamesOf
  <2>1. known[p] = {} /\ todo[p] = <<>>
    BY FitsIs, IdleIs DEF Has
  <2>2. GivenBy(todo[p], answer[p]) = {}
    BY <2>1, NoStepIs DEF GivenBy
  <2>3. OwnedBy(p, todo[p], answer[p], known[p], Entries(map))
    BY FitsIs DEF ProcessFits
  <2> QED BY <2>1, <2>2, <2>3 DEF OwnedBy
<1> QED BY <1>1, Always, PTL
=============================================================================
