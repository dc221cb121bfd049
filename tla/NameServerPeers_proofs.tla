----------------------- MODULE NameServerPeers_proofs -----------------------
(***************************************************************************)
(* A name server drops no server that could not be dead: proved for every  *)
(* network, every interval and patience, and however long select() may be  *)
(* kept from timing out.                                                   *)
(***************************************************************************)
EXTENDS NameServerPeers, TLAPS

(* What can still bring news of q to h: something q sent it, or a probe of  *)
(* h that q will answer.                                                    *)
Heard(h, q, m) ==
  \/ m.from = q /\ m.to = h
  \/ m.type = "probe" /\ m.from = h /\ m.to = q

NewsInNet(h, q) == \E m \in net : Heard(h, q, m)
NewsFrom(q, h) == \E i \in 1 .. Len(u_queue[q]) : u_queue[q][i].to \in {h, All}
ProbeFor(h, q) == \E i \in 1 .. Len(u_queue[h]) :
                    u_queue[h][i].type = "probe" /\ u_queue[h][i].to \in {q, All}
News(h, q) == NewsInNet(h, q) \/ NewsFrom(q, h) \/ ProbeFor(h, q)

(* No host knows itself, and one that is down knows nobody and sends        *)
(* nothing.                                                                 *)
NotItself == \A h \in Hosts : prb[h][h] = Unknown
DownIsEmpty == \A h \in Hosts \ up : prb[h] = Nobody /\ u_queue[h] = <<>>

(* Whom a server has not heard since its last probe may have missed it, or  *)
(* its answer is still to come.                                             *)
Silent(h, q) == prb[h][q] # Unknown /\ prb[h][q] > last_probe[h]
Asked == \A h \in up : \A q \in Hosts :
           Silent(h, q) => <<h, q>> \in missed \/ News(h, q)

IInv == TypeOK /\ NotItself /\ DownIsEmpty /\ Asked

USE AllAssumption, UnknownAssumption, TimesAssumption

LEMMA InitOK == Init => IInv
<1> SUFFICES ASSUME Init PROVE IInv
  OBVIOUS
<1>1. TypeOK
  BY DEF Init, TypeOK, Nobody, Ages
<1>2. NotItself /\ DownIsEmpty /\ Asked
  BY DEF Init, NotItself, DownIsEmpty, Asked, Nobody
<1> QED BY <1>1, <1>2 DEF IInv

(* A message that is queued, and the ages of prb_add and prb_tim.           *)
LEMMA ProbeIsQueued == [type |-> "probe", to |-> All] \in Queued
  BY DEF Queued, Types

LEMMA AgesKept ==
  ASSUME NEW ages \in [Hosts -> Ages], NEW h \in Hosts, NEW q \in Hosts, NEW n \in Nat
  PROVE  /\ prb_add(ages, h, q) \in [Hosts -> Ages]
         /\ prb_tim(ages, n) \in [Hosts -> Ages]
         /\ Nobody \in [Hosts -> Ages]
<1>1. 0 \in Ages /\ Unknown \in Ages
  BY DEF Ages, MaxAge
<1> QED BY <1>1 DEF prb_add, prb_tim, Nobody

LEMMA StartStep ==
  ASSUME IInv, NEW h \in Hosts, Start(h) PROVE IInv'
<1> USE DEF Start, init_probe
<1>0. TypeOK /\ NotItself /\ DownIsEmpty /\ Asked
  BY DEF IInv
<1>1. TypeOK'
  BY <1>0, ProbeIsQueued DEF TypeOK
<1>2. NotItself'
  BY <1>0 DEF NotItself
<1>3. DownIsEmpty'
  BY <1>0 DEF DownIsEmpty, TypeOK
<1>4. Asked'
  <2> SUFFICES ASSUME NEW g \in up', NEW q \in Hosts, Silent(g, q)'
               PROVE  (<<g, q>> \in missed \/ News(g, q))'
    BY DEF Asked
  <2>1. CASE g = h
    BY <2>1, <1>0 DEF Silent, DownIsEmpty, Nobody
  <2>2. CASE g # h
    <3>1. Silent(g, q) /\ g \in up
      BY <2>2, <1>0 DEF Silent, TypeOK
    <3>2. CASE q = h
      <4>1. u_queue'[h] = Append(u_queue[h], [type |-> "probe", to |-> All])
        BY <1>0 DEF TypeOK
      <4>2. u_queue[h] \in Seq(Queued)
        BY <1>0 DEF TypeOK
      <4>3. /\ Len(u_queue'[h]) = Len(u_queue[h]) + 1 /\ Len(u_queue[h]) \in Nat
            /\ u_queue'[h][Len(u_queue[h]) + 1] = [type |-> "probe", to |-> All]
        BY <4>1, <4>2, ProbeIsQueued
      <4> QED BY <4>3, <3>2 DEF News, NewsFrom
    <3>3. CASE q # h
      <4>1. u_queue'[g] = u_queue[g] /\ u_queue'[q] = u_queue[q]
        BY <2>2, <3>3, <1>0 DEF TypeOK
      <4> QED BY <3>1, <4>1, <1>0 DEF Asked, News, NewsInNet, NewsFrom, ProbeFor, TypeOK
    <3> QED BY <3>2, <3>3
  <2> QED BY <2>1, <2>2
<1> QED BY <1>1, <1>2, <1>3, <1>4 DEF IInv

LEMMA CrashStep ==
  ASSUME IInv, NEW h \in Hosts, Crash(h) PROVE IInv'
<1> USE DEF Crash
<1>0. TypeOK /\ NotItself /\ DownIsEmpty /\ Asked
  BY DEF IInv
<1>1. TypeOK'
  <2>1. prb' \in [Hosts -> [Hosts -> Ages]]
    BY <1>0 DEF TypeOK, Nobody, Ages
  <2> QED BY <2>1, <1>0 DEF TypeOK
<1>2. NotItself'
  BY <1>0 DEF NotItself, Nobody, TypeOK
<1>3. DownIsEmpty'
  BY <1>0 DEF DownIsEmpty, TypeOK
<1>4. Asked'
  <2> SUFFICES ASSUME NEW g \in up', NEW q \in Hosts, Silent(g, q)'
               PROVE  (<<g, q>> \in missed \/ News(g, q))'
    BY DEF Asked
  <2>1. g # h /\ g \in up /\ g \in Hosts
    BY <1>0 DEF TypeOK
  <2>2. CASE q = h
    BY <2>1, <2>2
  <2>3. CASE q # h
    <3>1. Silent(g, q)
      BY <2>1, <1>0 DEF Silent, TypeOK
    <3>2. u_queue'[g] = u_queue[g] /\ u_queue'[q] = u_queue[q]
      BY <2>1, <2>3, <1>0 DEF TypeOK
    <3>3. <<g, q>> \in missed => <<g, q>> \in missed'
      BY <2>1
    <3> QED BY <2>1, <3>1, <3>2, <3>3, <1>0
            DEF Asked, News, NewsInNet, NewsFrom, ProbeFor
  <2> QED BY <2>2, <2>3
<1> QED BY <1>1, <1>2, <1>3, <1>4 DEF IInv

(* A message sent goes from the queue to the network, or into missed.       *)
LEMMA SendStep ==
  ASSUME IInv, NEW h \in Hosts, handle_send(h) PROVE IInv'
<1> DEFINE m == Head(u_queue[h])
<1> USE DEF handle_send
<1>0. TypeOK /\ NotItself /\ DownIsEmpty /\ Asked
  BY DEF IInv
<1>a. u_queue[h] \in Seq(Queued) /\ u_queue[h] # <<>>
  BY <1>0 DEF TypeOK
<1>b. m \in Queued /\ m = u_queue[h][1] /\ Tail(u_queue[h]) \in Seq(Queued)
  BY <1>a
<1>c. /\ Len(u_queue[h]) \in Nat /\ Len(Tail(u_queue[h])) = Len(u_queue[h]) - 1
      /\ \A i \in 2 .. Len(u_queue[h]) :
           /\ i - 1 \in 1 .. Len(Tail(u_queue[h]))
           /\ Tail(u_queue[h])[i - 1] = u_queue[h][i]
  BY <1>a
<1>d. /\ u_queue'[h] = Tail(u_queue[h])
      /\ \A g \in Hosts : g # h => u_queue'[g] = u_queue[g]
  BY <1>0 DEF TypeOK
<1>e. Sent(h, m) \subseteq Datagrams
  BY <1>b DEF Sent, Datagrams, Queued
<1>1. TypeOK'
  <2>1. u_queue' \in [Hosts -> Seq(Queued)]
    BY <1>0, <1>b DEF TypeOK
  <2>2. missed' \subseteq Hosts \X Hosts
    BY <1>0, <1>e DEF TypeOK, Between, Datagrams
  <2>3. net' \subseteq Datagrams /\ faults' \in 0 .. MaxFaults
    BY <1>0, <1>e DEF TypeOK
  <2> QED BY <2>1, <2>2, <2>3, <1>0 DEF TypeOK
<1>2. NotItself' /\ DownIsEmpty'
  BY <1>0, <1>a, <1>d DEF NotItself, DownIsEmpty, TypeOK
<1>3. Asked'
  <2> SUFFICES ASSUME NEW g \in up', NEW q \in Hosts, Silent(g, q)'
               PROVE  (<<g, q>> \in missed \/ News(g, q))'
    BY DEF Asked
  <2>1. Silent(g, q) /\ g \in up /\ g \in Hosts /\ g # q
    BY <1>0 DEF Silent, TypeOK, NotItself
  <2>2. missed \subseteq missed' /\ net \subseteq net'
    OBVIOUS
  <2>3. CASE <<g, q>> \in missed \/ NewsInNet(g, q)
    BY <2>2, <2>3 DEF News, NewsInNet
  <2>4. CASE NewsFrom(q, g)
    <3> PICK i \in 1 .. Len(u_queue[q]) : u_queue[q][i].to \in {g, All}
      BY <2>4 DEF NewsFrom
    <3>1. CASE q # h
      BY <3>1, <1>d DEF News, NewsFrom
    <3>2. CASE q = h /\ i # 1
      <4>1. i \in 2 .. Len(u_queue[h])
        BY <3>2, <1>c
      <4>2. /\ i - 1 \in 1 .. Len(u_queue'[q])
            /\ u_queue'[q][i - 1].to \in {g, All}
        BY <3>2, <4>1, <1>c, <1>d
      <4> QED BY <4>2 DEF News, NewsFrom
    <3>3. CASE q = h /\ i = 1
      <4>1. [type |-> m.type, from |-> h, to |-> g] \in Sent(h, m)
        BY <3>3, <1>b, <2>1 DEF Sent
      <4>2. [type |-> m.type, from |-> h, to |-> g] \in net' \/ <<g, q>> \in missed'
        <5> DEFINE s == [type |-> m.type, from |-> h, to |-> g]
        <5>1. CASE net' = net \cup Sent(h, m)
          BY <5>1, <4>1
        <5>2. CASE missed' = missed \cup UNION {Between(x) : x \in Sent(h, m)}
          <6>1. <<g, q>> \in Between(s)
            BY <3>3 DEF Between
          <6> QED BY <5>2, <6>1, <4>1
        <5> QED BY <5>1, <5>2
      <4>3. Heard(g, q, [type |-> m.type, from |-> h, to |-> g])
        BY <3>3 DEF Heard
      <4>4. CASE [type |-> m.type, from |-> h, to |-> g] \in net'
        <5>1. \E x \in net' : Heard(g, q, x)
          BY <4>3, <4>4
        <5> QED BY <5>1 DEF News, NewsInNet, Heard
      <4> QED BY <4>2, <4>4
    <3> QED BY <3>1, <3>2, <3>3
  <2>5. CASE ProbeFor(g, q)
    <3> PICK i \in 1 .. Len(u_queue[g]) :
          u_queue[g][i].type = "probe" /\ u_queue[g][i].to \in {q, All}
      BY <2>5 DEF ProbeFor
    <3>1. CASE g # h
      BY <3>1, <2>1, <1>d DEF News, ProbeFor
    <3>2. CASE g = h /\ i # 1
      <4>1. i \in 2 .. Len(u_queue[h])
        BY <3>2, <1>c
      <4>2. /\ i - 1 \in 1 .. Len(u_queue'[g])
            /\ u_queue'[g][i - 1].type = "probe"
            /\ u_queue'[g][i - 1].to \in {q, All}
        BY <3>2, <4>1, <1>c, <1>d
      <4> QED BY <4>2 DEF News, ProbeFor
    <3>3. CASE g = h /\ i = 1
      <4>1. [type |-> "probe", from |-> h, to |-> q] \in Sent(h, m)
        BY <3>3, <1>b, <2>1 DEF Sent
      <4>2. [type |-> "probe", from |-> h, to |-> q] \in net' \/ <<g, q>> \in missed'
        <5> DEFINE s == [type |-> "probe", from |-> h, to |-> q]
        <5>1. CASE net' = net \cup Sent(h, m)
          BY <5>1, <4>1
        <5>2. CASE missed' = missed \cup UNION {Between(x) : x \in Sent(h, m)}
          <6>1. <<g, q>> \in Between(s)
            BY <3>3 DEF Between
          <6> QED BY <5>2, <6>1, <4>1
        <5> QED BY <5>1, <5>2
      <4>3. Heard(g, q, [type |-> "probe", from |-> h, to |-> q])
        BY <3>3 DEF Heard
      <4>4. CASE [type |-> "probe", from |-> h, to |-> q] \in net'
        <5>1. \E x \in net' : Heard(g, q, x)
          BY <4>3, <4>4
        <5> QED BY <5>1 DEF News, NewsInNet, Heard
      <4> QED BY <4>2, <4>4
    <3> QED BY <3>1, <3>2, <3>3
  <2> QED BY <2>1, <2>3, <2>4, <2>5, <1>0 DEF Asked, News
<1> QED BY <1>1, <1>2, <1>3 DEF IInv

LEMMA LoseStep ==
  ASSUME IInv, NEW m \in net, Lose(m) PROVE IInv'
<1> USE DEF Lose
<1>0. TypeOK /\ NotItself /\ DownIsEmpty /\ Asked
  BY DEF IInv
<1>1. TypeOK'
  BY <1>0 DEF TypeOK, Between, Datagrams
<1>2. NotItself' /\ DownIsEmpty'
  BY <1>0 DEF NotItself, DownIsEmpty
<1>3. Asked'
  <2> SUFFICES ASSUME NEW g \in up', NEW q \in Hosts, Silent(g, q)'
               PROVE  (<<g, q>> \in missed \/ News(g, q))'
    BY DEF Asked
  <2>1. <<g, q>> \in missed \/ News(g, q)
    BY <1>0 DEF Asked, Silent
  <2>2. Heard(g, q, m) => <<g, q>> \in missed'
    BY DEF Heard, Between
  <2> QED BY <2>1, <2>2 DEF News, NewsInNet, NewsFrom, ProbeFor
<1> QED BY <1>1, <1>2, <1>3 DEF IInv

(* A message that is received is news of who sent it; the answer to a probe *)
(* is news to who asked.                                                    *)
LEMMA RecvStep ==
  ASSUME IInv, NEW m \in net, handle_recv(m) PROVE IInv'
<1> DEFINE h == m.to
<1> USE DEF handle_recv
<1>0. TypeOK /\ NotItself /\ DownIsEmpty /\ Asked
  BY DEF IInv
<1>a. m \in Datagrams /\ m.from \in Hosts /\ h \in Hosts /\ h \in up
  BY <1>0 DEF TypeOK, Datagrams
<1>b. /\ prb'[h] = prb_add(prb[h], h, m.from)
      /\ \A g \in Hosts : g # h => prb'[g] = prb[g]
  BY <1>0, <1>a DEF TypeOK
<1>c. /\ u_queue'[h] = Answer(h, m)
      /\ \A g \in Hosts : g # h => u_queue'[g] = u_queue[g]
  BY <1>0, <1>a DEF TypeOK
<1>d. [type |-> "preply", to |-> m.from] \in Queued
  BY <1>a DEF Queued, Types
<1>e. /\ u_queue'[h] \in Seq(Queued)
      /\ Len(u_queue'[h]) \in Nat /\ Len(u_queue[h]) \in Nat
      /\ Len(u_queue[h]) <= Len(u_queue'[h])
      /\ \A i \in 1 .. Len(u_queue[h]) : u_queue'[h][i] = u_queue[h][i]
  <2>1. u_queue[h] \in Seq(Queued)
    BY <1>0, <1>a DEF TypeOK
  <2> QED BY <2>1, <1>c, <1>d DEF Answer
<1>1. TypeOK'
  <2>1. prb' \in [Hosts -> [Hosts -> Ages]]
    <3>1. prb_add(prb[h], h, m.from) \in [Hosts -> Ages]
      BY <1>0, <1>a, AgesKept DEF TypeOK
    <3> QED BY <3>1, <1>0 DEF TypeOK
  <2>2. u_queue' \in [Hosts -> Seq(Queued)]
    BY <1>0, <1>c, <1>e DEF TypeOK
  <2> QED BY <2>1, <2>2, <1>0 DEF TypeOK
<1>2. NotItself'
  BY <1>0, <1>a, <1>b DEF NotItself, prb_add, TypeOK
<1>3. DownIsEmpty'
  BY <1>0, <1>a, <1>b, <1>c DEF DownIsEmpty
<1>4. Asked'
  <2> SUFFICES ASSUME NEW g \in up', NEW q \in Hosts, Silent(g, q)'
               PROVE  (<<g, q>> \in missed \/ News(g, q))'
    BY DEF Asked
  <2>0. g \in up /\ g \in Hosts
    BY <1>0 DEF TypeOK
  <2>1. ~ (g = h /\ q = m.from)
    <3> SUFFICES ASSUME g = h, q = m.from PROVE FALSE
      OBVIOUS
    <3>1. prb'[h][m.from] \in {0, Unknown}
      BY <1>0, <1>a, <1>b DEF prb_add, NotItself, TypeOK
    <3> QED BY <3>1, <1>0, <1>a DEF Silent, TypeOK
  <2>2. Silent(g, q)
    BY <2>0, <2>1, <1>0, <1>a, <1>b DEF Silent, prb_add, TypeOK
  <2>3. CASE <<g, q>> \in missed
    BY <2>1, <2>3
  <2>4. CASE NewsInNet(g, q)
    <3> PICK x \in net : Heard(g, q, x)
      BY <2>4 DEF NewsInNet
    <3>1. CASE x # m
      <4>1. x \in net'
        BY <3>1
      <4> QED BY <4>1 DEF News, NewsInNet, Heard
    <3>2. CASE x = m
      <4>1. m.type = "probe" /\ m.from = g /\ h = q
        BY <3>2, <2>1 DEF Heard
      <4>2. u_queue'[q] = Append(u_queue[q], [type |-> "preply", to |-> g])
        BY <4>1, <1>c DEF Answer
      <4>3. u_queue[q] \in Seq(Queued)
        BY <1>0 DEF TypeOK
      <4>4. /\ Len(u_queue[q]) + 1 \in 1 .. Len(u_queue'[q])
            /\ u_queue'[q][Len(u_queue[q]) + 1].to = g
        BY <4>1, <4>2, <4>3, <1>d
      <4> QED BY <4>4 DEF News, NewsFrom
    <3> QED BY <3>1, <3>2
  <2>5. CASE NewsFrom(q, g) \/ ProbeFor(g, q)
    <3>1. \A p \in Hosts :
            /\ Len(u_queue[p]) \in Nat /\ Len(u_queue'[p]) \in Nat
            /\ Len(u_queue[p]) <= Len(u_queue'[p])
            /\ \A i \in 1 .. Len(u_queue[p]) : u_queue'[p][i] = u_queue[p][i]
      BY <1>0, <1>c, <1>e DEF TypeOK
    <3>2. CASE NewsFrom(q, g)
      <4> PICK i \in 1 .. Len(u_queue[q]) : u_queue[q][i].to \in {g, All}
        BY <3>2 DEF NewsFrom
      <4>1. i \in 1 .. Len(u_queue'[q]) /\ u_queue'[q][i].to \in {g, All}
        BY <3>1
      <4> QED BY <4>1 DEF News, NewsFrom
    <3>3. CASE ProbeFor(g, q)
      <4> PICK i \in 1 .. Len(u_queue[g]) :
            u_queue[g][i].type = "probe" /\ u_queue[g][i].to \in {q, All}
        BY <3>3 DEF ProbeFor
      <4>1. /\ i \in 1 .. Len(u_queue'[g])
            /\ u_queue'[g][i].type = "probe" /\ u_queue'[g][i].to \in {q, All}
        BY <3>1, <2>0
      <4> QED BY <4>1 DEF News, ProbeFor
    <3> QED BY <2>5, <3>2, <3>3
  <2> QED BY <2>0, <2>2, <2>3, <2>4, <2>5, <1>0 DEF Asked, News
<1> QED BY <1>1, <1>2, <1>3, <1>4 DEF IInv

(* A new probe asks every other server; prb_tim only forgets.               *)
LEMMA TimeoutStep ==
  ASSUME IInv, NEW h \in Hosts, Timeout(h) PROVE IInv'
<1> USE DEF Timeout
<1>0. TypeOK /\ NotItself /\ DownIsEmpty /\ Asked
  BY DEF IInv
<1>a. /\ prb'[h] = prb_tim(prb[h], last_probe[h])
      /\ \A g \in Hosts : g # h => prb'[g] = prb[g]
  BY <1>0 DEF TypeOK
<1>b. /\ last_probe[h] \in Nat /\ last_probe'[h] \in {last_probe[h], 0}
      /\ \A g \in Hosts : g # h =>
           u_queue'[g] = u_queue[g] /\ last_probe'[g] = last_probe[g]
  BY <1>0 DEF TypeOK, init_probe
<1>1. TypeOK'
  <2>1. prb' \in [Hosts -> [Hosts -> Ages]]
    <3>1. prb_tim(prb[h], last_probe[h]) \in [Hosts -> Ages]
      BY <1>0, <1>b, AgesKept DEF TypeOK
    <3> QED BY <3>1, <1>0 DEF TypeOK
  <2>2. u_queue' \in [Hosts -> Seq(Queued)] /\ last_probe' \in [Hosts -> 0 .. Busy]
    <3>1. CASE Due(h)
      <4>1. Append(u_queue[h], [type |-> "probe", to |-> All]) \in Seq(Queued)
        BY ProbeIsQueued, <1>0 DEF TypeOK
      <4>2. u_queue' = [u_queue EXCEPT ![h] = Append(u_queue[h], [type |-> "probe", to |-> All])]
        BY <3>1 DEF init_probe
      <4>3. u_queue' \in [Hosts -> Seq(Queued)]
        BY <4>1, <4>2, <1>0 DEF TypeOK
      <4>4. last_probe' = [last_probe EXCEPT ![h] = 0] /\ 0 \in 0 .. Busy
        BY <3>1 DEF init_probe
      <4>5. last_probe' \in [Hosts -> 0 .. Busy]
        BY <4>4, <1>0 DEF TypeOK
      <4> QED BY <4>3, <4>5
    <3>2. CASE ~ Due(h)
      BY <3>2, <1>0 DEF TypeOK
    <3> QED BY <3>1, <3>2
  <2> QED BY <2>1, <2>2, <1>0 DEF TypeOK
<1>2. NotItself' /\ DownIsEmpty'
  BY <1>0, <1>a, <1>b DEF NotItself, DownIsEmpty, TypeOK, prb_tim
<1>3. Asked'
  <2> SUFFICES ASSUME NEW g \in up', NEW q \in Hosts, Silent(g, q)'
               PROVE  (<<g, q>> \in missed \/ News(g, q))'
    BY DEF Asked
  <2>0. g \in up /\ g \in Hosts
    BY <1>0 DEF TypeOK
  <2>1. CASE Due(h) /\ g = h
    <3>1. u_queue'[g] = Append(u_queue[g], [type |-> "probe", to |-> All])
      BY <2>1, <1>0 DEF init_probe, TypeOK
    <3>2. u_queue[g] \in Seq(Queued)
      BY <2>0, <1>0 DEF TypeOK
    <3>3. /\ Len(u_queue[g]) + 1 \in 1 .. Len(u_queue'[g])
          /\ u_queue'[g][Len(u_queue[g]) + 1] = [type |-> "probe", to |-> All]
      BY <3>1, <3>2, ProbeIsQueued
    <3> QED BY <3>3 DEF News, ProbeFor
  <2>2. CASE ~ (Due(h) /\ g = h)
    <3>1. Silent(g, q)
      BY <2>0, <2>2, <1>0, <1>a, <1>b DEF Silent, prb_tim, TypeOK
    <3>2. <<g, q>> \in missed \/ NewsInNet(g, q) \/ NewsFrom(q, g) \/ ProbeFor(g, q)
      BY <3>1, <2>0, <1>0 DEF Asked, News
    <3>3. CASE ~ Due(h) \/ (q # h /\ g # h)
      <4>1. u_queue'[q] = u_queue[q] /\ u_queue'[g] = u_queue[g]
        BY <3>3, <2>0, <1>b
      <4> QED BY <4>1, <3>2 DEF News, NewsInNet, NewsFrom, ProbeFor
    <3>4. CASE Due(h) /\ q = h
      <4>1. u_queue'[q] = Append(u_queue[q], [type |-> "probe", to |-> All])
        BY <3>4, <1>0 DEF init_probe, TypeOK
      <4>2. u_queue[q] \in Seq(Queued)
        BY <1>0 DEF TypeOK
      <4>3. /\ Len(u_queue[q]) + 1 \in 1 .. Len(u_queue'[q])
            /\ u_queue'[q][Len(u_queue[q]) + 1].to = All
        BY <4>1, <4>2, ProbeIsQueued
      <4> QED BY <4>3 DEF News, NewsFrom
    <3> QED BY <2>2, <3>3, <3>4
  <2> QED BY <2>1, <2>2
<1> QED BY <1>1, <1>2, <1>3 DEF IInv

(* Time passes only when nothing is on its way, and then no server that may *)
(* be heard is silent: its age and the time since the probe grow alike.     *)
LEMMA TickStep ==
  ASSUME IInv, Tick PROVE IInv'
<1> USE DEF Tick
<1>0. TypeOK /\ NotItself /\ DownIsEmpty /\ Asked
  BY DEF IInv
<1>1. TypeOK'
  <2>1. \A age \in Ages : Older(age) \in Ages
    BY DEF Older, Ages, MaxAge
  <2>2. prb' \in [Hosts -> [Hosts -> Ages]]
    BY <2>1, <1>0 DEF TypeOK
  <2>3. last_probe' \in [Hosts -> 0 .. Busy]
    BY <1>0 DEF TypeOK
  <2> QED BY <2>2, <2>3, <1>0 DEF TypeOK
<1>2. NotItself' /\ DownIsEmpty'
  BY <1>0 DEF NotItself, DownIsEmpty, TypeOK, Older, Nobody
<1>3. Asked'
  <2> SUFFICES ASSUME NEW g \in up', NEW q \in Hosts, Silent(g, q)'
               PROVE  <<g, q>> \in missed'
    BY DEF Asked
  <2>0. g \in up /\ g \in Hosts
    BY <1>0 DEF TypeOK
  <2>1. Silent(g, q)
    <3>1. prb[g][q] \in Ages /\ last_probe[g] \in Nat
      BY <2>0, <1>0 DEF TypeOK
    <3>2. prb'[g][q] = Older(prb[g][q]) /\ last_probe'[g] = last_probe[g] + 1
      BY <2>0, <1>0
    <3> QED BY <3>1, <3>2 DEF Silent, Older, Ages, MaxAge
  <2>2. u_queue[g] = <<>> /\ u_queue[q] = <<>>
    BY <2>0, <1>0 DEF DownIsEmpty
  <2>3. ~ News(g, q)
    BY <2>2 DEF News, NewsInNet, NewsFrom, ProbeFor
  <2> QED BY <2>0, <2>1, <2>3, <1>0 DEF Asked
<1> QED BY <1>1, <1>2, <1>3 DEF IInv

LEMMA StutterStep ==
  ASSUME IInv, UNCHANGED vars PROVE IInv'
<1>1. TypeOK' /\ NotItself' /\ DownIsEmpty'
  BY DEF IInv, vars, TypeOK, NotItself, DownIsEmpty
<1>2. Asked'
  BY DEF IInv, vars, Asked, Silent, News, NewsInNet, NewsFrom, ProbeFor, Heard
<1> QED BY <1>1, <1>2 DEF IInv

LEMMA NextStep ==
  ASSUME IInv, [Next]_vars PROVE IInv'
BY StartStep, CrashStep, SendStep, LoseStep, RecvStep, TimeoutStep, TickStep, StutterStep
   DEF Next, Goes

(* The part of the invariant that the runs do not state: what may still be  *)
(* said of a server that has been silent since it was asked.                *)
THEOREM SilenceExplained == SafeSpec => []IInv
<1>1. Init => IInv
  BY InitOK
<1>2. IInv /\ [Next]_vars => IInv'
  BY NextStep
<1> QED BY <1>1, <1>2, PTL DEF SafeSpec

(* A step forgets a server only when select() times out, and then one that  *)
(* is silent.                                                               *)
LEMMA OnlyTheSilentGo ==
  ASSUME IInv, [Next]_vars, NEW h \in up \cap up', NEW q \in Hosts,
         prb[h][q] # Unknown, prb'[h][q] = Unknown
  PROVE  Silent(h, q)
<1>0. TypeOK /\ h \in Hosts /\ h \in up /\ h \in up'
  BY DEF IInv, TypeOK
<1>1. prb[h][q] \in Nat /\ 0 # Unknown
  BY <1>0 DEF TypeOK, Ages, MaxAge
<1>2. ASSUME NEW g \in Hosts, Start(g) \/ handle_send(g) PROVE FALSE
  BY <1>2 DEF Start, handle_send
<1>3. ASSUME NEW g \in Hosts, Crash(g) PROVE FALSE
  <2>1. g # h
    BY <1>0, <1>3 DEF Crash
  <2> QED BY <2>1, <1>0, <1>3 DEF Crash, TypeOK
<1>4. ASSUME NEW m \in net, Lose(m) PROVE FALSE
  BY <1>4 DEF Lose
<1>5. ASSUME NEW m \in net, handle_recv(m) PROVE FALSE
  BY <1>0, <1>1, <1>5 DEF handle_recv, prb_add, TypeOK, Datagrams
<1>6. ASSUME Tick PROVE FALSE
  <2>1. prb'[h][q] = Older(prb[h][q])
    BY <1>0, <1>6 DEF Tick
  <2>2. Older(prb[h][q]) \in Nat
    BY <1>1 DEF Older
  <2> QED BY <2>1, <2>2
<1>7. ASSUME NEW g \in Hosts, Timeout(g) PROVE Silent(h, q)
  <2>1. g = h
    BY <1>0, <1>7 DEF Timeout, TypeOK
  <2>2. prb'[h][q] = prb_tim(prb[h], last_probe[h])[q]
    BY <2>1, <1>0, <1>7 DEF Timeout, TypeOK
  <2>3. Dead(prb[h][q], last_probe[h])
    BY <2>2 DEF prb_tim
  <2> QED BY <2>3 DEF Dead, Silent
<1>8. ASSUME UNCHANGED vars PROVE FALSE
  BY <1>8 DEF vars
<1> QED BY <1>2, <1>3, <1>4, <1>5, <1>6, <1>7, <1>8 DEF Next, Goes

(* A server drops only one that stopped, lost a message to it or from it,   *)
(* or has yet to answer (prb_tim).                                          *)
THEOREM OnlyTheLostAreDropped == SafeSpec => DropsSilentOnly
<1> DEFINE Drops == \A h \in up \cap up' : \A q \in Known(prb[h]) \ Known(prb'[h]) :
                      <<h, q>> \in missed \/ OnItsWay(h, q)
<1>1. IInv /\ [Next]_vars => [Drops]_vars
  <2> SUFFICES ASSUME IInv, [Next]_vars, NEW h \in up \cap up',
                      NEW q \in Known(prb[h]) \ Known(prb'[h])
               PROVE  <<h, q>> \in missed \/ OnItsWay(h, q)
    OBVIOUS
  <2>1. q \in Hosts /\ prb[h][q] # Unknown /\ prb'[h][q] = Unknown
    BY DEF Known
  <2>2. <<h, q>> \in missed \/ News(h, q)
    BY <2>1, OnlyTheSilentGo DEF IInv, Asked
  <2>3. NewsInNet(h, q) => OnItsWay(h, q)
    BY DEF NewsInNet, Heard, OnItsWay, Between
  <2>4. NewsFrom(q, h) \/ ProbeFor(h, q) => OnItsWay(h, q)
    BY DEF NewsFrom, ProbeFor, OnItsWay
  <2> QED BY <2>2, <2>3, <2>4 DEF News
<1>2. SafeSpec => [][Next]_vars
  BY DEF SafeSpec
<1> QED BY <1>1, <1>2, SilenceExplained, PTL DEF DropsSilentOnly
=============================================================================
