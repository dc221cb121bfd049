-------------------------- MODULE NameServerPeers --------------------------
(***************************************************************************)
(* How the name servers of a network (Tools/gdomap.c) find each other: a   *)
(* server broadcasts a probe when it starts, and again when its select()   *)
(* times out and the last one is old enough; it adds to its list prb every *)
(* server it hears from, and drops those it has long not heard.            *)
(*                                                                         *)
(* Each host has one address, all on one network that allows broadcasts.   *)
(* Time passes in units between which every datagram has arrived or is     *)
(* lost.  prb gives the age of the last contact where the program stores   *)
(* its date; its list is in the order of these dates.                      *)
(***************************************************************************)
EXTENDS Naturals, Sequences

CONSTANTS
  Hosts,
  All,         \* the broadcast address
  Unknown,     \* the age of a contact there never was
  interval,    \* the least time between two probes (ten minutes)
  Silence,     \* the age after which a server may be dropped (thirty)
  Busy,        \* bound: how long descriptors may keep select() from timing out
  MaxFaults    \* bound: crashes and lost messages

ASSUME AllAssumption == All \notin Hosts
ASSUME UnknownAssumption == Unknown \notin Nat
ASSUME TimesAssumption == {interval, Silence, Busy, MaxFaults} \subseteq Nat

VARIABLES
  up,          \* the hosts on which gdomap runs
  prb,         \* of each, the ages of its last contacts with others
  last_probe,  \* the time since it asked for probes
  u_queue,     \* what it still has to send
  net,         \* datagrams on their way
  missed,      \* history: <<h, q>> when h may have missed a message since it
               \* last heard q: one between them was lost, or q stopped
  faults

vars == <<up, prb, last_probe, u_queue, net, missed, faults>>

MaxAge == Silence + Busy + 1
Types == {"probe", "preply"}
Ages == (0 .. MaxAge) \cup {Unknown}
Queued == [type : Types, to : Hosts \cup {All}]
Datagrams == [type : Types, from : Hosts, to : Hosts]

Nobody == [q \in Hosts |-> Unknown]
Known(ages) == {q \in Hosts : ages[q] # Unknown}

Init ==
  /\ up = {}
  /\ prb = [h \in Hosts |-> Nobody]
  /\ last_probe = [h \in Hosts |-> 0]
  /\ u_queue = [h \in Hosts |-> <<>>]
  /\ net = {}
  /\ missed = {}
  /\ faults = 0

--------------------------------------------------------------------------
prb_add(ages, h, q) == IF q = h THEN ages ELSE [ages EXCEPT ![q] = 0]

(* Silent for thirty minutes, and asked since.                              *)
Dead_unasked(age, probed) == age > Silence  \* mutant: it may not have been asked
Dead_never(age, probed) == FALSE  \* mutant: drops nobody
Dead(age, probed) == age > Silence /\ age > probed

prb_tim(ages, probed) ==
  [q \in Hosts |-> IF ages[q] # Unknown /\ Dead(ages[q], probed) THEN Unknown
                   ELSE ages[q]]

(* A probe goes to everybody and a new interval begins.                     *)
init_probe(h) ==
  /\ u_queue' = [u_queue EXCEPT ![h] = Append(@, [type |-> "probe", to |-> All])]
  /\ last_probe' = [last_probe EXCEPT ![h] = 0]

Between(m) == {<<m.from, m.to>>, <<m.to, m.from>>}
Sent(h, m) == {[type |-> m.type, from |-> h, to |-> q] :
                 q \in IF m.to = All THEN Hosts \ {h} ELSE {m.to}}

--------------------------------------------------------------------------
Start(h) ==
  /\ h \notin up
  /\ up' = up \cup {h}
  /\ init_probe(h)
  /\ UNCHANGED <<prb, net, missed, faults>>

(* The host goes down with all that it knows.                               *)
Crash(h) ==
  /\ h \in up
  /\ faults < MaxFaults
  /\ up' = up \ {h}
  /\ prb' = [prb EXCEPT ![h] = Nobody]
  /\ u_queue' = [u_queue EXCEPT ![h] = <<>>]
  /\ last_probe' = [last_probe EXCEPT ![h] = 0]
  /\ missed' = {d \in missed : d[1] # h} \cup ((Hosts \ {h}) \X {h})
  /\ faults' = faults + 1
  /\ UNCHANGED net

(* handle_send; a message that cannot be sent is dropped.                   *)
handle_send(h) ==
  /\ u_queue[h] # <<>>
  /\ u_queue' = [u_queue EXCEPT ![h] = Tail(@)]
  /\ \/ /\ net' = net \cup Sent(h, Head(u_queue[h]))
        /\ UNCHANGED <<missed, faults>>
     \/ /\ faults < MaxFaults
        /\ faults' = faults + 1
        /\ missed' = missed \cup UNION {Between(m) : m \in Sent(h, Head(u_queue[h]))}
        /\ UNCHANGED net
  /\ UNCHANGED <<up, prb, last_probe>>

Lose(m) ==
  /\ \/ m.to \notin up /\ UNCHANGED faults
     \/ m.to \in up /\ faults < MaxFaults /\ faults' = faults + 1
  /\ net' = net \ {m}
  /\ missed' = missed \cup Between(m)
  /\ UNCHANGED <<up, prb, last_probe, u_queue>>

(* handle_recv and handle_request: who sends a probe or a reply is a server, *)
(* and a probe is answered.                                                  *)
Answer(h, m) ==
  IF m.type = "probe" THEN Append(u_queue[h], [type |-> "preply", to |-> m.from])
  ELSE u_queue[h]

handle_recv(m) ==
  /\ m.to \in up
  /\ net' = net \ {m}
  /\ prb' = [prb EXCEPT ![m.to] = prb_add(@, m.to, m.from)]
  /\ u_queue' = [u_queue EXCEPT ![m.to] = Answer(m.to, m)]
  /\ missed' = missed \ {<<m.to, m.from>>}
  /\ UNCHANGED <<up, last_probe, faults>>

(* handle_io, when no descriptor has had anything for ten seconds.          *)
Due_never(h) == FALSE  \* mutant: probes when it starts only
Due(h) == u_queue[h] = <<>> /\ last_probe[h] >= interval

Timeout(h) ==
  /\ h \in up
  /\ prb' = [prb EXCEPT ![h] = prb_tim(@, last_probe[h])]
  /\ IF Due(h) THEN init_probe(h) ELSE UNCHANGED <<u_queue, last_probe>>
  /\ UNCHANGED <<up, net, missed, faults>>

Older(age) == IF age \in Nat /\ age < MaxAge THEN age + 1 ELSE age

Tick ==
  /\ up # {}
  /\ net = {}
  /\ \A h \in up : u_queue[h] = <<>> /\ last_probe[h] < Busy
  /\ prb' = [h \in Hosts |-> [q \in Hosts |-> Older(prb[h][q])]]
  /\ last_probe' = [h \in Hosts |-> last_probe[h] + IF h \in up THEN 1 ELSE 0]
  /\ UNCHANGED <<up, u_queue, net, missed, faults>>

(* Time passes for the servers that run, and what is on its way arrives or   *)
(* is lost.  No host has to start, and none has to stop.                     *)
Goes == \/ Tick
        \/ \E h \in Hosts : handle_send(h) \/ Timeout(h)
        \/ \E m \in net : Lose(m) \/ handle_recv(m)

Next == Goes \/ \E h \in Hosts : Start(h) \/ Crash(h)

SafeSpec == Init /\ [][Next]_vars
Spec == SafeSpec /\ WF_vars(Goes)

--------------------------------------------------------------------------
TypeOK ==
  /\ up \subseteq Hosts
  /\ prb \in [Hosts -> [Hosts -> Ages]]
  /\ last_probe \in [Hosts -> 0 .. Busy]
  /\ u_queue \in [Hosts -> Seq(Queued)]
  /\ net \subseteq Datagrams
  /\ missed \subseteq Hosts \X Hosts
  /\ faults \in 0 .. MaxFaults

(* A server drops only one that may be dead: a message between the two was  *)
(* lost since they last spoke, it stopped, or it has not answered yet.  That *)
(* a server was itself too busy to probe is no reason.                      *)
OnItsWay(h, q) ==
  \/ \E m \in net : <<h, q>> \in Between(m)
  \/ \E i \in 1 .. Len(u_queue[h]) : u_queue[h][i].to \in {q, All}
  \/ \E i \in 1 .. Len(u_queue[q]) : u_queue[q][i].to \in {h, All}

DropsSilentOnly ==
  [][\A h \in up \cap up' : \A q \in Known(prb[h]) \ Known(prb'[h]) :
       <<h, q>> \in missed \/ OnItsWay(h, q)]_vars

(* Servers that keep running find each other, whatever was lost before and  *)
(* whichever stopped and started again: probes are repeated.                *)
PeersMeet ==
  \A h, q \in Hosts : h # q =>
    ([]<>(h \notin up \/ q \notin up \/ q \in Known(prb[h])))

(* A server that stopped for good is dropped by every other.                *)
DeadForgotten ==
  \A h, q \in Hosts : <>[](q \notin up) => <>[](q \notin Known(prb[h]))
=============================================================================
