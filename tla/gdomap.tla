------------------------------- MODULE gdomap -------------------------------
(***************************************************************************)
(* The names of Tools/gdomap.c: the sorted table that maps a name to the   *)
(* port of a process of this host, and what a request makes of it.  All    *)
(* ports of distributed objects have one type (GDO_TCP_GDO), which is left *)
(* out.  Names are numbers, for compare().                                 *)
(***************************************************************************)
EXTENDS Integers, Subsequences, SequencesExt

CONSTANTS
  Names,       \* what ports are registered as
  Ports,       \* the numbers of ports
  NoPort       \* zero, the answer when there is none

ASSUME NamesAssumption == Names \subseteq Nat
ASSUME NoPortAssumption == NoPort \notin Ports

Entry(owner) == [name : Names, port : Ports, by : owner]

--------------------------------------------------------------------------
(* The table.  It is searched by halves, and kept in order.                 *)
Above(map, n) == {i \in 1 .. Len(map) : map[i].name > n}

Place(map, n) ==
  IF Above(map, n) = {} THEN Len(map) + 1
  ELSE CHOOSE i \in Above(map, n) : \A j \in Above(map, n) : i <= j

map_add_last(map, e) == Append(map, e)  \* mutant: forgets the order
map_add(map, e) == InsertAt(map, Place(map, e.name), e)

map_del(map, i) == RemoveAt(map, i)

(* The place of a name, 0 when it is in none.  The search halves the span   *)
(* <<lower, upper>> in which the name may be, until it sees it or nothing   *)
(* is left; the indices of the program begin at 0.                          *)
Spans(map) == {s \in (0 .. Len(map)) \X (0 .. Len(map)) : s[1] <= s[2]}
Middle(s) == s[1] + (s[2] - s[1]) \div 2
Stops(map, n, s) == s[1] = s[2] \/ map[Middle(s) + 1].name = n
Half(map, n, s) == IF map[Middle(s) + 1].name < n THEN <<Middle(s) + 1, s[2]>>
                                                  ELSE <<s[1], Middle(s)>>

map_by_name(map, n) ==
  LET search[s \in Spans(map)] ==
        IF Stops(map, n, s) THEN Middle(s) ELSE search[Half(map, n, s)]
      found == search[<<0, Len(map)>>]
  IN IF found < Len(map) /\ map[found + 1].name = n THEN found + 1 ELSE 0

(* Unregistering a port removes its names one by one, until none is found.  *)
WithoutPort_one(map, p) ==  \* mutant: removes the first name only
  LET at == {i \in 1 .. Len(map) : map[i].port = p} IN
  IF at = {} THEN map ELSE map_del(map, CHOOSE i \in at : \A j \in at : i <= j)
WithoutPort(map, p) == Only(map, {e \in ToSet(map) : e.port # p})

--------------------------------------------------------------------------
(* handle_request.  used are the ports on which somebody listens, so that    *)
(* the name server cannot bind a socket to them; an entry keeps, for the    *)
(* properties, who asked for it.  The result is the table and the answer.   *)
Result(map, answer) == [map |-> map, answer |-> answer]

Register_trusting(map, n, p, by, used) ==  \* mutant: tries no bind
  LET at == map_by_name(map, n)
      entry == [name |-> n, port |-> p, by |-> by]
  IN IF at = 0 THEN Result(map_add(map, entry), p)
     ELSE Result([map EXCEPT ![at] = entry], p)

Register(map, n, p, by, used) ==
  LET at == map_by_name(map, n)
      entry == [name |-> n, port |-> p, by |-> by]
  IN IF at = 0 THEN Result(map_add(map, entry), p)
     ELSE IF map[at].port = p
     THEN Result([map EXCEPT ![at].by = IF by = "late" THEN @ ELSE by], p)
     ELSE IF map[at].port \in used THEN Result(map, NoPort)
     ELSE Result([map EXCEPT ![at] = entry], p)

Lookup(map, n, used) ==
  LET at == map_by_name(map, n) IN
  IF at = 0 THEN Result(map, NoPort)
  ELSE IF map[at].port \in used THEN Result(map, map[at].port)
  ELSE Result(map_del(map, at), NoPort)

UnregisterName(map, n) ==
  LET at == map_by_name(map, n) IN
  IF at = 0 THEN Result(map, NoPort)
  ELSE Result(map_del(map, at), map[at].port)

UnregisterPort(map, p) ==
  Result(WithoutPort(map, p),
         IF \E i \in 1 .. Len(map) : map[i].port = p THEN p ELSE NoPort)

--------------------------------------------------------------------------
(* The names of the table are in strict order: each is there once.          *)
InOrder(map) ==
  \A i, j \in 1 .. Len(map) : i < j => map[i].name < map[j].name
=============================================================================
