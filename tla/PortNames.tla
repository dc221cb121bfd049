----------------------------- MODULE PortNames -----------------------------
(***************************************************************************)
(* The names of ports on one host: processes with a connection each, that  *)
(* open, register, look up and invalidate a port (NSSocketPort.m,          *)
(* NSConnection.m, NSSocketPortNameServer.m), and the name server they ask *)
(* over TCP (gdomap).  Requests are answered late or not at all, processes *)
(* die, and the name server may die and be started again by the next to    *)
(* ask, with an empty table.                                               *)
(***************************************************************************)
EXTENDS gdomap

CONSTANTS
  Processes,
  NoName, None,  \* no name, no answer
  Lost,        \* the answer of a connection that broke
  MaxFaults    \* bound: crashes, restarts and time-outs together

ASSUME ProcessesAssumption == {"gone", "late"} \cap Processes = {}
ASSUME AnswersAssumption == {None, Lost} \cap (Ports \cup {NoPort}) = {} /\ None # Lost
ASSUME MaxFaultsAssumption == MaxFaults \in Nat

VARIABLES
  map,         \* the table of gdomap
  listening,   \* the port a process listens on
  number,      \* the port of its connection, to the end of invalidate
  known,       \* _portMap, _nameMap: the names it has registered the port as
  registered,  \* the connection's IregisteredName
  todo,        \* what is left of the call it is in
  answer,      \* the answer to its request, until the process reads it
  orphans,     \* requests on their way whose process has gone or given up
  lost,        \* history: names a process had and that were taken from it
  faults       \* crashes, restarts and time-outs so far

clientVars == <<listening, number, known, registered, todo>>
vars == <<map, clientVars, answer, orphans, lost, faults>>

NoPortOr(S) == S \cup {NoPort}
Owners == Processes \cup {"gone", "late"}

Request(op, n, p) == [op |-> op, name |-> n, port |-> p]
Requests == [op : {"register", "lookup", "unregisterName", "unregisterPort"},
             name : Names \cup {NoName}, port : NoPortOr(Ports)]
Step(do, n) == [do |-> do, name |-> n]
Steps == [do : {"clean", "register", "forget", "name", "removeAll", "lookup"},
          name : Names \cup {NoName}]

TypeOK ==
  /\ map \in Seq(Entry(Owners))
  /\ {listening, number} \subseteq [Processes -> NoPortOr(Ports)]
  /\ known \in [Processes -> SUBSET Names]
  /\ registered \in [Processes -> Names \cup {NoName}]
  /\ todo \in [Processes -> Seq(Steps)]
  /\ answer \in [Processes -> NoPortOr(Ports) \cup {None, Lost}]
  /\ orphans \subseteq Requests
  /\ lost \subseteq Processes \X Names
  /\ faults \in 0 .. MaxFaults

Init ==
  /\ map = <<>>
  /\ listening = [p \in Processes |-> NoPort]
  /\ number = [p \in Processes |-> NoPort]
  /\ known = [p \in Processes |-> {}]
  /\ registered = [p \in Processes |-> NoName]
  /\ todo = [p \in Processes |-> <<>>]
  /\ answer = [p \in Processes |-> None]
  /\ orphans = {} /\ lost = {} /\ faults = 0

Idle(p) == todo[p] = <<>>
Has(p) == number[p] # NoPort
At(p, do) == ~ Idle(p) /\ Head(todo[p]).do = do
Used == {listening[p] : p \in Processes} \ {NoPort}

--------------------------------------------------------------------------
(* The calls.                                                               *)
Open(p) ==
  /\ Idle(p) /\ ~ Has(p)
  /\ \E n \in Ports :
       /\ n \notin Used
       /\ listening' = [listening EXCEPT ![p] = n]
       /\ number' = [number EXCEPT ![p] = n]
  /\ UNCHANGED <<map, known, registered, todo, answer, orphans, lost, faults>>

Call(p, steps) ==
  /\ Idle(p)
  /\ todo' = [todo EXCEPT ![p] = steps]
  /\ UNCHANGED <<map, number, known, registered, answer, orphans, lost, faults>>

(* A port with no name is first rid of the names of an earlier process.     *)
Registration(p, n) ==
  IF known[p] = {} THEN <<Step("clean", NoName), Step("register", n)>>
                   ELSE <<Step("register", n)>>

RegisterName(p, n) ==
  /\ Has(p)
  /\ Call(p, Registration(p, n)) /\ UNCHANGED listening

RegisterNil(p) ==
  /\ Has(p) /\ registered[p] # NoName
  /\ Call(p, <<Step("forget", registered[p]), Step("name", NoName)>>)
  /\ UNCHANGED listening

LookUp(p, n) ==
  /\ Call(p, <<Step("lookup", n)>>) /\ UNCHANGED listening

(* The port listens no more, and then its names are removed.                *)
Invalidate(p) ==
  /\ Has(p)
  /\ Call(p, <<Step("removeAll", NoName)>>)
  /\ listening' = [listening EXCEPT ![p] = NoPort]

--------------------------------------------------------------------------
(* What a process does in a call, between requests.                         *)
Then(p, steps) == [todo EXCEPT ![p] = steps \o Tail(@)]

RequestFor(p) ==
  LET step == Head(todo[p]) IN
  CASE step.do = "clean" -> Request("unregisterPort", NoName, number[p])
    [] step.do = "register" -> Request("register", step.name, number[p])
    [] step.do = "forget" -> Request("unregisterName", step.name, NoPort)
    [] step.do = "lookup" -> Request("lookup", step.name, NoPort)

Asks(p) ==
  \/ At(p, "clean") \/ At(p, "register") \/ At(p, "lookup")
  \/ At(p, "forget") /\ Head(todo[p]).name \in known[p]

(* The request of a step is on its way until it is answered.                *)
Asked(p) == Asks(p) /\ answer[p] = None

\* removePort:forName: of a name that is not the port's.
Skip(p) ==
  /\ At(p, "forget") /\ Head(todo[p]).name \notin known[p]
  /\ todo' = Then(p, <<>>)
  /\ UNCHANGED <<map, listening, number, known, registered, answer, orphans,
                 lost, faults>>

Name(p) ==
  /\ At(p, "name")
  /\ registered' = [registered EXCEPT ![p] = Head(todo[p]).name]
  /\ todo' = Then(p, <<>>)
  /\ UNCHANGED <<map, listening, number, known, answer, orphans, lost, faults>>

RemoveAll_once(p) ==  \* mutant: removes one name of the port
  /\ At(p, "removeAll")
  /\ todo' = Then(p, IF known[p] = {} THEN <<>>
                     ELSE <<Step("forget", CHOOSE n \in known[p] : TRUE)>>)
  /\ number' = [number EXCEPT ![p] = NoPort]
  /\ registered' = [registered EXCEPT ![p] = NoName]
  /\ UNCHANGED <<map, listening, known, answer, orphans, lost, faults>>

RemoveAll(p) ==
  /\ At(p, "removeAll")
  /\ \/ /\ known[p] = {}
        /\ todo' = Then(p, <<>>)
        /\ number' = [number EXCEPT ![p] = NoPort]
        /\ registered' = [registered EXCEPT ![p] = NoName]
     \/ /\ \E n \in known[p] : todo' = [todo EXCEPT ![p] = <<Step("forget", n)>> \o @]
        /\ UNCHANGED <<number, registered>>
  /\ UNCHANGED <<map, listening, known, answer, orphans, lost, faults>>

(* A name that is taken is looked up, for the message.  One that is given   *)
(* is remembered, and then the previous name of the connection is removed.  *)
Answered(p) ==
  /\ answer[p] \notin {None, Lost}
  /\ LET n == Head(todo[p]).name
         do == Head(todo[p]).do
         given == do = "register" /\ answer[p] # NoPort
     IN /\ known' = [known EXCEPT ![p] = CASE given -> @ \cup {n}
                                           [] do = "forget" -> @ \ {n}
                                           [] OTHER -> @]
        /\ todo' = Then(p,
             CASE given -> (IF registered[p] = NoName THEN <<>>
                            ELSE <<Step("forget", registered[p])>>)
                           \o <<Step("name", n)>>
               [] do = "register" /\ ~ given -> <<Step("lookup", n)>>
               [] OTHER -> <<>>)
  /\ answer' = [answer EXCEPT ![p] = None]
  /\ UNCHANGED <<map, listening, number, registered, orphans, lost, faults>>

(* Without an answer a name that was to be removed is still known, and any  *)
(* other call fails.                                                        *)
Failed(p) == IF At(p, "forget") THEN Then(p, <<>>) ELSE [todo EXCEPT ![p] = <<>>]

Broken(p) ==
  /\ answer[p] = Lost
  /\ todo' = Failed(p)
  /\ answer' = [answer EXCEPT ![p] = None]
  /\ UNCHANGED <<map, listening, number, known, registered, orphans, lost, faults>>

Fault == faults < MaxFaults /\ faults' = faults + 1

(* Nobody knows of a registration whose answer is not read.                 *)
Disowned(p, mark) == [i \in DOMAIN map |->
  IF map[i].by = p THEN [map[i] EXCEPT !.by = mark] ELSE map[i]]

Unanswered(p) == IF Asked(p) THEN {RequestFor(p)} ELSE {}

GiveUp(p) ==
  /\ Fault
  /\ Asks(p) /\ answer[p] # Lost
  /\ todo' = Failed(p)
  /\ orphans' = orphans \cup Unanswered(p)
  /\ map' = [i \in DOMAIN map |->
       IF answer[p] # None /\ At(p, "register") /\ map[i].by = p
            /\ map[i].name = Head(todo[p]).name /\ map[i].name \notin known[p]
       THEN [map[i] EXCEPT !.by = "late"] ELSE map[i]]
  /\ answer' = [answer EXCEPT ![p] = None]
  /\ lost' = IF answer[p] # None /\ At(p, "forget")
             THEN lost \cup {<<p, Head(todo[p]).name>>} ELSE lost
  /\ UNCHANGED <<listening, number, known, registered>>

Crash(p) ==
  /\ Fault
  /\ Has(p) \/ ~ Idle(p)
  /\ listening' = [listening EXCEPT ![p] = NoPort]
  /\ number' = [number EXCEPT ![p] = NoPort]
  /\ known' = [known EXCEPT ![p] = {}]
  /\ registered' = [registered EXCEPT ![p] = NoName]
  /\ todo' = [todo EXCEPT ![p] = <<>>]
  /\ orphans' = orphans \cup Unanswered(p)
  /\ map' = Disowned(p, "gone")
  /\ answer' = [answer EXCEPT ![p] = None]
  /\ lost' = {l \in lost : l[1] # p}

--------------------------------------------------------------------------
(* gdomap.                                                                  *)
Handled(r, by) ==
  CASE r.op = "register" -> Register(map, r.name, r.port, by, Used)
    [] r.op = "lookup" -> Lookup(map, r.name, Used)
    [] r.op = "unregisterName" -> UnregisterName(map, r.name)
    [] r.op = "unregisterPort" -> UnregisterPort(map, r.port)

Entries(m) == {m[i] : i \in DOMAIN m}
NamesOf(m, p) == {e.name : e \in {x \in Entries(m) : x.by = p}}

(* The names of others that an unregistration takes.                        *)
Taken(r, by, after) ==
  IF r.op \in {"unregisterName", "unregisterPort"}
  THEN {<<e.by, e.name>> : e \in {x \in Entries(map) \ Entries(after) :
                                    x.by \in Processes \ {by}}}
  ELSE {}

Serve(p) ==
  /\ Asked(p)
  /\ LET result == Handled(RequestFor(p), p) IN
     /\ map' = result.map
     /\ answer' = [answer EXCEPT ![p] = result.answer]
     /\ lost' = (lost \ {<<p, e.name>> : e \in Entries(result.map) \ Entries(map)})
                   \cup Taken(RequestFor(p), p, result.map)
  /\ UNCHANGED <<clientVars, orphans, faults>>

ServeOrphan ==
  /\ \E r \in orphans :
       LET result == Handled(r, "late") IN
       /\ orphans' = orphans \ {r}
       /\ map' = result.map
       /\ lost' = lost \cup Taken(r, "late", result.map)
  /\ UNCHANGED <<clientVars, answer, faults>>

(* Answers that it had not written yet are lost with it, and what they were *)
(* to say has been done.                                                    *)
Restart ==
  /\ Fault
  /\ map' = <<>>
  /\ \E broken \in SUBSET {p \in Processes : Asks(p) /\ answer[p] # Lost} :
       /\ answer' = [p \in Processes |-> IF p \in broken THEN Lost ELSE answer[p]]
       /\ lost' = lost
            \cup {<<e.by, e.name>> : e \in {x \in Entries(map) : x.by \in Processes}}
            \cup {<<p, Head(todo[p]).name>> : p \in {x \in broken : At(x, "forget")}}
  /\ orphans' = {}
  /\ UNCHANGED clientVars

--------------------------------------------------------------------------
Next ==
  \/ \E p \in Processes :
       \/ Open(p) \/ RegisterNil(p) \/ Invalidate(p)
       \/ \E n \in Names : RegisterName(p, n) \/ LookUp(p, n)
       \/ Skip(p) \/ Name(p) \/ RemoveAll(p)
       \/ Answered(p) \/ Broken(p) \/ GiveUp(p) \/ Crash(p)
       \/ Serve(p)
  \/ ServeOrphan \/ Restart

Spec == Init /\ [][Next]_vars

--------------------------------------------------------------------------
(* The table of gdomap is in strict order, and the search by halves finds   *)
(* exactly the names that are there.                                        *)
Findable ==
  /\ InOrder(map)
  /\ \A n \in Names :
       LET at == map_by_name(map, n) IN
       IF \E e \in Entries(map) : e.name = n
       THEN at \in DOMAIN map /\ map[at].name = n
       ELSE at = 0

(* A name that a process was told it has leads to its port as long as the   *)
(* port is open, whoever else registers or looks up the name meanwhile: the *)
(* bind that registration and lookup try finds the port in use.  It is lost *)
(* only when gdomap dies, when another process that had the name removes    *)
(* it, by a removal of its own whose answer it did not wait for, or because *)
(* its connection registers the same name again: registerName: removes the  *)
(* previous name after it has been given the new one, though they are one.  *)
KnownNamesServed ==
  \A p \in Processes : \A n \in known[p] :
    \/ listening[p] = NoPort
    \/ <<p, n>> \in lost
    \/ At(p, "forget") /\ Head(todo[p]).name = n
    \/ \E e \in Entries(map) : e.name = n /\ e.port = listening[p]

(* A port that was opened where that of another process was does not answer *)
(* to the other's names: before its first registration they are removed.    *)
(* Only a registration that was given up, and came late, may lead there.    *)
NoStaleNames ==
  \A q \in Processes : \A e \in Entries(map) :
    listening[q] = e.port /\ known[q] # {} => e.by \in {q, "late"}

(* When a port has been invalidated no name that it was given is left.      *)
NothingLeft ==
  \A p \in Processes : Idle(p) /\ ~ Has(p) => NamesOf(map, p) = {}
============================================================================
