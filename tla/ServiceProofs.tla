---------------------------- MODULE ServiceProofs ----------------------------
(***************************************************************************)
(* What services guarantee for any number of clients and requests and any  *)
(* depth.  Type correctness comes first.  Numbered says that an attachment *)
(* number is used once per client; with it a key stands for one request,   *)
(* which gives Filed (where queries are) and Carried (what responses       *)
(* carry), and so HeldAnswerable.  Ahead says how far the rmw counter is   *)
(* ahead of sn, ToldApart that its numbers are told once (CallersApart),   *)
(* and Crossing that only calls that overlap are told each other's, which  *)
(* gives Correlated.  Single says that the response to a query is in one   *)
(* place, which with Carried gives AnsweredOnce.  Python programs take steps of Service only; Lone   *)
(* says what is under way for a client whose calls never timed out, which  *)
(* gives OwnAnswer.                                                        *)
(***************************************************************************)
EXTENDS PyService, FiniteSetTheorems, TLAPS

USE ClientOfAssumption, MalformedAssumption, DepthAssumption

\* A number on the wire is below the client's counter and is not used twice.
Numbered ==
    /\ \A r \in Requests : wire[r] = 0 <=> place[r] \in {"new", "counted"}
    /\ \A r \in Requests : wire[r] < sn[ClientOf[r]]
    /\ \A r, s \in Requests :
          r # s /\ ClientOf[r] = ClientOf[s] /\ wire[r] # 0 => wire[r] # wire[s]

\* A query is in the queue, in the map under its own key, or in neither.
Filed ==
    /\ \A i \in 1..Len(queue) : place[queue[i]] = "queue"
    /\ \A i, j \in 1..Len(queue) : queue[i] = queue[j] => i = j
    /\ \A e \in map : e.key = Key(e.query) /\ place[e.query] = "map"
    /\ \A h \in held :
          /\ h.key = Key(h.request)
          /\ place[h.request] \in {"map", "replied"}
          /\ place[h.request] = "map" => [key |-> h.key, query |-> h.request] \in map

\* A response carries the key and the answer of the query it replies to.
Sound(p) == p.answers = p.query /\ p.key = Key(p.query) /\ wire[p.query] # 0
Carried ==
    /\ \A p \in replies : Sound(p)
    /\ \A c \in Clients : \A i \in 1..Len(rx[c]) :
          Sound(rx[c][i]) /\ ClientOf[rx[c][i].query] = c
    /\ \A t \in taken : Sound(t.response) /\ ClientOf[t.response.query] = t.client

-----------------------------------------------------------------------------
(* Types                                                                   *)

\* The parts of TypeOK, by who changes them.
TypeNumbers ==
    /\ sn \in [Clients -> Nat \ {0}] /\ sequence_counter \in [Clients -> Nat \ {0}]
    /\ told \in [Requests -> Nat] /\ wire \in [Requests -> Nat]
    /\ crossed \subseteq Requests
TypePlace == place \in [Requests -> Places]
TypeServer ==
    /\ queue \in Seq(Requests) /\ Len(queue) <= ServerDepth
    /\ map \subseteq [key : QueryKey, query : Requests]
    /\ held \subseteq [key : QueryKey, request : Requests]
TypeReplies == replies \subseteq Response /\ expired \subseteq Requests
TypeChannels ==
    /\ rx \in [Clients -> Seq(Response)]
    /\ \A c \in Clients : Len(rx[c]) <= ClientDepth
    /\ taken \subseteq [client : Clients, response : Response]

\* TypeOK is the conjunction of its parts, before and after a step.
Types == TypeNumbers /\ TypePlace /\ TypeServer /\ TypeReplies /\ TypeChannels
\* The type invariant, taken apart by component.
LEMMA TypeParts == (TypeOK <=> Types) /\ (TypeOK' <=> Types')
  BY DEF TypeOK, Types, TypeNumbers, TypePlace, TypeServer, TypeReplies, TypeChannels

\* The key of a request is a key.
LEMMA KeyType ==
    ASSUME TypeNumbers, NEW r \in Requests
    PROVE  Key(r) \in QueryKey
  BY DEF TypeNumbers, Key, QueryKey

\* Drawing a number keeps the types.
LEMMA GetType ==
    ASSUME TypeNumbers, TypePlace, NEW r \in Requests, NEW n \in {"net", "failed"},
           Get(r, n)
    PROVE  /\ sn' \in [Clients -> Nat \ {0}] /\ wire' \in [Requests -> Nat]
           /\ TypePlace'
           /\ UNCHANGED <<server, replies, expired, rx, taken>>
  BY DEF TypeNumbers, TypePlace, Places, Get

\* Storing a query keeps the types.
LEMMA StoreType ==
    ASSUME TypeNumbers, TypePlace, TypeServer, NEW r \in Requests, Store(r)
    PROVE  /\ map' \subseteq [key : QueryKey, query : Requests]
           /\ held' \subseteq [key : QueryKey, request : Requests]
           /\ TypePlace'
  <1>1. Key(r) \in QueryKey
    BY KeyType
  <1>2. /\ map' \subseteq [key : QueryKey, query : Requests]
        /\ held' \subseteq [key : QueryKey, request : Requests]
    BY <1>1 DEF TypeServer, Store, Without
  <1>3. TypePlace'
    BY DEF TypePlace, Places, Store
  <1> QED
    BY <1>2, <1>3

\* Taking the head of the queue leaves a queue of requests.
LEMMA QueueTail ==
    ASSUME TypeServer, queue # <<>>
    PROVE  /\ Head(queue) \in Requests /\ Head(queue) = queue[1]
           /\ Tail(queue) \in Seq(Requests)
           /\ Len(queue) \in Nat /\ Len(queue) > 0
           /\ Len(Tail(queue)) = Len(queue) - 1
           /\ \A i \in 1..Len(Tail(queue)) : Tail(queue)[i] = queue[i + 1]
  BY DEF TypeServer

\* A delivery appends the request, after giving up the head of a full queue.
LEMMA DeliverQueue ==
    ASSUME TypeServer, TypePlace, NEW r \in Requests, Deliver(r)
    PROVE  /\ queue' \in Seq(Requests) /\ Len(queue') <= ServerDepth
           /\ queue'[Len(queue')] = r
           /\ \/ /\ Len(queue) # ServerDepth
                 /\ Len(queue') = Len(queue) + 1
                 /\ \A i \in 1..Len(queue) : queue'[i] = queue[i]
                 /\ place' = [s \in Requests |-> IF s = r THEN "queue" ELSE place[s]]
              \/ /\ Len(queue) = ServerDepth
                 /\ Len(queue') = Len(queue)
                 /\ \A i \in 1..(Len(queue) - 1) : queue'[i] = queue[i + 1]
                 /\ queue[1] \in Requests
                 /\ place' = [s \in Requests |-> IF s = r THEN "queue"
                                  ELSE IF s = queue[1] THEN "dropped" ELSE place[s]]
  <1>1. CASE Len(queue) # ServerDepth
    <2>1. queue' = Append(queue, r)
      BY <1>1 DEF Deliver
    <2>2. /\ queue' \in Seq(Requests) /\ Len(queue') = Len(queue) + 1
          /\ queue'[Len(queue')] = r
          /\ \A i \in 1..Len(queue) : queue'[i] = queue[i]
          /\ Len(queue') <= ServerDepth
      BY <1>1, <2>1 DEF TypeServer
    <2>3. place' = [s \in Requests |-> IF s = r THEN "queue" ELSE place[s]]
      BY <1>1 DEF Deliver
    <2> QED
      BY <1>1, <2>2, <2>3
  <1>2. CASE Len(queue) = ServerDepth
    <2> DEFINE t == Tail(queue)
    <2>1. queue # <<>>
      BY <1>2
    <2>2. queue' = Append(t, r)
      BY <1>2 DEF Deliver
    <2>3. /\ t \in Seq(Requests) /\ Len(t) = Len(queue) - 1 /\ Len(queue) \in Nat
          /\ \A i \in 1..Len(t) : t[i] = queue[i + 1]
          /\ Head(queue) = queue[1] /\ queue[1] \in Requests
      BY <2>1, QueueTail
    <2> HIDE DEF t
    <2>4. /\ queue' \in Seq(Requests) /\ Len(queue') = Len(t) + 1
          /\ queue'[Len(queue')] = r
          /\ \A i \in 1..Len(t) : queue'[i] = t[i]
      BY <2>2, <2>3
    <2>5. place' = [s \in Requests |-> IF s = r THEN "queue"
                       ELSE IF s = queue[1] THEN "dropped" ELSE place[s]]
      BY <1>2, <2>3 DEF Deliver
    <2> QED
      BY <1>2, <2>3, <2>4, <2>5
  <1> QED
    BY <1>1, <1>2

\* The initial state is well typed.
LEMMA TypeInit == Init => TypeOK
  BY DEF Init, TypeOK, Places, QueryKey, Response

\* Every step keeps the types.
LEMMA TypeStep == TypeOK /\ [Next]_vars => TypeOK'
  <1> SUFFICES ASSUME Types, [Next]_vars PROVE Types'
    BY TypeParts
  <1> USE DEF Types
  <1>1. ASSUME NEW r \in Requests, send_request(r) PROVE Types'
    <2>1. PICK n \in {"net", "failed"} : Get(r, n)
      BY <1>1 DEF send_request
    <2>2. TypeNumbers' /\ TypePlace'
      BY <1>1, <2>1, GetType DEF TypeNumbers, send_request
    <2> QED
      BY <2>1, <2>2 DEF Get, server, TypeServer, TypeReplies, TypeChannels
  <1>2. ASSUME NEW r \in Requests, CountRequest(r) PROVE Types'
    <2>2. crossed' \subseteq Requests
      BY <1>2 DEF TypeNumbers, CountRequest, Counted
    <2>1. TypeNumbers' /\ TypePlace'
      BY <1>2, <2>2 DEF TypeNumbers, TypePlace, Places, CountRequest
    <2> QED
      BY <1>2, <2>1 DEF CountRequest, server, TypeServer, TypeReplies, TypeChannels
  <1>3. ASSUME NEW r \in Requests, rmw_send_request(r) PROVE Types'
    <2>1. PICK n \in {"net", "failed"} : Get(r, n)
      BY <1>3 DEF rmw_send_request
    <2>2. TypeNumbers' /\ TypePlace'
      BY <1>3, <2>1, GetType DEF TypeNumbers, rmw_send_request
    <2> QED
      BY <2>1, <2>2 DEF Get, server, TypeServer, TypeReplies, TypeChannels
  <1>4. ASSUME NEW r \in Requests, Deliver(r) PROVE Types'
    <2>1. TypePlace'
      BY <1>4 DEF TypePlace, Places, Deliver
    <2>2. TypeServer'
      BY <1>4, DeliverQueue DEF TypeServer, Deliver
    <2> QED
      BY <1>4, <2>1, <2>2 DEF Deliver, client, TypeNumbers, TypeReplies, TypeChannels
  <1>5. ASSUME NEW r \in Requests, QueryTimeout(r) PROVE Types'
    BY <1>5 DEF QueryTimeout, client, server, TypeNumbers, TypePlace, TypeServer,
        TypeReplies, TypeChannels
  <1>6. ASSUME NEW p \in replies, ReplyCallback(p) PROVE Types'
    <2> DEFINE c == ClientOf[p.query]
    <2>1. p \in Response /\ c \in Clients
      BY DEF TypeReplies, Response
    <2>2. rx' = rx => TypeChannels'
      BY <1>6 DEF ReplyCallback, TypeChannels
    <2>3. Room(c) /\ rx' = [rx EXCEPT ![c] = Append(@, p)] => TypeChannels'
      BY <1>6, <2>1 DEF ReplyCallback, Room, TypeChannels
    <2>4. TypeChannels'
      BY <1>6, <2>2, <2>3 DEF ReplyCallback
    <2> QED
      BY <1>6, <2>4 DEF ReplyCallback, client, server, TypeNumbers, TypePlace,
          TypeServer, TypeReplies
  <1>7. ASSUME NEW c \in Clients, take_response(c) PROVE Types'
    <2>1. /\ Head(rx[c]) \in Response /\ Tail(rx[c]) \in Seq(Response)
          /\ Len(Tail(rx[c])) <= ClientDepth
      BY <1>7 DEF TypeChannels, take_response
    <2>2. TypeChannels'
      BY <1>7, <2>1 DEF TypeChannels, take_response
    <2> QED
      BY <1>7, <2>2 DEF take_response, client, server, TypeNumbers, TypePlace,
          TypeServer, TypeReplies
  <1>8. ASSUME take_request PROVE Types'
    <2> DEFINE r == Head(queue)
    <2>1. r \in Requests /\ queue' \in Seq(Requests) /\ Len(queue') <= ServerDepth
      BY <1>8, QueueTail DEF take_request, TypeServer
    <2>2. CASE Store(r)
      BY <1>8, <2>1, <2>2, StoreType DEF take_request, client, TypeNumbers,
          TypeServer, TypeReplies, TypeChannels
    <2>3. CASE place' = [place EXCEPT ![r] = "dropped"] /\ UNCHANGED <<map, held>>
      BY <1>8, <2>1, <2>3 DEF take_request, client, TypeNumbers, TypePlace, Places,
          TypeServer, TypeReplies, TypeChannels
    <2> QED
      BY <1>8, <2>2, <2>3 DEF take_request
  <1>9. ASSUME NEW h \in held, send_response(h) PROVE Types'
    <2>1. PICK q \in Pending(h.key) : Reply(h, q)
      BY <1>9 DEF send_response
    <2>2. q \in Requests /\ h.key \in QueryKey /\ h.request \in Requests
      BY DEF Pending, TypeServer
    <2>3. TypePlace'
      BY <2>1, <2>2 DEF TypePlace, Places, Reply
    <2>5. TypeReplies'
      BY <1>9, <2>1, <2>2 DEF TypeReplies, Response, Reply, send_response
    <2>4. TypeServer'
      BY <1>9 DEF TypeServer, Without, send_response
    <2> QED
      BY <1>9, <2>3, <2>4, <2>5 DEF send_response, client, TypeNumbers, TypeChannels
  <1>10. CASE UNCHANGED vars
    BY <1>10 DEF vars, TypeNumbers, TypePlace, TypeServer, TypeReplies, TypeChannels
  <1> HIDE DEF Types
  <1> QED
    BY <1>1, <1>2, <1>3, <1>4, <1>5, <1>6, <1>7, <1>8, <1>9, <1>10 DEF Next

\* Every reachable state of a service is well typed, and queue and channels
\* keep to their depth.
THEOREM TypeCorrect == Spec => []TypeOK
  BY TypeInit, TypeStep, PTL DEF Spec

-----------------------------------------------------------------------------
(* Numbers and places                                                      *)

\* Sending gives a request that had none the client's next number, and
\* touches no other.
LEMMA SendFacts ==
    ASSUME Types, Numbered, NEW r \in Requests, send_request(r) \/ rmw_send_request(r)
    PROVE  /\ place[r] \in {"new", "counted"} /\ wire[r] = 0
           /\ wire' = [wire EXCEPT ![r] = sn[ClientOf[r]]]
           /\ sn' = [sn EXCEPT ![ClientOf[r]] = @ + 1]
           /\ place'[r] \in {"net", "failed"}
           /\ \A s \in Requests \ {r} : place'[s] = place[s]
           /\ UNCHANGED <<queue, map, held, replies, expired, rx, taken>>
  <1>1. PICK n \in {"net", "failed"} : Get(r, n)
    BY DEF send_request, rmw_send_request
  <1>2. place[r] \in {"new", "counted"} /\ wire[r] = 0
    BY DEF send_request, rmw_send_request, Numbered
  <1> QED
    BY <1>1, <1>2 DEF Get, server, Types, TypePlace, Numbered

\* Sending keeps numbers unique.
LEMMA SendNumbered ==
    ASSUME Types, Numbered, NEW r \in Requests, send_request(r) \/ rmw_send_request(r)
    PROVE  Numbered'
  <1> DEFINE c == ClientOf[r]
  <1>1. /\ wire'[r] = sn[c] /\ sn[c] \in Nat /\ sn[c] # 0
        /\ \A s \in Requests \ {r} : wire'[s] = wire[s]
        /\ sn'[c] = sn[c] + 1 /\ \A d \in Clients \ {c} : sn'[d] = sn[d]
    BY SendFacts DEF Types, TypeNumbers
  <1>2. \A s \in Requests : wire[s] \in Nat /\ wire[s] < sn[ClientOf[s]]
    BY DEF Numbered, Types, TypeNumbers
  <1>3. \A s \in Requests : wire'[s] = 0 <=> place'[s] \in {"new", "counted"}
    BY <1>1, SendFacts DEF Numbered
  <1>4. \A s \in Requests : wire'[s] < sn'[ClientOf[s]]
    <2> SUFFICES ASSUME NEW s \in Requests PROVE wire'[s] < sn'[ClientOf[s]]
      OBVIOUS
    <2>1. ClientOf[s] \in Clients /\ sn[ClientOf[s]] \in Nat
      BY DEF Types, TypeNumbers
    <2>2. CASE s = r
      BY <1>1, <2>2
    <2>3. CASE s # r /\ ClientOf[s] = c
      BY <1>1, <1>2, <2>3
    <2>4. CASE s # r /\ ClientOf[s] # c
      BY <1>1, <1>2, <2>1, <2>4
    <2> QED
      BY <2>2, <2>3, <2>4
  <1>5. ASSUME NEW s \in Requests, NEW t \in Requests, s # t,
               ClientOf[s] = ClientOf[t], wire'[s] # 0
        PROVE  wire'[s] # wire'[t]
    <2>1. CASE s = r
      <3>1. wire'[t] = wire[t] /\ wire[t] < sn[c] /\ wire[t] \in Nat
        BY <1>1, <1>2, <1>5, <2>1
      <3> QED
        BY <1>1, <2>1, <3>1
    <2>2. CASE t = r
      <3>1. wire'[s] = wire[s] /\ wire[s] < sn[c] /\ wire[s] \in Nat
        BY <1>1, <1>2, <1>5, <2>2
      <3> QED
        BY <1>1, <2>2, <3>1
    <2>3. CASE s # r /\ t # r
      BY <1>1, <1>5, <2>3 DEF Numbered
    <2> QED
      BY <2>1, <2>2, <2>3
  <1> QED
    BY <1>3, <1>4, <1>5 DEF Numbered

\* Numbers stay unique when no number changes and no request is unsent.
LEMMA KeepNumbered ==
    ASSUME Types, Numbered, UNCHANGED <<wire, sn>>,
           \A s \in Requests : place[s] \in {"new", "counted"}
                                 <=> place'[s] \in {"new", "counted"}
    PROVE  Numbered'
  BY DEF Numbered

\* The key of a sent request does not change.
LEMMA KeyStable ==
    ASSUME NEW r \in Requests, wire'[r] = wire[r]
    PROVE  Key(r)' = Key(r)
  BY DEF Key

\* Two sent requests have different keys.
LEMMA KeyUnique ==
    ASSUME Types, Numbered, NEW r \in Requests, NEW s \in Requests,
           wire[r] # 0, Key(r) = Key(s)
    PROVE  r = s
  BY DEF Numbered, Key

\* Taking the head of the queue keeps the rest filed.
LEMMA TailFiled ==
    ASSUME Types, Filed, queue # <<>>, queue' = Tail(queue),
           \A s \in Requests : s # Head(queue) /\ place[s] = "queue" => place'[s] = "queue"
    PROVE  /\ \A i \in 1..Len(queue') : place'[queue'[i]] = "queue"
           /\ \A i, j \in 1..Len(queue') : queue'[i] = queue'[j] => i = j
  <1>1. /\ Head(queue) = queue[1] /\ Len(queue) \in Nat /\ Len(queue) > 0
        /\ Len(queue') = Len(queue) - 1
        /\ \A i \in 1..Len(queue') : queue'[i] = queue[i + 1]
    BY QueueTail DEF Types
  <1>2. \A i \in 1..Len(queue') : /\ i + 1 \in 1..Len(queue) /\ i + 1 # 1
                                   /\ queue[i + 1] \in Requests
    BY <1>1 DEF Types, TypeServer
  <1>3. 1 \in 1..Len(queue)
    BY <1>1
  <1>4. \A i \in 1..Len(queue') : queue'[i] # queue[1] /\ place[queue'[i]] = "queue"
    BY <1>1, <1>2, <1>3 DEF Filed
  <1>5. \A i, j \in 1..Len(queue') : queue'[i] = queue'[j] => i = j
    BY <1>1, <1>2 DEF Filed
  <1> QED
    BY <1>1, <1>2, <1>4, <1>5

\* A query that leaves the queue is filed under a key of its own.
LEMMA StoreFiled ==
    ASSUME Types, Numbered, Filed, UNCHANGED wire,
           queue # <<>>, queue' = Tail(queue), Store(Head(queue))
    PROVE  /\ Filed'
           /\ Pending(Key(Head(queue))) = {}
           /\ place' = [place EXCEPT ![Head(queue)] = "map"]
  <1> DEFINE r == Head(queue)
             k == Key(r)
  <1>1. r \in Requests /\ place[r] = "queue" /\ wire[r] # 0
    <2>1. r \in Requests /\ r = queue[1] /\ 1 \in 1..Len(queue)
      BY QueueTail DEF Types
    <2> QED
      BY <2>1 DEF Filed, Numbered
  <1>2. \A e \in map : e.key # k /\ e.query \in Requests /\ e.query # r
    BY <1>1, KeyUnique DEF Filed, Types, TypeServer
  <1>3. Pending(k) = {}
    BY <1>2 DEF Pending
  <1>4. place' = [place EXCEPT ![r] = "map"]
    BY <1>1, <1>3 DEF Store, Types, TypePlace
  <1>5. map' = map \cup {[key |-> k, query |-> r]}
    BY <1>2 DEF Store, Without
  <1>6. held' = held \cup {[key |-> k, request |-> r]}
    BY DEF Store
  <1>7. \A s \in Requests : Key(s)' = Key(s)
    BY KeyStable
  <1>8. place'[r] = "map" /\ \A s \in Requests \ {r} : place'[s] = place[s]
    BY <1>1, <1>4 DEF Types, TypePlace
  <1> HIDE DEF r, k
  <1>9. \A e \in map' : e.key = Key(e.query)' /\ place'[e.query] = "map"
    BY <1>1, <1>2, <1>5, <1>7, <1>8 DEF Filed, k
  <1>10. \A h \in held' :
          /\ h.key = Key(h.request)'
          /\ place'[h.request] \in {"map", "replied"}
          /\ place'[h.request] = "map" => [key |-> h.key, query |-> h.request] \in map'
    <2> SUFFICES ASSUME NEW h \in held'
                 PROVE  /\ h.key = Key(h.request)'
                        /\ place'[h.request] \in {"map", "replied"}
                        /\ place'[h.request] = "map"
                              => [key |-> h.key, query |-> h.request] \in map'
      OBVIOUS
    <2>1. CASE h = [key |-> k, request |-> r]
      BY <1>1, <1>5, <1>7, <1>8, <2>1 DEF k
    <2>2. CASE h \in held
      <3>1. h.request \in Requests /\ h.request # r
        BY <1>1, <2>2 DEF Filed, Types, TypeServer
      <3> QED
        BY <1>5, <1>7, <1>8, <2>2, <3>1 DEF Filed
    <2> QED
      BY <1>6, <2>1, <2>2
  <1>11. /\ \A i \in 1..Len(queue') : place'[queue'[i]] = "queue"
         /\ \A i, j \in 1..Len(queue') : queue'[i] = queue'[j] => i = j
    BY <1>8, TailFiled DEF r
  <1>12. Filed'
    BY <1>9, <1>10, <1>11 DEF Filed
  <1> QED
    BY <1>3, <1>4, <1>12 DEF r, k

\* Numbers stay unique and every query stays filed, at every step.
FiledInv == Types /\ Numbered /\ Filed
\* Every step keeps numbers unique and the map's entries filed under them.
LEMMA FiledStep == FiledInv /\ [Next]_vars => Numbered' /\ Filed'
  <1> SUFFICES ASSUME Types, Numbered, Filed, [Next]_vars PROVE Numbered' /\ Filed'
    BY DEF FiledInv
  <1>1. ASSUME NEW r \in Requests, send_request(r) \/ rmw_send_request(r) PROVE Numbered' /\ Filed'
    <2>1. Numbered'
      BY <1>1, SendNumbered
    <2>2. /\ place[r] \in {"new", "counted"}
          /\ \A s \in Requests \ {r} : place'[s] = place[s] /\ wire'[s] = wire[s]
          /\ UNCHANGED <<queue, map, held>>
      BY <1>1, SendFacts DEF Types, TypeNumbers
    <2>3. \A s \in Requests \ {r} : Key(s)' = Key(s)
      BY <2>2, KeyStable
    <2>4. \A i \in 1..Len(queue) : queue[i] \in Requests
      BY DEF Types, TypeServer
    <2>5. /\ \A e \in map : e.query \in Requests
          /\ \A h \in held : h.request \in Requests
      BY DEF Types, TypeServer
    <2>6. Filed'
      BY <2>2, <2>3, <2>4, <2>5 DEF Filed
    <2> QED
      BY <2>1, <2>6
  <1>2. ASSUME NEW r \in Requests, CountRequest(r) PROVE Numbered' /\ Filed'
    <2>1. /\ place[r] = "new" /\ place'[r] = "counted"
          /\ \A s \in Requests \ {r} : place'[s] = place[s]
          /\ UNCHANGED <<wire, sn, queue, map, held>>
      BY <1>2 DEF CountRequest, server, Types, TypePlace
    <2>2. Numbered'
      BY <2>1, KeepNumbered
    <2>3. \A s \in Requests : Key(s)' = Key(s)
      BY <2>1, KeyStable
    <2>4. /\ \A i \in 1..Len(queue) : queue[i] \in Requests
          /\ \A e \in map : e.query \in Requests
          /\ \A h \in held : h.request \in Requests
      BY DEF Types, TypeServer
    <2>5. Filed'
      BY <2>1, <2>3, <2>4 DEF Filed
    <2> QED
      BY <2>2, <2>5
  <1>3. ASSUME NEW r \in Requests, Deliver(r) PROVE Numbered' /\ Filed'
    <2> DEFINE n == Len(queue)
    <2>1. /\ place[r] = "net" /\ UNCHANGED <<wire, sn, map, held>> /\ n \in Nat
      BY <1>3 DEF Deliver, client, Types, TypeServer
    <2>2. \A s \in Requests : Key(s)' = Key(s)
      BY <2>1, KeyStable
    <2>3. \A i \in 1..n : queue[i] \in Requests /\ queue[i] # r
      BY <2>1 DEF Types, TypeServer, Filed
    <2>4. /\ \A e \in map : e.query \in Requests
          /\ \A h \in held : h.request \in Requests
      BY DEF Types, TypeServer
    <2>5. \A s \in Requests : place[s] # place'[s] =>
              \/ s = r /\ place'[s] = "queue"
              \/ place[s] = "queue" /\ place'[s] = "dropped"
      <3>1. n = ServerDepth => 1 \in 1..n
        BY <2>1
      <3> QED
        BY <1>3, <2>1, <3>1, DeliverQueue DEF Filed, Types
    <2>6. Numbered'
      BY <2>1, <2>5, KeepNumbered
    <2>7. /\ \A i \in 1..Len(queue') : place'[queue'[i]] = "queue"
          /\ \A i, j \in 1..Len(queue') : queue'[i] = queue'[j] => i = j
      <3>1. CASE n # ServerDepth
        <4>1. /\ Len(queue') = n + 1 /\ queue'[n + 1] = r
              /\ \A i \in 1..n : queue'[i] = queue[i]
              /\ place' = [s \in Requests |-> IF s = r THEN "queue" ELSE place[s]]
          BY <1>3, <3>1, DeliverQueue DEF Types
        <4>2. \A i \in 1..(n + 1) : i = n + 1 \/ i \in 1..n
          BY <2>1
        <4> HIDE DEF n
        <4> QED
          BY <2>3, <4>1, <4>2 DEF Filed, n
      <3>2. CASE n = ServerDepth
        <4>1. /\ Len(queue') = n /\ queue'[n] = r
              /\ \A i \in 1..(n - 1) : queue'[i] = queue[i + 1]
              /\ place' = [s \in Requests |-> IF s = r THEN "queue"
                               ELSE IF s = queue[1] THEN "dropped" ELSE place[s]]
          BY <1>3, <3>2, DeliverQueue DEF Types
        <4>2. /\ \A i \in 1..n : i = n \/ i \in 1..(n - 1)
              /\ \A i \in 1..(n - 1) : i + 1 \in 1..n /\ i + 1 # 1
              /\ 1 \in 1..n
          BY <2>1, <3>2
        <4>3. \A i \in 1..(n - 1) : /\ queue'[i] # queue[1] /\ queue'[i] # r
                                     /\ queue'[i] \in Requests
                                     /\ place[queue'[i]] = "queue"
          BY <2>3, <4>1, <4>2 DEF Filed
        <4>4. \A i, j \in 1..(n - 1) : queue'[i] = queue'[j] => i = j
          <5>1. \A i, j \in 1..(n - 1) : queue[i + 1] = queue[j + 1] => i + 1 = j + 1
            BY <4>2 DEF Filed
          <5>2. \A i, j \in 1..(n - 1) : i + 1 = j + 1 => i = j
            BY <2>1
          <5> HIDE DEF n
          <5> QED
            BY <4>1, <5>1, <5>2
        <4>5. r \in Requests
          OBVIOUS
        <4> HIDE DEF n
        <4>6. \A i \in 1..n : place'[queue'[i]] = "queue"
          BY <4>1, <4>2, <4>3, <4>5
        <4>7. \A i, j \in 1..n : queue'[i] = queue'[j] => i = j
          BY <4>1, <4>2, <4>3, <4>4
        <4> QED
          BY <4>1, <4>6, <4>7
      <3> QED
        BY <3>1, <3>2
    <2>8. Filed'
      BY <2>1, <2>2, <2>4, <2>5, <2>7 DEF Filed
    <2> QED
      BY <2>6, <2>8
  <1>4. ASSUME NEW r \in Requests, QueryTimeout(r) PROVE Numbered' /\ Filed'
    BY <1>4, KeyStable DEF QueryTimeout, client, server, Numbered, Filed, Key
  <1>5. ASSUME NEW p \in replies, ReplyCallback(p) PROVE Numbered' /\ Filed'
    BY <1>5 DEF ReplyCallback, client, server, Numbered, Filed, Key
  <1>6. ASSUME NEW c \in Clients, take_response(c) PROVE Numbered' /\ Filed'
    BY <1>6 DEF take_response, client, server, Numbered, Filed, Key
  <1>7. ASSUME take_request PROVE Numbered' /\ Filed'
    <2> DEFINE r == Head(queue)
    <2>1. /\ queue # <<>> /\ queue' = Tail(queue) /\ UNCHANGED <<wire, sn>>
      BY <1>7 DEF take_request, client
    <2>2. r \in Requests /\ place[r] = "queue"
      <3>1. r \in Requests /\ r = queue[1] /\ 1 \in 1..Len(queue)
        BY <2>1, QueueTail DEF Types
      <3> QED
        BY <3>1 DEF Filed
    <2>3. CASE Store(r)
      <3>1. Filed' /\ place' = [place EXCEPT ![r] = "map"]
        BY <2>1, <2>3, StoreFiled
      <3>2. Numbered'
        BY <2>1, <2>2, <3>1, KeepNumbered DEF Types, TypePlace
      <3> QED
        BY <3>1, <3>2
    <2>4. CASE place' = [place EXCEPT ![r] = "dropped"] /\ UNCHANGED <<map, held>>
      <3>1. place'[r] = "dropped" /\ \A s \in Requests \ {r} : place'[s] = place[s]
        BY <2>2, <2>4 DEF Types, TypePlace
      <3>2. Numbered'
        BY <2>1, <2>2, <3>1, KeepNumbered
      <3>3. \A s \in Requests : Key(s)' = Key(s)
        BY <2>1, KeyStable
      <3>4. /\ \A e \in map : e.query \in Requests
            /\ \A h \in held : h.request \in Requests
        BY DEF Types, TypeServer
      <3>5. /\ \A i \in 1..Len(queue') : place'[queue'[i]] = "queue"
            /\ \A i, j \in 1..Len(queue') : queue'[i] = queue'[j] => i = j
        BY <2>1, <3>1, TailFiled
      <3>6. Filed'
        BY <2>2, <2>4, <3>1, <3>3, <3>4, <3>5 DEF Filed
      <3> QED
        BY <3>2, <3>6
    <2> QED
      BY <1>7, <2>3, <2>4 DEF take_request
  <1>8. ASSUME NEW h \in held, send_response(h) PROVE Numbered' /\ Filed'
    <2>1. PICK q \in Pending(h.key) : Reply(h, q)
      BY <1>8 DEF send_response
    <2>2. /\ q \in Requests /\ place[q] = "map" /\ h.key = Key(q) /\ wire[q] # 0
      BY <2>1 DEF Pending, Filed, Types, TypeServer, Numbered
    <2>3. /\ place'[q] = "replied" /\ \A s \in Requests \ {q} : place'[s] = place[s]
          /\ UNCHANGED <<wire, sn, queue, held>> /\ map' = Without(h.key)
      BY <1>8, <2>1, <2>2 DEF send_response, Reply, client, Types, TypePlace
    <2>4. Numbered'
      BY <2>2, <2>3, KeepNumbered
    <2>5. \A s \in Requests : Key(s)' = Key(s)
      BY <2>3, KeyStable
    <2>6. \A e \in map' : e \in map /\ e.query \in Requests /\ e.query # q
      BY <2>2, <2>3 DEF Without, Filed, Types, TypeServer
    <2>7. \A g \in held : g.request \in Requests /\ (g.request # q => g.key # h.key)
      <3> SUFFICES ASSUME NEW g \in held
                   PROVE  g.request \in Requests /\ (g.request # q => g.key # h.key)
        OBVIOUS
      <3>1. g.request \in Requests /\ g.key = Key(g.request)
        BY DEF Filed, Types, TypeServer
      <3> QED
        BY <2>2, <3>1, KeyUnique
    <2>8. \A g \in held : g.request # q /\ [key |-> g.key, query |-> g.request] \in map
                            => [key |-> g.key, query |-> g.request] \in map'
      BY <2>3, <2>7 DEF Without
    <2>9. \A i \in 1..Len(queue) : queue[i] \in Requests /\ queue[i] # q
      BY <2>2 DEF Filed, Types, TypeServer
    <2>10. Filed'
      BY <2>2, <2>3, <2>5, <2>6, <2>7, <2>8, <2>9 DEF Filed
    <2> QED
      BY <2>4, <2>10
  <1>9. CASE UNCHANGED vars
    BY <1>9 DEF vars, Numbered, Filed, Key
  <1> QED
    BY <1>1, <1>2, <1>3, <1>4, <1>5, <1>6, <1>7, <1>8, <1>9 DEF Next

\* The initial state satisfies the invariant.
LEMMA FiledInit == Init => FiledInv
  <1> SUFFICES ASSUME Init PROVE FiledInv
    OBVIOUS
  <1>1. Types
    BY TypeInit, TypeParts
  <1>2. Numbered /\ Filed
    BY DEF Init, Numbered, Filed
  <1> QED
    BY <1>1, <1>2 DEF FiledInv

\* What is filed lets the application answer every key it holds.
LEMMA FiledAnswerable == FiledInv => HeldAnswerable
  <1> SUFFICES ASSUME Types, Numbered, Filed, NEW h \in held
               PROVE  \/ Pending(h.key) = {h.request}
                      \/ Pending(h.key) = {} /\ place[h.request] = "replied"
    BY DEF FiledInv, HeldAnswerable
  <1>1. h.request \in Requests /\ h.key = Key(h.request) /\ wire[h.request] # 0
    BY DEF Filed, Numbered, Types, TypeServer
  <1>2. \A e \in map : e.key = h.key => e.query = h.request
    <2> SUFFICES ASSUME NEW e \in map, e.key = h.key PROVE e.query = h.request
      OBVIOUS
    <2>1. e.query \in Requests /\ e.key = Key(e.query)
      BY DEF Filed, Types, TypeServer
    <2> QED
      BY <1>1, <2>1, KeyUnique
  <1>3. CASE place[h.request] = "map"
    <2>1. [key |-> h.key, query |-> h.request] \in map
      BY <1>3 DEF Filed
    <2>2. h.request \in Pending(h.key)
      BY <2>1 DEF Pending
    <2> QED
      BY <1>2, <2>2 DEF Pending
  <1>4. CASE place[h.request] = "replied"
    <2>1. \A e \in map : e.key # h.key
      BY <1>2, <1>4 DEF Filed
    <2> QED
      BY <1>4, <2>1 DEF Pending
  <1> QED
    BY <1>3, <1>4 DEF Filed

\* A key that take_request returned stands for the request it came with until
\* that request is answered, for any number of clients and pending requests,
\* with the native API and with rmw's.
THEOREM HeldAnswerableCorrect == Spec => []HeldAnswerable
  <1>1. FiledInv /\ [Next]_vars => FiledInv'
    BY TypeParts, TypeStep, FiledStep DEF FiledInv
  <1> QED
    BY <1>1, FiledInit, FiledAnswerable, PTL DEF Spec

-----------------------------------------------------------------------------
(* What responses carry                                                    *)

\* A step leaves the number of a sent request alone.
LEMMA SentStable ==
    ASSUME FiledInv, [Next]_vars, NEW s \in Requests, wire[s] # 0
    PROVE  wire'[s] = wire[s]
  <1> USE DEF FiledInv
  <1>1. ASSUME NEW r \in Requests, send_request(r) \/ rmw_send_request(r)
        PROVE  wire'[s] = wire[s]
    BY <1>1, SendFacts DEF Types, TypeNumbers
  <1>2. ASSUME NEW r \in Requests, CountRequest(r) PROVE wire' = wire
    BY <1>2 DEF CountRequest
  <1>3. ASSUME NEW r \in Requests, Deliver(r) \/ QueryTimeout(r) PROVE wire' = wire
    BY <1>3 DEF Deliver, QueryTimeout, client
  <1>4. ASSUME NEW p \in replies, ReplyCallback(p) PROVE wire' = wire
    BY <1>4 DEF ReplyCallback, client
  <1>5. ASSUME NEW c \in Clients, take_response(c) PROVE wire' = wire
    BY <1>5 DEF take_response, client
  <1>6. ASSUME take_request PROVE wire' = wire
    BY <1>6 DEF take_request, client
  <1>7. ASSUME NEW h \in held, send_response(h) PROVE wire' = wire
    BY <1>7 DEF send_response, client
  <1>8. CASE UNCHANGED vars
    BY <1>8 DEF vars
  <1> QED
    BY <1>1, <1>2, <1>3, <1>4, <1>5, <1>6, <1>7, <1>8 DEF Next

\* Sound after the step.
SoundNext(p) == /\ p.answers = p.query
                /\ p.key = <<wire'[p.query], ClientOf[p.query]>>
                /\ wire'[p.query] # 0

\* A sound response stays sound.
LEMMA SoundStable ==
    ASSUME FiledInv, [Next]_vars, NEW p \in Response, Sound(p)
    PROVE  SoundNext(p)
  <1>1. p.query \in Requests /\ wire[p.query] # 0
    BY DEF Sound, Response
  <1>2. wire'[p.query] = wire[p.query]
    BY <1>1, SentStable
  <1> QED
    BY <1>1, <1>2 DEF Sound, SoundNext, Key

\* Carried after the step, from its parts.
LEMMA CarriedNext ==
    ASSUME \A p \in replies' : SoundNext(p),
           \A c \in Clients : \A i \in 1..Len(rx'[c]) :
              SoundNext(rx'[c][i]) /\ ClientOf[rx'[c][i].query] = c,
           \A t \in taken' : SoundNext(t.response) /\ ClientOf[t.response.query] = t.client
    PROVE  Carried'
  BY DEF Carried, Sound, SoundNext, Key

\* Responses stay sound, at every step.
LEMMA CarriedStep == FiledInv /\ Carried /\ [Next]_vars => Carried'
  <1> SUFFICES ASSUME FiledInv, Carried, [Next]_vars PROVE Carried'
    OBVIOUS
  <1> USE DEF FiledInv
  <1>1. \A p \in replies : p \in Response /\ SoundNext(p)
    BY SoundStable DEF Carried, Types, TypeReplies
  <1>2. \A c \in Clients : \A i \in 1..Len(rx[c]) :
            SoundNext(rx[c][i]) /\ ClientOf[rx[c][i].query] = c
    <2> SUFFICES ASSUME NEW c \in Clients, NEW i \in 1..Len(rx[c])
                 PROVE  SoundNext(rx[c][i]) /\ ClientOf[rx[c][i].query] = c
      OBVIOUS
    <2>1. rx[c][i] \in Response
      BY DEF Types, TypeChannels
    <2>2. Sound(rx[c][i]) /\ ClientOf[rx[c][i].query] = c
      BY DEF Carried
    <2> QED
      BY <2>1, <2>2, SoundStable
  <1>3. \A t \in taken : SoundNext(t.response) /\ ClientOf[t.response.query] = t.client
    <2> SUFFICES ASSUME NEW t \in taken
                 PROVE  SoundNext(t.response) /\ ClientOf[t.response.query] = t.client
      OBVIOUS
    <2>1. t.response \in Response
      BY DEF Types, TypeChannels
    <2>2. Sound(t.response) /\ ClientOf[t.response.query] = t.client
      BY DEF Carried
    <2> QED
      BY <2>1, <2>2, SoundStable
  <1>4. UNCHANGED <<replies, rx, taken>> => Carried'
    BY <1>1, <1>2, <1>3, CarriedNext
  <1>5. ASSUME NEW r \in Requests, send_request(r) \/ rmw_send_request(r) PROVE Carried'
    BY <1>4, <1>5, SendFacts
  <1>6. ASSUME NEW r \in Requests, CountRequest(r) \/ Deliver(r) \/ QueryTimeout(r)
        PROVE  Carried'
    BY <1>4, <1>6 DEF CountRequest, Deliver, QueryTimeout
  <1>7. ASSUME NEW p \in replies, ReplyCallback(p) PROVE Carried'
    <2> DEFINE c == ClientOf[p.query]
    <2>1. p \in Response /\ c \in Clients
      BY <1>1 DEF Response
    <2>2. replies' \subseteq replies /\ taken' = taken
      BY <1>7 DEF ReplyCallback
    <2>3. CASE rx' = rx
      BY <1>1, <1>2, <1>3, <2>2, <2>3, CarriedNext
    <2>4. CASE rx' = [rx EXCEPT ![c] = Append(@, p)]
      <3>1. /\ rx'[c] = Append(rx[c], p) /\ rx[c] \in Seq(Response)
            /\ \A d \in Clients \ {c} : rx'[d] = rx[d]
        BY <2>1, <2>4 DEF Types, TypeChannels
      <3>2. \A i \in 1..Len(rx'[c]) : \/ i \in 1..Len(rx[c]) /\ rx'[c][i] = rx[c][i]
                                      \/ rx'[c][i] = p
        <4> HIDE DEF c
        <4> QED
          BY <2>1, <3>1
      <3>3. \A d \in Clients : \A i \in 1..Len(rx'[d]) :
               SoundNext(rx'[d][i]) /\ ClientOf[rx'[d][i].query] = d
        <4> SUFFICES ASSUME NEW d \in Clients, NEW i \in 1..Len(rx'[d])
                     PROVE  SoundNext(rx'[d][i]) /\ ClientOf[rx'[d][i].query] = d
          OBVIOUS
        <4>1. CASE d # c
          <5>1. rx'[d] = rx[d]
            BY <3>1, <4>1
          <5> QED
            BY <1>2, <5>1
        <4>2. CASE d = c /\ rx'[c][i] = p
          BY <1>1, <4>2
        <4>3. CASE d = c /\ i \in 1..Len(rx[c]) /\ rx'[c][i] = rx[c][i]
          BY <1>2, <2>1, <4>3
        <4> QED
          BY <3>2, <4>1, <4>2, <4>3
      <3> QED
        BY <1>1, <1>3, <2>2, <3>3, CarriedNext
    <2> QED
      BY <1>7, <2>3, <2>4 DEF ReplyCallback
  <1>8. ASSUME NEW c \in Clients, take_response(c) PROVE Carried'
    <2>1. /\ Len(rx[c]) \in Nat /\ Len(rx[c]) > 0 /\ Head(rx[c]) = rx[c][1]
          /\ Len(Tail(rx[c])) = Len(rx[c]) - 1
          /\ \A i \in 1..Len(Tail(rx[c])) : Tail(rx[c])[i] = rx[c][i + 1]
      BY <1>8 DEF take_response, Types, TypeChannels
    <2>2. /\ 1 \in 1..Len(rx[c])
          /\ \A i \in 1..Len(Tail(rx[c])) : i + 1 \in 1..Len(rx[c])
      BY <2>1
    <2>3. /\ taken' = taken \cup {[client |-> c, response |-> rx[c][1]]}
          /\ rx'[c] = Tail(rx[c]) /\ \A d \in Clients \ {c} : rx'[d] = rx[d]
          /\ replies' = replies
      BY <1>8, <2>1 DEF take_response, Types, TypeChannels
    <2>4. \A d \in Clients : \A i \in 1..Len(rx'[d]) :
             SoundNext(rx'[d][i]) /\ ClientOf[rx'[d][i].query] = d
      <3> SUFFICES ASSUME NEW d \in Clients, NEW i \in 1..Len(rx'[d])
                   PROVE  SoundNext(rx'[d][i]) /\ ClientOf[rx'[d][i].query] = d
        OBVIOUS
      <3>1. CASE d # c
        <4>1. rx'[d] = rx[d]
          BY <2>3, <3>1
        <4> QED
          BY <1>2, <4>1
      <3>2. CASE d = c
        <4>1. i + 1 \in 1..Len(rx[c]) /\ rx'[d][i] = rx[c][i + 1]
          BY <2>1, <2>2, <2>3, <3>2
        <4> QED
          BY <1>2, <3>2, <4>1
      <3> QED
        BY <3>1, <3>2
    <2>5. SoundNext(rx[c][1]) /\ ClientOf[rx[c][1].query] = c
      BY <1>2, <2>2
    <2>6. \A t \in taken' : SoundNext(t.response) /\ ClientOf[t.response.query] = t.client
      BY <1>3, <2>3, <2>5
    <2> QED
      BY <1>1, <2>3, <2>4, <2>6, CarriedNext
  <1>9. ASSUME take_request PROVE Carried'
    BY <1>4, <1>9 DEF take_request
  <1>10. ASSUME NEW h \in held, send_response(h) PROVE Carried'
    <2>1. PICK q \in Pending(h.key) : Reply(h, q)
      BY <1>10 DEF send_response
    <2>2. /\ q \in Requests /\ h.key = Key(q) /\ wire[q] # 0
      BY <2>1 DEF Pending, Filed, Types, TypeServer, Numbered
    <2>3. h.request \in Requests /\ h.key = Key(h.request)
      BY DEF Filed, Types, TypeServer
    <2>4. h.request = q
      BY <2>2, <2>3, KeyUnique
    <2>5. wire'[q] = wire[q]
      BY <2>2, SentStable
    <2>6. SoundNext([query |-> q, key |-> h.key, answers |-> h.request])
      BY <2>2, <2>4, <2>5 DEF SoundNext, Key
    <2>7. /\ replies' = replies \cup {[query |-> q, key |-> h.key, answers |-> h.request]}
          /\ UNCHANGED <<rx, taken>>
      BY <1>10, <2>1 DEF send_response, Reply
    <2>8. \A p \in replies' : SoundNext(p)
      BY <1>1, <2>6, <2>7
    <2> QED
      BY <1>2, <1>3, <2>7, <2>8, CarriedNext
  <1>11. CASE UNCHANGED vars
    BY <1>4, <1>11 DEF vars
  <1> QED
    BY <1>5, <1>6, <1>7, <1>8, <1>9, <1>10, <1>11 DEF Next

-----------------------------------------------------------------------------
(* What the caller is told                                                 *)

\* The counter of an rmw client is ahead by the calls that are under way.
Ahead ==
    /\ \A c \in NativeClients : Counted(c) = {}
    /\ \A c \in Clients \ NativeClients :
          /\ IsFiniteSet(Counted(c))
          /\ sequence_counter[c] = sn[c] + Cardinality(Counted(c))

\* A number that was told is below its counter and is told once.
ToldApart ==
    /\ \A r \in Requests : told[r] = 0 <=> place[r] = "new"
    /\ \A r \in Requests : ClientOf[r] \in NativeClients => told[r] = wire[r]
    /\ \A r \in Requests : ClientOf[r] \notin NativeClients => told[r] < sequence_counter[ClientOf[r]]
    /\ \A r, s \in Requests :
          r # s /\ ClientOf[r] = ClientOf[s] /\ told[r] # 0 => told[r] # told[s]

\* A request that was sent alone is told the number it is sent with, and an rmw
\* client has told each number its counter has passed.
Crossing ==
    /\ \A r \in Requests \ crossed : wire[r] # 0 => told[r] = wire[r]
    /\ \A r \in Requests \ crossed :
          place[r] = "counted" => Counted(ClientOf[r]) = {r} /\ told[r] = sn[ClientOf[r]]
    /\ \A c \in Clients \ NativeClients : \A n \in Nat \ {0} :
          n < sequence_counter[c] => \E s \in Requests : ClientOf[s] = c /\ told[s] = n

\* However many threads call rmw_send_request through one client at a time: no
\* two callers are told one number, the counter and sn agree again as soon as no
\* call is under way, and a response reaches the client that asked with the
\* number its request was sent with.
CallersApart ==
    /\ \A r, s \in Requests :
          r # s /\ ClientOf[r] = ClientOf[s] /\ told[r] # 0 => told[r] # told[s]
    /\ \A c \in Clients \ NativeClients : Counted(c) = {} => sequence_counter[c] = sn[c]
    /\ \A t \in taken : /\ t.client = ClientOf[t.response.answers]
                        /\ t.response.key = Key(t.response.answers)

\* A step of neither kind leaves them alone.
LEMMA KeepApart ==
    ASSUME Ahead, ToldApart, Crossing, UNCHANGED <<sn, sequence_counter, told, wire, crossed>>,
           \A s \in Requests : /\ place[s] = "counted" <=> place'[s] = "counted"
                               /\ place[s] = "new" <=> place'[s] = "new"
    PROVE  Ahead' /\ ToldApart' /\ Crossing'
  <1>1. \A c \in Clients : Counted(c)' = Counted(c)
    BY DEF Counted
  <1>2. Ahead'
    BY <1>1, ApiAssumption DEF Ahead
  <1>3. ToldApart'
    BY DEF ToldApart
  <1>4. Crossing'
    BY <1>1 DEF Crossing
  <1> QED
    BY <1>2, <1>3, <1>4

\* The steps that do not send.
LEMMA OtherSteps ==
    ASSUME FiledInv, Ahead, ToldApart, Crossing,
           \/ \E r \in Requests : Deliver(r) \/ QueryTimeout(r)
           \/ \E p \in replies : ReplyCallback(p)
           \/ \E c \in Clients : take_response(c)
           \/ take_request
           \/ \E h \in held : send_response(h)
           \/ UNCHANGED vars
    PROVE  Ahead' /\ ToldApart' /\ Crossing'
  <1> USE DEF FiledInv
  <1>1. ASSUME NEW r \in Requests, Deliver(r) PROVE Ahead' /\ ToldApart' /\ Crossing'
    <2>1. place[r] = "net" /\ UNCHANGED <<sn, sequence_counter, told, wire, crossed>>
      BY <1>1 DEF Deliver, client
    <2>2. Len(queue) = ServerDepth => place[queue[1]] = "queue"
      BY DEF Filed
    <2>3. \A s \in Requests : /\ place[s] = "counted" <=> place'[s] = "counted"
                              /\ place[s] = "new" <=> place'[s] = "new"
      BY <1>1, <2>1, <2>2, DeliverQueue DEF Types
    <2> QED
      BY <2>1, <2>3, KeepApart
  <1>2. ASSUME NEW r \in Requests, QueryTimeout(r) PROVE Ahead' /\ ToldApart' /\ Crossing'
    BY <1>2, KeepApart DEF QueryTimeout, client
  <1>3. ASSUME NEW p \in replies, ReplyCallback(p) PROVE Ahead' /\ ToldApart' /\ Crossing'
    BY <1>3, KeepApart DEF ReplyCallback, client
  <1>4. ASSUME NEW c \in Clients, take_response(c) PROVE Ahead' /\ ToldApart' /\ Crossing'
    BY <1>4, KeepApart DEF take_response, client
  <1>5. ASSUME take_request PROVE Ahead' /\ ToldApart' /\ Crossing'
    <2> DEFINE r == Head(queue)
    <2>1. /\ queue # <<>> /\ queue' = Tail(queue)
          /\ UNCHANGED <<sn, sequence_counter, told, wire, crossed>>
      BY <1>5 DEF take_request, client
    <2>2. r \in Requests /\ place[r] = "queue"
      <3>1. r \in Requests /\ r = queue[1] /\ 1 \in 1..Len(queue)
        BY <2>1, QueueTail DEF Types
      <3> QED
        BY <3>1 DEF Filed
    <2>3. Store(r) \/ place' = [place EXCEPT ![r] = "dropped"]
      BY <1>5 DEF take_request
    <2>4. Store(r) => place' = [place EXCEPT ![r] = "map"]
      BY <2>1, StoreFiled
    <2>5. \A s \in Requests : /\ place[s] = "counted" <=> place'[s] = "counted"
                              /\ place[s] = "new" <=> place'[s] = "new"
      BY <2>2, <2>3, <2>4 DEF Types, TypePlace
    <2> QED
      BY <2>1, <2>5, KeepApart
  <1>6. ASSUME NEW h \in held, send_response(h) PROVE Ahead' /\ ToldApart' /\ Crossing'
    <2>1. PICK q \in Pending(h.key) : Reply(h, q)
      BY <1>6 DEF send_response
    <2>2. q \in Requests /\ place[q] = "map"
      BY <2>1 DEF Pending, Filed, Types, TypeServer
    <2>3. \A s \in Requests : /\ place[s] = "counted" <=> place'[s] = "counted"
                              /\ place[s] = "new" <=> place'[s] = "new"
      BY <2>1, <2>2 DEF Reply, Types, TypePlace
    <2> QED
      BY <1>6, <2>3, KeepApart DEF send_response, client
  <1>7. CASE UNCHANGED vars
    BY <1>7, KeepApart DEF vars
  <1> QED
    BY <1>1, <1>2, <1>3, <1>4, <1>5, <1>6, <1>7

\* A native client tells the number that it sends.
LEMMA NativeApart ==
    ASSUME FiledInv, Ahead, ToldApart, NEW r \in Requests, send_request(r)
    PROVE  Ahead' /\ ToldApart'
  <1> USE DEF FiledInv
  <1> DEFINE c == ClientOf[r]
  <1>1. /\ c \in NativeClients /\ told'[r] = sn[c] /\ wire'[r] = sn[c] /\ place[r] = "new"
        /\ \A s \in Requests \ {r} : told'[s] = told[s] /\ wire'[s] = wire[s] /\ place'[s] = place[s]
        /\ \A d \in Clients \ {c} : sn'[d] = sn[d]
        /\ UNCHANGED sequence_counter /\ place'[r] \in {"net", "failed"}
        /\ sn[c] \in Nat /\ sn[c] # 0
    <2>1. /\ place[r] = "new" /\ c \in NativeClients /\ UNCHANGED sequence_counter
          /\ told' = [told EXCEPT ![r] = sn[c]]
      BY DEF send_request
    <2>2. /\ wire' = [wire EXCEPT ![r] = sn[c]] /\ sn' = [sn EXCEPT ![c] = @ + 1]
          /\ place'[r] \in {"net", "failed"}
          /\ \A s \in Requests \ {r} : place'[s] = place[s]
      BY SendFacts
    <2>3. c \in Clients /\ sn[c] \in Nat /\ sn[c] # 0
      BY DEF Types, TypeNumbers
    <2> QED
      BY <2>1, <2>2, <2>3 DEF Types, TypeNumbers
  <1>2. \A d \in Clients : Counted(d)' = Counted(d)
    BY <1>1 DEF Counted
  <1>3. Ahead'
    BY <1>1, <1>2, ApiAssumption DEF Ahead
  <1>4. \A s \in Requests : ClientOf[s] = c => told[s] = wire[s] /\ wire[s] < sn[c] /\ wire[s] \in Nat
    BY <1>1 DEF ToldApart, Numbered, Types, TypeNumbers
  <1>5. \A s \in Requests \ {r} : ClientOf[s] = c => told'[s] # told'[r]
    BY <1>1, <1>4
  <1>6. \A s \in Requests : told'[s] = 0 <=> place'[s] = "new"
    BY <1>1 DEF ToldApart
  <1>7. \A s \in Requests : ClientOf[s] \in NativeClients => told'[s] = wire'[s]
    BY <1>1 DEF ToldApart
  <1>8. \A s \in Requests : ClientOf[s] \notin NativeClients => told'[s] < sequence_counter'[ClientOf[s]]
    BY <1>1 DEF ToldApart
  <1>9. ASSUME NEW s \in Requests, NEW u \in Requests, s # u, ClientOf[s] = ClientOf[u], told'[s] # 0
        PROVE  told'[s] # told'[u]
    <2>1. CASE s = r \/ u = r
      BY <1>5, <1>9, <2>1
    <2>2. CASE s # r /\ u # r
      BY <1>1, <1>9, <2>2 DEF ToldApart
    <2> QED
      BY <2>1, <2>2
  <1>10. ToldApart'
    BY <1>6, <1>7, <1>8, <1>9 DEF ToldApart
  <1> QED
    BY <1>3, <1>10

\* A call that is counted is one more under way.
LEMMA CountApart ==
    ASSUME FiledInv, Ahead, ToldApart, NEW r \in Requests, CountRequest(r)
    PROVE  Ahead' /\ ToldApart'
  <1> USE DEF FiledInv
  <1> DEFINE c == ClientOf[r]
  <1>1. /\ c \in Clients \ NativeClients /\ place[r] = "new"
        /\ told'[r] = sequence_counter[c]
        /\ \A s \in Requests \ {r} : told'[s] = told[s] /\ place'[s] = place[s]
        /\ place'[r] = "counted" /\ UNCHANGED <<sn, wire>>
        /\ sequence_counter'[c] = sequence_counter[c] + 1
        /\ \A d \in Clients \ {c} : sequence_counter'[d] = sequence_counter[d]
        /\ sequence_counter[c] \in Nat /\ sequence_counter[c] # 0 /\ sn[c] \in Nat
    BY DEF CountRequest, Types, TypeNumbers, TypePlace
  <1>2. Counted(c)' = Counted(c) \cup {r} /\ r \notin Counted(c)
    BY <1>1 DEF Counted
  <1>3. \A d \in Clients \ {c} : Counted(d)' = Counted(d)
    BY <1>1 DEF Counted
  <1>4. Ahead'
    <2>1. IsFiniteSet(Counted(c)) /\ sequence_counter[c] = sn[c] + Cardinality(Counted(c))
      BY <1>1 DEF Ahead
    <2>2. Cardinality(Counted(c)) \in Nat
      BY <2>1, FS_CardinalityType
    <2>3. /\ IsFiniteSet(Counted(c) \cup {r})
          /\ Cardinality(Counted(c) \cup {r}) =
                IF r \in Counted(c) THEN Cardinality(Counted(c)) ELSE Cardinality(Counted(c)) + 1
      BY <2>1, FS_AddElement
    <2>4. IsFiniteSet(Counted(c)') /\ Cardinality(Counted(c)') = Cardinality(Counted(c)) + 1
      BY <1>2, <2>3
    <2>5. sequence_counter'[c] = sn'[c] + Cardinality(Counted(c)')
      BY <1>1, <2>1, <2>2, <2>4
    <2>6. ASSUME NEW d \in Clients \ NativeClients
          PROVE  IsFiniteSet(Counted(d)') /\ sequence_counter'[d] = sn'[d] + Cardinality(Counted(d)')
      <3>1. CASE d = c
        BY <2>4, <2>5, <3>1
      <3>2. CASE d # c
        BY <1>1, <1>3, <3>2 DEF Ahead
      <3> QED
        BY <3>1, <3>2
    <2>7. \A d \in NativeClients : Counted(d)' = {}
      BY <1>1, <1>3, ApiAssumption DEF Ahead
    <2> QED
      BY <2>6, <2>7 DEF Ahead
  <1>5. \A s \in Requests \ {r} : ClientOf[s] = c => told'[s] # told'[r]
    <2>1. \A s \in Requests : ClientOf[s] = c => told[s] < sequence_counter[c] /\ told[s] \in Nat
      BY <1>1 DEF ToldApart, Types, TypeNumbers
    <2> QED
      BY <1>1, <2>1
  <1>6. \A s \in Requests : told'[s] = 0 <=> place'[s] = "new"
    BY <1>1 DEF ToldApart
  <1>7. \A s \in Requests : ClientOf[s] \in NativeClients => told'[s] = wire'[s]
    BY <1>1 DEF ToldApart
  <1>8. ASSUME NEW s \in Requests, ClientOf[s] \notin NativeClients
        PROVE  told'[s] < sequence_counter'[ClientOf[s]]
    <2>0. told[s] \in Nat /\ told[s] < sequence_counter[ClientOf[s]]
      BY <1>8 DEF ToldApart, Types, TypeNumbers
    <2>1. CASE s = r
      BY <1>1, <2>1
    <2>2. CASE s # r /\ ClientOf[s] = c
      BY <1>1, <2>0, <2>2
    <2>3. CASE ClientOf[s] # c
      BY <1>1, <2>0, <2>3
    <2> QED
      BY <2>1, <2>2, <2>3
  <1>9. ASSUME NEW s \in Requests, NEW u \in Requests, s # u, ClientOf[s] = ClientOf[u], told'[s] # 0
        PROVE  told'[s] # told'[u]
    <2>1. CASE s = r \/ u = r
      BY <1>5, <1>9, <2>1
    <2>2. CASE s # r /\ u # r
      BY <1>1, <1>9, <2>2 DEF ToldApart
    <2> QED
      BY <2>1, <2>2
  <1>10. ToldApart'
    BY <1>6, <1>7, <1>8, <1>9 DEF ToldApart
  <1> QED
    BY <1>4, <1>10

\* A call that sends is one less under way.
LEMMA SendApart ==
    ASSUME FiledInv, Ahead, ToldApart, NEW r \in Requests, rmw_send_request(r)
    PROVE  Ahead' /\ ToldApart'
  <1> USE DEF FiledInv
  <1> DEFINE c == ClientOf[r]
  <1>1. /\ place[r] = "counted" /\ c \in Clients
        /\ UNCHANGED <<told, sequence_counter>>
        /\ \A s \in Requests \ {r} : wire'[s] = wire[s]
        /\ sn'[c] = sn[c] + 1 /\ \A d \in Clients \ {c} : sn'[d] = sn[d]
        /\ place'[r] \in {"net", "failed"}
        /\ \A s \in Requests \ {r} : place'[s] = place[s]
        /\ sn[c] \in Nat
    BY SendFacts DEF rmw_send_request, Types, TypeNumbers
  <1>2. r \in Counted(c) /\ Counted(c)' = Counted(c) \ {r}
    BY <1>1 DEF Counted
  <1>3. c \notin NativeClients
    BY <1>2 DEF Ahead
  <1>4. \A d \in Clients \ {c} : Counted(d)' = Counted(d)
    BY <1>1 DEF Counted
  <1>5. Ahead'
    <2>1. IsFiniteSet(Counted(c)) /\ sequence_counter[c] = sn[c] + Cardinality(Counted(c))
      BY <1>1, <1>3 DEF Ahead
    <2>2. Cardinality(Counted(c)) \in Nat
      BY <2>1, FS_CardinalityType
    <2>3. /\ IsFiniteSet(Counted(c) \ {r})
          /\ Cardinality(Counted(c) \ {r}) =
                IF r \in Counted(c) THEN Cardinality(Counted(c)) - 1 ELSE Cardinality(Counted(c))
      BY <2>1, FS_RemoveElement
    <2>4. IsFiniteSet(Counted(c)') /\ Cardinality(Counted(c)') = Cardinality(Counted(c)) - 1
      BY <1>2, <2>3
    <2>5. sequence_counter'[c] = sn'[c] + Cardinality(Counted(c)')
      BY <1>1, <2>1, <2>2, <2>4
    <2>6. ASSUME NEW d \in Clients \ NativeClients
          PROVE  IsFiniteSet(Counted(d)') /\ sequence_counter'[d] = sn'[d] + Cardinality(Counted(d)')
      <3>1. CASE d = c
        BY <2>4, <2>5, <3>1
      <3>2. CASE d # c
        BY <1>1, <1>4, <3>2 DEF Ahead
      <3> QED
        BY <3>1, <3>2
    <2>7. \A d \in NativeClients : Counted(d)' = {}
      BY <1>3, <1>4, ApiAssumption DEF Ahead
    <2> QED
      BY <2>6, <2>7 DEF Ahead
  <1>6. \A s \in Requests : told'[s] = 0 <=> place'[s] = "new"
    BY <1>1 DEF ToldApart
  <1>7. \A s \in Requests : ClientOf[s] \in NativeClients => told'[s] = wire'[s]
    BY <1>1, <1>3 DEF ToldApart
  <1>8. ToldApart'
    BY <1>1, <1>6, <1>7 DEF ToldApart
  <1> QED
    BY <1>5, <1>8

\* A native client's requests are not counted, and tell what they send.
LEMMA NativeCrossing ==
    ASSUME FiledInv, Ahead, ToldApart, Crossing, NEW r \in Requests, send_request(r)
    PROVE  Crossing'
  <1> USE DEF FiledInv
  <1> DEFINE c == ClientOf[r]
  <1>1. /\ c \in NativeClients /\ place[r] = "new" /\ UNCHANGED <<sequence_counter, crossed>>
        /\ told' = [told EXCEPT ![r] = sn[c]]
    BY DEF send_request
  <1>2. /\ wire' = [wire EXCEPT ![r] = sn[c]] /\ sn' = [sn EXCEPT ![c] = @ + 1]
        /\ place'[r] \in {"net", "failed"}
        /\ \A s \in Requests \ {r} : place'[s] = place[s]
    BY SendFacts
  <1>3. /\ told'[r] = wire'[r]
        /\ \A s \in Requests \ {r} : told'[s] = told[s] /\ wire'[s] = wire[s]
        /\ \A d \in Clients \ {c} : sn'[d] = sn[d]
    BY <1>1, <1>2 DEF Types, TypeNumbers
  <1>4. \A d \in Clients : Counted(d)' = Counted(d)
    BY <1>1, <1>2 DEF Counted
  <1>5. \A s \in Requests \ crossed : wire'[s] # 0 => told'[s] = wire'[s]
    BY <1>3 DEF Crossing
  <1>6. ASSUME NEW s \in Requests \ crossed, place'[s] = "counted"
        PROVE  Counted(ClientOf[s])' = {s} /\ told'[s] = sn'[ClientOf[s]]
    <2>1. s # r /\ place[s] = "counted"
      BY <1>2, <1>6
    <2>2. s \in Counted(ClientOf[s]) /\ ClientOf[s] \in Clients
      BY <2>1 DEF Counted
    <2>3. ClientOf[s] # c
      BY <1>1, <2>2 DEF Ahead
    <2> QED
      BY <1>3, <1>4, <2>1, <2>2, <2>3 DEF Crossing
  <1>7. ASSUME NEW d \in Clients \ NativeClients, NEW n \in Nat \ {0}, n < sequence_counter'[d]
        PROVE  \E s \in Requests : ClientOf[s] = d /\ told'[s] = n
    <2>1. PICK s \in Requests : ClientOf[s] = d /\ told[s] = n
      BY <1>1, <1>7 DEF Crossing
    <2>2. s # r
      BY <1>1, <2>1
    <2> QED
      BY <1>3, <2>1, <2>2
  <1> QED
    BY <1>1, <1>5, <1>6, <1>7 DEF Crossing

\* A call that is counted alone is told what sn holds; one that is not marks
\* every call under way, itself included.
LEMMA CountCrossing ==
    ASSUME FiledInv, Ahead, ToldApart, Crossing, NEW r \in Requests, CountRequest(r)
    PROVE  Crossing'
  <1> USE DEF FiledInv
  <1> DEFINE c == ClientOf[r]
  <1>1. /\ c \in Clients \ NativeClients /\ place[r] = "new"
        /\ told'[r] = sequence_counter[c]
        /\ \A s \in Requests \ {r} : told'[s] = told[s] /\ place'[s] = place[s]
        /\ place'[r] = "counted" /\ UNCHANGED <<sn, wire>>
        /\ sequence_counter'[c] = sequence_counter[c] + 1
        /\ \A d \in Clients \ {c} : sequence_counter'[d] = sequence_counter[d]
        /\ sequence_counter[c] \in Nat /\ sequence_counter[c] # 0 /\ sn[c] \in Nat
    BY DEF CountRequest, Types, TypeNumbers, TypePlace
  <1>2. /\ \A s \in crossed : s \in crossed'
        /\ Counted(c) # {} => r \in crossed' /\ \A s \in Counted(c) : s \in crossed'
    BY DEF CountRequest
  <1>3. wire[r] = 0 /\ told[r] = 0
    BY <1>1 DEF Numbered, ToldApart
  <1>4. Counted(c)' = Counted(c) \cup {r}
    BY <1>1 DEF Counted
  <1>5. \A d \in Clients \ {c} : Counted(d)' = Counted(d)
    BY <1>1 DEF Counted
  <1>6. Counted(c) = {} => sequence_counter[c] = sn[c]
    <2>1. Counted(c) = {} => sequence_counter[c] = sn[c] + Cardinality({})
      BY <1>1 DEF Ahead
    <2> QED
      BY <1>1, <2>1, FS_EmptySet
  <1>7. \A s \in Requests \ crossed' : wire'[s] # 0 => told'[s] = wire'[s]
    BY <1>1, <1>2, <1>3 DEF Crossing
  <1>8. ASSUME NEW s \in Requests \ crossed', place'[s] = "counted"
        PROVE  Counted(ClientOf[s])' = {s} /\ told'[s] = sn'[ClientOf[s]]
    <2>1. CASE s = r
      <3>1. Counted(c) = {}
        BY <1>2, <1>8, <2>1
      <3> QED
        BY <1>1, <1>4, <1>6, <2>1, <3>1
    <2>2. CASE s # r
      <3>1. s \notin crossed /\ place[s] = "counted"
        BY <1>1, <1>2, <1>8, <2>2
      <3>2. s \in Counted(ClientOf[s]) /\ ClientOf[s] \in Clients
        BY <3>1 DEF Counted
      <3>3. ClientOf[s] # c
        BY <1>2, <1>8, <3>2
      <3> QED
        BY <1>1, <1>5, <2>2, <3>1, <3>2, <3>3 DEF Crossing
    <2> QED
      BY <2>1, <2>2
  <1>9. ASSUME NEW d \in Clients \ NativeClients, NEW n \in Nat \ {0}, n < sequence_counter'[d]
        PROVE  \E s \in Requests : ClientOf[s] = d /\ told'[s] = n
    <2>1. CASE n < sequence_counter[d]
      <3>1. PICK s \in Requests : ClientOf[s] = d /\ told[s] = n
        BY <2>1 DEF Crossing
      <3>2. s # r
        BY <1>3, <3>1
      <3> QED
        BY <1>1, <3>1, <3>2
    <2>2. CASE ~(n < sequence_counter[d])
      <3>1. d = c
        BY <1>1, <1>9, <2>2
      <3>2. n = sequence_counter[c]
        BY <1>1, <1>9, <2>2, <3>1
      <3> QED
        BY <1>1, <3>1, <3>2
    <2> QED
      BY <2>1, <2>2
  <1> QED
    BY <1>7, <1>8, <1>9 DEF Crossing

\* A call that sends alone sends what it was told.
LEMMA SendCrossing ==
    ASSUME FiledInv, Ahead, ToldApart, Crossing, NEW r \in Requests, rmw_send_request(r)
    PROVE  Crossing'
  <1> USE DEF FiledInv
  <1> DEFINE c == ClientOf[r]
  <1>1. /\ place[r] = "counted" /\ c \in Clients
        /\ UNCHANGED <<told, sequence_counter, crossed>>
        /\ wire'[r] = sn[c] /\ \A s \in Requests \ {r} : wire'[s] = wire[s]
        /\ \A d \in Clients \ {c} : sn'[d] = sn[d]
        /\ place'[r] \in {"net", "failed"}
        /\ \A s \in Requests \ {r} : place'[s] = place[s]
    BY SendFacts DEF rmw_send_request, Types, TypeNumbers
  <1>2. r \in Counted(c)
    BY <1>1 DEF Counted
  <1>3. \A d \in Clients \ {c} : Counted(d)' = Counted(d)
    BY <1>1 DEF Counted
  <1>4. \A s \in Requests \ crossed : wire'[s] # 0 => told'[s] = wire'[s]
    BY <1>1 DEF Crossing
  <1>5. ASSUME NEW s \in Requests \ crossed, place'[s] = "counted"
        PROVE  Counted(ClientOf[s])' = {s} /\ told'[s] = sn'[ClientOf[s]]
    <2>1. s # r /\ place[s] = "counted"
      BY <1>1, <1>5
    <2>2. Counted(ClientOf[s]) = {s} /\ told[s] = sn[ClientOf[s]] /\ ClientOf[s] \in Clients
      BY <2>1 DEF Crossing
    <2>3. ClientOf[s] # c
      BY <1>2, <2>1, <2>2
    <2> QED
      BY <1>1, <1>3, <2>2, <2>3
  <1>6. \A d \in Clients \ NativeClients : \A n \in Nat \ {0} :
           n < sequence_counter'[d] => \E s \in Requests : ClientOf[s] = d /\ told'[s] = n
    BY <1>1 DEF Crossing
  <1> QED
    BY <1>1, <1>4, <1>5, <1>6 DEF Crossing

\* The invariant behind CallersApart and Correlated.
ToldInv == FiledInv /\ Carried /\ Ahead /\ ToldApart /\ Crossing

\* It holds initially.
LEMMA ToldInit == Init => ToldInv
  <1> SUFFICES ASSUME Init PROVE ToldInv
    OBVIOUS
  <1>1. \A c \in Clients : Counted(c) = {}
    BY DEF Init, Counted
  <1>2. \A c \in Clients : sequence_counter[c] = 1 /\ sn[c] = 1
    BY DEF Init
  <1>3. Ahead
    <2>1. IsFiniteSet({}) /\ Cardinality({}) = 0
      BY FS_EmptySet
    <2>2. \A c \in Clients \ NativeClients : sequence_counter[c] = sn[c] + Cardinality({})
      BY <1>2, <2>1
    <2> QED
      BY <1>1, <2>1, <2>2, ApiAssumption DEF Ahead
  <1>4. ToldApart
    BY DEF Init, ToldApart
  <1>5. Crossing
    <2>1. \A r \in Requests : wire[r] = 0 /\ place[r] = "new"
      BY DEF Init
    <2>2. \A c \in Clients : \A n \in Nat \ {0} : ~(n < sequence_counter[c])
      BY <1>2
    <2> QED
      BY <2>1, <2>2 DEF Crossing
  <1>6. Carried
    BY DEF Init, Carried
  <1> QED
    BY <1>3, <1>4, <1>5, <1>6, FiledInit DEF ToldInv

\* Every step keeps it.
LEMMA ToldStep == ToldInv /\ [Next]_vars => ToldInv'
  <1> SUFFICES ASSUME FiledInv, Carried, Ahead, ToldApart, Crossing, [Next]_vars PROVE ToldInv'
    BY DEF ToldInv
  <1>1. FiledInv'
    BY TypeParts, TypeStep, FiledStep DEF FiledInv
  <1>2. Carried'
    BY CarriedStep
  <1>3. Ahead' /\ ToldApart' /\ Crossing'
    BY OtherSteps, NativeApart, CountApart, SendApart, NativeCrossing, CountCrossing, SendCrossing
       DEF Next
  <1> QED
    BY <1>1, <1>2, <1>3 DEF ToldInv

\* Whatever the threads of a client do, their callers are told different
\* numbers, overlapping calls do not set the counters apart for later ones, and
\* responses come with the number their request was sent with: only calls that
\* overlap can be told each other's number.
THEOREM CallersApartCorrect == Spec => []CallersApart
  <1>1. ToldInv => CallersApart
    <2> SUFFICES ASSUME ToldInv PROVE CallersApart
      OBVIOUS
    <2> USE DEF ToldInv
    <2>1. ASSUME NEW c \in Clients \ NativeClients, Counted(c) = {} PROVE sequence_counter[c] = sn[c]
      <3>1. sequence_counter[c] = sn[c] + Cardinality({}) /\ sn[c] \in Nat
        BY <2>1 DEF Ahead, FiledInv, Types, TypeNumbers
      <3> QED
        BY <3>1, FS_EmptySet
    <2>2. ASSUME NEW t \in taken
          PROVE  t.client = ClientOf[t.response.answers] /\ t.response.key = Key(t.response.answers)
      BY DEF Carried, Sound
    <2> QED
      BY <2>1, <2>2 DEF CallersApart, ToldApart
  <1> QED
    BY <1>1, ToldInit, ToldStep, PTL DEF Spec

\* For any number of clients, requests and threads, with native and rmw clients,
\* and with no lock around rmw_send_request: a response comes out at the client
\* that asked, with the number its caller was told, or with that of another call
\* of this client that overlapped with a call as its own did.
THEOREM CorrelatedCorrect == Spec => []Correlated
  <1>1. ToldInv => Correlated
    <2> SUFFICES ASSUME ToldInv, NEW t \in taken
                 PROVE  LET r == t.response.answers IN
                        /\ t.client = ClientOf[r]
                        /\ \E s \in Requests : /\ ClientOf[s] = ClientOf[r]
                                               /\ told[s] = t.response.key[1]
                                               /\ s = r \/ {r, s} \subseteq crossed
      BY DEF Correlated
    <2> USE DEF ToldInv, FiledInv
    <2>1. t.response \in Response
      BY DEF Types, TypeChannels
    <2>2. Sound(t.response) /\ ClientOf[t.response.query] = t.client
      BY DEF Carried
    <2>3. PICK r \in Requests : r = t.response.answers
      BY <2>1 DEF Response
    <2>4. /\ t.client = ClientOf[r] /\ t.response.key[1] = wire[r] /\ wire[r] # 0
      BY <2>1, <2>2, <2>3 DEF Sound, Key, Response
    <2>5. PICK c \in Clients : c = ClientOf[r]
      BY <2>3
    <2>6. \E s \in Requests : ClientOf[s] = c /\ told[s] = wire[r] /\ (s = r \/ {r, s} \subseteq crossed)
      <3>1. CASE c \in NativeClients
        BY <2>5, <3>1 DEF ToldApart
      <3>2. CASE c \notin NativeClients
        <4>1. /\ sequence_counter[c] = sn[c] + Cardinality(Counted(c))
              /\ Cardinality(Counted(c)) \in Nat /\ sn[c] \in Nat
          BY <3>2, FS_CardinalityType DEF Ahead, Types, TypeNumbers
        <4>2. wire[r] \in Nat \ {0} /\ wire[r] < sn[c]
          BY <2>4, <2>5 DEF Numbered, Types, TypeNumbers
        <4>3. wire[r] < sequence_counter[c]
          BY <4>1, <4>2
        <4>4. PICK s \in Requests : ClientOf[s] = c /\ told[s] = wire[r]
          BY <3>2, <4>2, <4>3 DEF Crossing
        <4>5. CASE s = r
          BY <4>4, <4>5
        <4>6. CASE s # r
          <5>1. r \in crossed
            <6>1. told[s] # told[r]
              BY <2>5, <4>2, <4>4, <4>6 DEF ToldApart
            <6> QED
              BY <4>2, <4>4, <6>1 DEF Crossing
          <5>2. s \in crossed
            <6>1. CASE wire[s] # 0
              <7>1. wire[s] # wire[r]
                BY <2>5, <4>4, <4>6, <6>1 DEF Numbered
              <7> QED
                BY <4>4, <6>1, <7>1 DEF Crossing
            <6>2. CASE wire[s] = 0
              <7>1. place[s] # "new"
                BY <4>2, <4>4 DEF ToldApart
              <7>2. place[s] = "counted"
                BY <6>2, <7>1 DEF Numbered
              <7>3. told[s] # sn[c]
                BY <4>1, <4>2, <4>4
              <7> QED
                BY <4>4, <7>2, <7>3 DEF Crossing
            <6> QED
              BY <6>1, <6>2
          <5> QED
            BY <4>4, <5>1, <5>2
        <4> QED
          BY <4>5, <4>6
      <3> QED
        BY <3>1, <3>2
    <2> QED
      BY <2>3, <2>4, <2>5, <2>6
  <1> QED
    BY <1>1, ToldInit, ToldStep, PTL DEF Spec

-----------------------------------------------------------------------------
(* One response for a request                                              *)

\* A response answers a query that left the map for good, and there is one.
Single ==
    /\ \A p \in replies : place[p.query] = "replied"
    /\ \A c \in Clients : \A i \in 1..Len(rx[c]) :
          /\ place[rx[c][i].query] = "replied"
          /\ \A p \in replies : p.query # rx[c][i].query
          /\ \A j \in 1..Len(rx[c]) : rx[c][i].query = rx[c][j].query => i = j
    /\ \A t \in taken :
          /\ place[t.response.query] = "replied"
          /\ \A p \in replies : p.query # t.response.query
          /\ \A c \in Clients : \A i \in 1..Len(rx[c]) :
                rx[c][i].query # t.response.query

\* A query that was replied to is never queued or stored again.
LEMMA RepliedStable ==
    ASSUME FiledInv, [Next]_vars, NEW s \in Requests, place[s] = "replied"
    PROVE  place'[s] = "replied"
  <1> USE DEF FiledInv
  <1>1. ASSUME NEW r \in Requests, send_request(r) \/ rmw_send_request(r)
        PROVE  place'[s] = "replied"
    BY <1>1, SendFacts
  <1>2. ASSUME NEW r \in Requests, CountRequest(r) PROVE place'[s] = "replied"
    BY <1>2 DEF CountRequest, Types, TypePlace
  <1>3. ASSUME NEW r \in Requests, Deliver(r) PROVE place'[s] = "replied"
    <2>1. place[r] = "net"
      BY <1>3 DEF Deliver
    <2>2. Len(queue) = ServerDepth => place[queue[1]] = "queue"
      BY DEF Filed
    <2> QED
      BY <1>3, <2>1, <2>2, DeliverQueue DEF Types
  <1>4. ASSUME NEW r \in Requests, QueryTimeout(r) PROVE place' = place
    BY <1>4 DEF QueryTimeout
  <1>5. ASSUME NEW p \in replies, ReplyCallback(p) PROVE place' = place
    BY <1>5 DEF ReplyCallback
  <1>6. ASSUME NEW c \in Clients, take_response(c) PROVE place' = place
    BY <1>6 DEF take_response
  <1>7. ASSUME take_request PROVE place'[s] = "replied"
    <2> DEFINE r == Head(queue)
    <2>1. queue # <<>> /\ queue' = Tail(queue) /\ wire' = wire
      BY <1>7 DEF take_request, client
    <2>2. r \in Requests /\ place[r] = "queue"
      <3>1. r \in Requests /\ r = queue[1] /\ 1 \in 1..Len(queue)
        BY <2>1, QueueTail DEF Types
      <3> QED
        BY <3>1 DEF Filed
    <2>3. CASE Store(r)
      <3>1. place' = [place EXCEPT ![r] = "map"]
        BY <2>1, <2>3, StoreFiled
      <3> QED
        BY <2>2, <3>1 DEF Types, TypePlace
    <2>4. CASE place' = [place EXCEPT ![r] = "dropped"]
      BY <2>2, <2>4 DEF Types, TypePlace
    <2> QED
      BY <1>7, <2>3, <2>4 DEF take_request
  <1>8. ASSUME NEW h \in held, send_response(h) PROVE place'[s] = "replied"
    BY <1>8 DEF send_response, Reply, Types, TypePlace
  <1>9. CASE UNCHANGED vars
    BY <1>9 DEF vars
  <1> QED
    BY <1>1, <1>2, <1>3, <1>4, <1>5, <1>6, <1>7, <1>8, <1>9 DEF Next

\* The response to a query stays in one place, at every step.
LEMMA SingleStep == FiledInv /\ Carried /\ Single /\ [Next]_vars => Single'
  <1> SUFFICES ASSUME FiledInv, Carried, Single, [Next]_vars PROVE Single'
    OBVIOUS
  <1> USE DEF FiledInv
  <1>1. /\ \A p \in replies : p.query \in Requests /\ place'[p.query] = "replied"
        /\ \A t \in taken : /\ t.response.query \in Requests
                            /\ place'[t.response.query] = "replied"
    BY RepliedStable DEF Single, Types, TypeReplies, TypeChannels, Response
  <1>2. \A c \in Clients : \A i \in 1..Len(rx[c]) :
            rx[c][i] \in Response /\ place'[rx[c][i].query] = "replied"
    <2> SUFFICES ASSUME NEW c \in Clients, NEW i \in 1..Len(rx[c])
                 PROVE  rx[c][i] \in Response /\ place'[rx[c][i].query] = "replied"
      OBVIOUS
    <2>1. rx[c][i] \in Response
      BY DEF Types, TypeChannels
    <2>2. rx[c][i].query \in Requests /\ place[rx[c][i].query] = "replied"
      BY <2>1 DEF Single, Response
    <2> QED
      BY <2>1, <2>2, RepliedStable
  <1>3. UNCHANGED <<replies, rx, taken>> => Single'
    BY <1>1, <1>2 DEF Single
  <1>4. ASSUME NEW r \in Requests, send_request(r) \/ rmw_send_request(r) PROVE Single'
    BY <1>3, <1>4, SendFacts
  <1>5. ASSUME NEW r \in Requests, CountRequest(r) \/ Deliver(r) \/ QueryTimeout(r)
        PROVE  Single'
    BY <1>3, <1>5 DEF CountRequest, Deliver, QueryTimeout
  <1>6. ASSUME NEW p \in replies, ReplyCallback(p) PROVE Single'
    <2> DEFINE c == ClientOf[p.query]
    <2>1. p \in Response /\ c \in Clients
      BY DEF Types, TypeReplies, Response
    <2>2. replies' = replies \ {p} /\ taken' = taken
      BY <1>6 DEF ReplyCallback
    <2>3. CASE rx' = rx
      BY <1>1, <1>2, <2>2, <2>3 DEF Single
    <2>4. CASE rx' = [rx EXCEPT ![c] = Append(@, p)]
      <3>1. /\ rx'[c] = Append(rx[c], p) /\ rx[c] \in Seq(Response)
            /\ \A d \in Clients \ {c} : rx'[d] = rx[d]
        BY <2>1, <2>4 DEF Types, TypeChannels
      <3>2. \A i \in 1..Len(rx'[c]) : \/ i \in 1..Len(rx[c]) /\ rx'[c][i] = rx[c][i]
                                      \/ i = Len(rx[c]) + 1 /\ rx'[c][i] = p
        <4> HIDE DEF c
        <4> QED
          BY <2>1, <3>1
      <3>3. \A q \in replies' : q \in replies /\ q.query # p.query
        BY <2>2 DEF Carried, Sound, Types, TypeReplies, Response
      <3>4. \A d \in Clients : \A i \in 1..Len(rx'[d]) :
               \/ i \in 1..Len(rx[d]) /\ rx'[d][i] = rx[d][i]
               \/ d = c /\ i = Len(rx[c]) + 1 /\ rx'[d][i] = p
        <4> HIDE DEF c
        <4> QED
          BY <3>1, <3>2
      <3>5. \A d \in Clients : \A i \in 1..Len(rx'[d]) :
               /\ place'[rx'[d][i].query] = "replied"
               /\ \A q \in replies' : q.query # rx'[d][i].query
        BY <1>1, <1>2, <3>3, <3>4 DEF Single
      <3>6. \A d \in Clients : \A i, j \in 1..Len(rx'[d]) :
               rx'[d][i].query = rx'[d][j].query => i = j
        <4> SUFFICES ASSUME NEW d \in Clients, NEW i \in 1..Len(rx'[d]),
                            NEW j \in 1..Len(rx'[d]),
                            rx'[d][i].query = rx'[d][j].query
                     PROVE  i = j
          OBVIOUS
        <4>1. CASE /\ i \in 1..Len(rx[d]) /\ rx'[d][i] = rx[d][i]
                   /\ j \in 1..Len(rx[d]) /\ rx'[d][j] = rx[d][j]
          BY <4>1 DEF Single
        <4>2. CASE i = Len(rx[c]) + 1 /\ j = Len(rx[c]) + 1
          BY <4>2
        <4>3. CASE i \in 1..Len(rx[d]) /\ rx'[d][i] = rx[d][i] /\ rx'[d][j] = p
          BY <4>3 DEF Single
        <4>4. CASE j \in 1..Len(rx[d]) /\ rx'[d][j] = rx[d][j] /\ rx'[d][i] = p
          BY <4>4 DEF Single
        <4> QED
          BY <3>4, <4>1, <4>2, <4>3, <4>4
      <3>7. \A t \in taken' :
               /\ place'[t.response.query] = "replied"
               /\ \A q \in replies' : q.query # t.response.query
               /\ \A d \in Clients : \A i \in 1..Len(rx'[d]) :
                     rx'[d][i].query # t.response.query
        BY <1>1, <2>2, <3>3, <3>4 DEF Single
      <3> QED
        BY <1>1, <3>3, <3>5, <3>6, <3>7 DEF Single
    <2> QED
      BY <1>6, <2>3, <2>4 DEF ReplyCallback
  <1>7. ASSUME NEW c \in Clients, take_response(c) PROVE Single'
    <2>1. /\ Len(rx[c]) \in Nat /\ Len(rx[c]) > 0 /\ Head(rx[c]) = rx[c][1]
          /\ Len(Tail(rx[c])) = Len(rx[c]) - 1
          /\ \A i \in 1..Len(Tail(rx[c])) : Tail(rx[c])[i] = rx[c][i + 1]
      BY <1>7 DEF take_response, Types, TypeChannels
    <2>2. /\ 1 \in 1..Len(rx[c])
          /\ \A i \in 1..Len(Tail(rx[c])) : i + 1 \in 1..Len(rx[c]) /\ i + 1 # 1
      BY <2>1
    <2>3. /\ taken' = taken \cup {[client |-> c, response |-> rx[c][1]]}
          /\ rx'[c] = Tail(rx[c]) /\ \A d \in Clients \ {c} : rx'[d] = rx[d]
          /\ replies' = replies
      BY <1>7, <2>1 DEF take_response, Types, TypeChannels
    <2>4. /\ \A i \in 1..Len(rx'[c]) : /\ i + 1 \in 1..Len(rx[c]) /\ i + 1 # 1
                                       /\ rx'[c][i] = rx[c][i + 1]
          /\ \A i, j \in 1..Len(rx'[c]) : i + 1 = j + 1 => i = j
      BY <2>1, <2>2, <2>3
    <2>5. \A d \in Clients : \A i \in 1..Len(rx'[d]) :
             /\ place'[rx'[d][i].query] = "replied"
             /\ \A q \in replies' : q.query # rx'[d][i].query
             /\ \A j \in 1..Len(rx'[d]) : rx'[d][i].query = rx'[d][j].query => i = j
      <3> SUFFICES ASSUME NEW d \in Clients
                   PROVE  \A i \in 1..Len(rx'[d]) :
                             /\ place'[rx'[d][i].query] = "replied"
                             /\ \A q \in replies' : q.query # rx'[d][i].query
                             /\ \A j \in 1..Len(rx'[d]) :
                                   rx'[d][i].query = rx'[d][j].query => i = j
        OBVIOUS
      <3>1. CASE d # c
        <4>1. rx'[d] = rx[d]
          BY <2>3, <3>1
        <4> QED
          BY <1>2, <2>3, <4>1 DEF Single
      <3>2. CASE d = c
        <4> SUFFICES ASSUME NEW i \in 1..Len(rx'[c])
                     PROVE  /\ place'[rx'[c][i].query] = "replied"
                            /\ \A q \in replies : q.query # rx'[c][i].query
                            /\ \A j \in 1..Len(rx'[c]) :
                                  rx'[c][i].query = rx'[c][j].query => i = j
          BY <2>3, <3>2
        <4>1. i + 1 \in 1..Len(rx[c]) /\ rx'[c][i] = rx[c][i + 1]
          BY <2>4
        <4>2. ASSUME NEW j \in 1..Len(rx'[c]), rx'[c][i].query = rx'[c][j].query
              PROVE  i = j
          <5>1. j + 1 \in 1..Len(rx[c]) /\ rx'[c][j] = rx[c][j + 1]
            BY <2>4
          <5>2. i + 1 = j + 1
            BY <4>1, <4>2, <5>1 DEF Single
          <5> QED
            BY <2>4, <5>2
        <4>3. /\ place'[rx[c][i + 1].query] = "replied"
              /\ \A q \in replies : q.query # rx[c][i + 1].query
          BY <1>2, <4>1 DEF Single
        <4> QED
          BY <4>1, <4>2, <4>3
      <3> QED
        BY <3>1, <3>2
    <2>6. \A d \in Clients : \A i \in 1..Len(rx'[d]) : rx'[d][i].query # rx[c][1].query
      <3> SUFFICES ASSUME NEW d \in Clients, NEW i \in 1..Len(rx'[d])
                   PROVE  rx'[d][i].query # rx[c][1].query
        OBVIOUS
      <3>1. CASE d # c
        <4>1. rx'[d] = rx[d]
          BY <2>3, <3>1
        <4>2. ClientOf[rx[d][i].query] = d /\ ClientOf[rx[c][1].query] = c
          BY <2>2, <4>1 DEF Carried
        <4> QED
          BY <3>1, <4>1, <4>2
      <3>2. CASE d = c
        BY <2>2, <2>4, <3>2 DEF Single
      <3> QED
        BY <3>1, <3>2
    <2>7. \A t \in taken : \A d \in Clients : \A i \in 1..Len(rx'[d]) :
             rx'[d][i].query # t.response.query
      <3> SUFFICES ASSUME NEW t \in taken, NEW d \in Clients, NEW i \in 1..Len(rx'[d])
                   PROVE  rx'[d][i].query # t.response.query
        OBVIOUS
      <3>1. CASE d # c
        <4>1. rx'[d] = rx[d]
          BY <2>3, <3>1
        <4> QED
          BY <4>1 DEF Single
      <3>2. CASE d = c
        BY <2>4, <3>2 DEF Single
      <3> QED
        BY <3>1, <3>2
    <2>8. \A t \in taken' :
             /\ place'[t.response.query] = "replied"
             /\ \A q \in replies' : q.query # t.response.query
             /\ \A d \in Clients : \A i \in 1..Len(rx'[d]) :
                   rx'[d][i].query # t.response.query
      BY <1>1, <1>2, <2>2, <2>3, <2>6, <2>7 DEF Single
    <2> QED
      BY <1>1, <2>3, <2>5, <2>8 DEF Single
  <1>8. ASSUME take_request PROVE Single'
    BY <1>3, <1>8 DEF take_request
  <1>9. ASSUME NEW h \in held, send_response(h) PROVE Single'
    <2>1. PICK q \in Pending(h.key) : Reply(h, q)
      BY <1>9 DEF send_response
    <2>2. q \in Requests /\ place[q] = "map"
      BY <2>1 DEF Pending, Filed, Types, TypeServer
    <2>3. /\ replies' = replies \cup {[query |-> q, key |-> h.key, answers |-> h.request]}
          /\ UNCHANGED <<rx, taken>> /\ place'[q] = "replied"
      BY <1>9, <2>1, <2>2 DEF send_response, Reply, Types, TypePlace
    <2>4. /\ \A c \in Clients : \A i \in 1..Len(rx[c]) : rx[c][i].query # q
          /\ \A t \in taken : t.response.query # q
      BY <2>2 DEF Single
    <2>5. \A p \in replies' : p \in replies \/ p.query = q
      BY <2>3
    <2>6. \A p \in replies' : place'[p.query] = "replied"
      BY <1>1, <2>3, <2>5
    <2> QED
      BY <1>1, <1>2, <2>3, <2>4, <2>5, <2>6 DEF Single
  <1>10. CASE UNCHANGED vars
    BY <1>3, <1>10 DEF vars
  <1> QED
    BY <1>4, <1>5, <1>6, <1>7, <1>8, <1>9, <1>10 DEF Next

\* A set whose elements are all equal has at most one, and one when it is not
\* empty.
LEMMA AtMostOne ==
    ASSUME NEW S, \A x, y \in S : x = y
    PROVE  /\ S = {} => Cardinality(S) = 0
           /\ S # {} => Cardinality(S) = 1
  <1>1. ASSUME S # {} PROVE Cardinality(S) = 1
    <2>1. PICK x \in S : TRUE
      BY <1>1
    <2>2. S = {x}
      BY <2>1
    <2> QED
      BY <2>2, FS_Singleton
  <1> QED
    BY <1>1, FS_EmptySet

\* Outstanding counts one place, of a query that was replied to.
LEMMA SingleAnswered == FiledInv /\ Carried /\ Single => AnsweredOnce
  <1> SUFFICES ASSUME FiledInv, Carried, Single, NEW r \in Requests
               PROVE  /\ Outstanding(r) <= 1
                      /\ Outstanding(r) = 1 => place[r] = "replied"
    BY DEF AnsweredOnce
  <1> USE DEF FiledInv
  <1> DEFINE A == {p \in replies : p.query = r}
             B == {x \in Clients \X (1..ClientDepth) :
                      x[2] <= Len(rx[x[1]]) /\ rx[x[1]][x[2]].query = r}
             C == {t \in taken : t.response.query = r}
  <1>1. \A p, q \in A : p = q
    BY DEF Carried, Sound, Types, TypeReplies, Response
  <1>2. \A x \in B : /\ x = <<x[1], x[2]>> /\ x[1] \in Clients
                     /\ x[2] \in 1..Len(rx[x[1]]) /\ rx[x[1]][x[2]].query = r
    <2> SUFFICES ASSUME NEW x \in B
                 PROVE  /\ x = <<x[1], x[2]>> /\ x[1] \in Clients
                        /\ x[2] \in 1..Len(rx[x[1]]) /\ rx[x[1]][x[2]].query = r
      OBVIOUS
    <2>1. x \in Clients \X (1..ClientDepth) /\ x[2] <= Len(rx[x[1]])
      OBVIOUS
    <2>2. x = <<x[1], x[2]>> /\ x[1] \in Clients /\ x[2] \in 1..ClientDepth
      BY <2>1
    <2>3. Len(rx[x[1]]) \in Nat
      BY <2>2 DEF Types, TypeChannels
    <2> QED
      BY <2>1, <2>2, <2>3
  <1>3. \A x, y \in B : x = y
    <2> SUFFICES ASSUME NEW x \in B, NEW y \in B PROVE x = y
      OBVIOUS
    <2>1. x[1] = ClientOf[r] /\ y[1] = ClientOf[r]
      BY <1>2 DEF Carried
    <2>2. x[2] = y[2]
      BY <1>2, <2>1 DEF Single
    <2> QED
      BY <1>2, <2>1, <2>2
  <1>4. \A t, u \in C : t = u
    <2> SUFFICES ASSUME NEW t \in C, NEW u \in C PROVE t = u
      OBVIOUS
    <2>1. /\ t \in [client : Clients, response : Response]
          /\ u \in [client : Clients, response : Response]
      BY DEF Types, TypeChannels
    <2>2. t.client = u.client
      BY DEF Carried
    <2>3. t.response = u.response
      BY <2>1 DEF Carried, Sound, Response
    <2> QED
      BY <2>1, <2>2, <2>3
  <1>5. /\ A # {} => B = {} /\ C = {} /\ place[r] = "replied"
        /\ B # {} => A = {} /\ C = {} /\ place[r] = "replied"
        /\ C # {} => A = {} /\ B = {} /\ place[r] = "replied"
    BY <1>2 DEF Single
  <1>6. /\ A = {} => Cardinality(A) = 0
        /\ A # {} => Cardinality(A) = 1
        /\ B = {} => Cardinality(B) = 0
        /\ B # {} => Cardinality(B) = 1
        /\ C = {} => Cardinality(C) = 0
        /\ C # {} => Cardinality(C) = 1
    <2> HIDE DEF A, B, C
    <2> QED
      BY <1>1, <1>3, <1>4, AtMostOne
  <1>7. Outstanding(r) = Cardinality(A) + Cardinality(B) + Cardinality(C)
    BY DEF Outstanding
  <1> HIDE DEF A, B, C
  <1> QED
    BY <1>5, <1>6, <1>7

\* A key the application holds can be answered until its request is, and a
\* request is answered at most once, for any clients, requests and depths: the
\* query leaves the map with its response (service.rs, send_response).
THEOREM AnswerableOnceCorrect == Spec => []AnswerableOnce
  <1>1. Init => FiledInv /\ Carried /\ Single
    <2>1. Init => Carried /\ Single
      BY DEF Init, Carried, Single
    <2> QED
      BY <2>1, FiledInit
  <1>2. FiledInv /\ Carried /\ Single /\ [Next]_vars
           => FiledInv' /\ Carried' /\ Single'
    <2>1. FiledInv /\ [Next]_vars => FiledInv'
      BY TypeParts, TypeStep, FiledStep DEF FiledInv
    <2> QED
      BY <2>1, CarriedStep, SingleStep
  <1>3. FiledInv /\ Carried /\ Single => AnswerableOnce
    BY FiledAnswerable, SingleAnswered DEF AnswerableOnce
  <1> QED
    BY <1>1, <1>2, <1>3, PTL DEF Spec
-----------------------------------------------------------------------------
(* Python: what a call returns                                             *)

Ops == {"none", "idle", "take", "taking", "answer", "send"}
Call == [op : Ops, job : SUBSET [key : QueryKey, request : Requests]]

PyTypes ==
    /\ lock \in Workers \cup {NONE} /\ call \in [Workers -> Call]
    /\ \A t \in Workers : call[t].job \subseteq held
    /\ asked \in [Clients -> Requests \cup {NONE}] /\ late \in [Clients -> BOOLEAN]

\* Until a call of it times out, all that is under way for a client belongs to
\* the call it is making.
Open(r) == place[r] \in {"net", "queue", "map"}
Lone ==
    \A c \in Clients : ~late[c] =>
       /\ \A r \in Requests : ClientOf[r] = c /\ Open(r) => asked[c] = r
       /\ \A p \in replies : ClientOf[p.query] = c => asked[c] = p.query
       /\ \A i \in 1..Len(rx[c]) : asked[c] = rx[c][i].query

PyInv == FiledInv /\ Carried /\ Single /\ PyTypes /\ Lone /\ OwnAnswer

\* What Python does is what a native client and a native server may do.
LEMMA PyStepOfService ==
    ASSUME PyTypes, [PyNext]_<<vars, pyVars>>
    PROVE  [Next]_vars
  <1>1. ASSUME NEW c \in Clients, NEW r \in Requests, PySendRequest(c, r)
        PROVE  Next
    BY <1>1 DEF PySendRequest, Next
  <1>2. ASSUME NEW c \in Clients, PyTakeResponse(c)
        PROVE  Next
    BY <1>2 DEF PyTakeResponse, Next
  <1>3. ASSUME NEW c \in Clients, PyTakeTimeout(c)
        PROVE  UNCHANGED vars
    BY <1>3 DEF PyTakeTimeout
  <1>4. ASSUME NEW t \in Workers, CallTake(t) \/ LockTake(t) \/ CallSend(t)
        PROVE  UNCHANGED vars
    BY <1>4 DEF CallTake, LockTake, CallSend
  <1>5. ASSUME NEW t \in Workers, PyTakeRequest(t)
        PROVE  Next
    BY <1>5 DEF PyTakeRequest, Next
  <1>6. ASSUME NEW t \in Workers, PySendResponse(t)
        PROVE  Next
    <2>1. PICK h \in call[t].job : send_response(h)
      BY <1>6 DEF PySendResponse
    <2>2. h \in held
      BY <2>1 DEF PyTypes
    <2> QED
      BY <2>1, <2>2 DEF Next
  <1>7. CASE Transport
    BY <1>7 DEF Transport, Next
  <1>8. CASE UNCHANGED <<vars, pyVars>>
    BY <1>8
  <1> QED
    BY <1>1, <1>2, <1>3, <1>4, <1>5, <1>6, <1>7, <1>8 DEF PyNext, Worker

\* A call's job comes from what take_request handed out, which nothing takes
\* back.
LEMMA HeldGrows ==
    ASSUME Types, [Next]_vars
    PROVE  held \subseteq held'
  <1>1. ASSUME NEW r \in Requests, send_request(r) \/ rmw_send_request(r) \/ CountRequest(r)
        PROVE  held' = held
    BY <1>1 DEF send_request, rmw_send_request, CountRequest, Get, server
  <1>2. ASSUME NEW r \in Requests, Deliver(r) \/ QueryTimeout(r)
        PROVE  held' = held
    BY <1>2 DEF Deliver, QueryTimeout, server
  <1>3. ASSUME NEW p \in replies, ReplyCallback(p) PROVE held' = held
    BY <1>3 DEF ReplyCallback, server
  <1>4. ASSUME NEW c \in Clients, take_response(c) PROVE held' = held
    BY <1>4 DEF take_response, server
  <1>5. CASE take_request
    BY <1>5 DEF take_request, Store
  <1>6. ASSUME NEW h \in held, send_response(h) PROVE held' = held
    BY <1>6 DEF send_response
  <1>7. CASE UNCHANGED vars
    BY <1>7 DEF vars
  <1> QED
    BY <1>1, <1>2, <1>3, <1>4, <1>5, <1>6, <1>7 DEF Next

\* The Python layer keeps its types.
LEMMA PyTypesStep ==
    ASSUME Types, Types', PyTypes, [PyNext]_<<vars, pyVars>>
    PROVE  PyTypes'
  <1>0. held \subseteq held'
    BY PyStepOfService, HeldGrows
  <1>1. ASSUME NEW t \in Workers, NEW new \in Call, call' = [call EXCEPT ![t] = new], new.job \subseteq held',
               lock' \in Workers \cup {NONE}, UNCHANGED <<asked, late>>
        PROVE  PyTypes'
    BY <1>0, <1>1 DEF PyTypes
  <1>2. ASSUME NEW t \in Workers, NEW op \in Ops, call' = [call EXCEPT ![t].op = op],
               lock' \in Workers \cup {NONE}, UNCHANGED <<asked, late>>
        PROVE  PyTypes'
    <2>1. PICK new : new = [call[t] EXCEPT !.op = op]
      OBVIOUS
    <2>2. new \in Call /\ new.job = call[t].job
      BY <2>1 DEF PyTypes, Call
    <2>3. call' = [call EXCEPT ![t] = new]
      BY <1>2, <2>1
    <2>4. new.job \subseteq held'
      BY <1>0, <2>2 DEF PyTypes
    <2> QED
      BY <1>1, <1>2, <2>2, <2>3, <2>4
  <1>3. ASSUME NEW c \in Clients, NEW r \in Requests, PySendRequest(c, r)
        PROVE  PyTypes'
    BY <1>0, <1>3 DEF PySendRequest, PyTypes
  <1>4. ASSUME NEW c \in Clients, PyTakeResponse(c) \/ PyTakeTimeout(c)
        PROVE  PyTypes'
    BY <1>0, <1>4 DEF PyTakeResponse, PyTakeTimeout, PyTypes
  <1>5. ASSUME NEW t \in Workers, CallTake(t) \/ LockTake(t) \/ CallSend(t)
        PROVE  PyTypes'
    <2>1. CASE CallTake(t)
      BY <1>2, <2>1 DEF CallTake, PyTypes, Ops
    <2>2. CASE LockTake(t)
      BY <1>2, <2>2 DEF LockTake, PyTypes, Ops
    <2>3. CASE CallSend(t)
      BY <1>2, <2>3 DEF CallSend, PyTypes, Ops
    <2> QED
      BY <1>5, <2>1, <2>2, <2>3
  <1>6. Idle \in Call /\ Idle.job = {}
    BY DEF Idle, Call, Ops
  <1>7. ASSUME NEW t \in Workers, PyTakeRequest(t)
        PROVE  PyTypes'
    <2>1. PICK job : job = held' \ held
      OBVIOUS
    <2>2. [op |-> "answer", job |-> job] \in Call /\ [op |-> "answer", job |-> job].job = job
      BY <2>1 DEF Call, Ops, Types, TypeServer
    <2>3. PICK new : new = IF job = {} THEN Idle ELSE [op |-> "answer", job |-> job]
      OBVIOUS
    <2>4. call' = [call EXCEPT ![t] = new] /\ lock' = NONE /\ UNCHANGED <<asked, late>>
      BY <1>7, <2>1, <2>3 DEF PyTakeRequest
    <2>5. new \in Call /\ new.job \subseteq held'
      BY <1>6, <2>1, <2>2, <2>3
    <2> QED
      BY <1>1, <2>4, <2>5
  <1>8. ASSUME NEW t \in Workers, PySendResponse(t)
        PROVE  PyTypes'
    BY <1>1, <1>6, <1>8 DEF PySendResponse, PyTypes
  <1>9. CASE Transport \/ UNCHANGED <<vars, pyVars>>
    BY <1>0, <1>9 DEF Transport, pyVars, PyTypes
  <1> QED
    BY <1>3, <1>4, <1>5, <1>7, <1>8, <1>9 DEF PyNext, Worker

\* Only sending opens a request.
LEMMA OpenStep ==
    ASSUME FiledInv, NEW s \in Requests, Open(s)',
           \/ \E r \in Requests : Deliver(r)
           \/ take_request \/ \E h \in held : send_response(h)
    PROVE  Open(s)
  <1>1. ASSUME NEW r \in Requests, Deliver(r) PROVE Open(s)
    BY <1>1 DEF Deliver, Open
  <1>2. CASE take_request
    <2>1. Head(queue) \in Requests /\ place[Head(queue)] = "queue"
      <3>1. queue # <<>>
        BY <1>2 DEF take_request
      <3>2. Head(queue) = queue[1] /\ Head(queue) \in Requests /\ 1 \in 1..Len(queue)
        BY <3>1, QueueTail DEF FiledInv, Types
      <3> QED
        BY <3>2 DEF FiledInv, Filed
    <2>2. CASE s = Head(queue)
      BY <2>1, <2>2 DEF Open
    <2>3. CASE s # Head(queue)
      BY <1>2, <2>1, <2>3 DEF take_request, Store, Open, FiledInv, Types, TypePlace
    <2> QED
      BY <2>2, <2>3
  <1>3. ASSUME NEW h \in held, send_response(h) PROVE Open(s)
    BY <1>3 DEF send_response, Reply, Open, FiledInv, Types, TypePlace
  <1> QED
    BY <1>1, <1>2, <1>3

\* The query a response is sent for was pending; it is answered now.
LEMMA SentResponse ==
    ASSUME FiledInv, NEW h \in held, send_response(h)
    PROVE  \E q \in Requests : /\ Open(q) /\ UNCHANGED rx
                               /\ \A p \in replies' : p \in replies \/ p.query = q
  <1>1. PICK q \in Pending(h.key) : Reply(h, q)
    BY DEF send_response
  <1>2. q \in Requests /\ place[q] = "map"
    BY DEF Pending, FiledInv, Filed, Types, TypeServer
  <1>3. \A p \in replies' : p \in replies \/ p.query = q
    BY <1>1 DEF Reply
  <1> QED
    BY <1>2, <1>3 DEF send_response, Open

\* A Python client that asks one request at a time is given its own answer.
LEMMA LoneStep ==
    ASSUME FiledInv, Carried, Single, PyTypes, Lone, OwnAnswer, [PyNext]_<<vars, pyVars>>
    PROVE  Lone' /\ OwnAnswer'
  <1> USE DEF FiledInv
  <1>0. /\ place \in [Requests -> Places] /\ rx \in [Clients -> Seq(Response)] /\ replies \subseteq Response
        /\ asked \in [Clients -> Requests \cup {NONE}] /\ late \in [Clients -> BOOLEAN]
        /\ NONE \notin Requests
    BY NoneAssumption DEF Types, TypePlace, TypeChannels, TypeReplies, PyTypes
  <1>1. ASSUME NEW c \in Clients, NEW r \in Requests, PySendRequest(c, r)
        PROVE  Lone' /\ OwnAnswer'
    <2>1. /\ ClientOf[r] = c /\ asked[c] = NONE /\ send_request(r)
          /\ asked' = [asked EXCEPT ![c] = IF place'[r] = "net" THEN r ELSE NONE]
          /\ late' = late /\ got' = got
      BY <1>1 DEF PySendRequest
    <2>2. PICK n \in {"net", "failed"} : Get(r, n)
      BY <2>1 DEF send_request
    <2>3. place' = [place EXCEPT ![r] = n] /\ rx' = rx /\ replies' = replies
      BY <2>2 DEF Get
    <2>4. SUFFICES ASSUME NEW d \in Clients, ~late'[d]
                   PROVE  /\ \A s \in Requests : ClientOf[s] = d /\ Open(s)' => asked'[d] = s
                          /\ \A p \in replies' : ClientOf[p.query] = d => asked'[d] = p.query
                          /\ \A i \in 1..Len(rx'[d]) : asked'[d] = rx'[d][i].query
      BY <2>1 DEF Lone, OwnAnswer
    <2>5. /\ \A s \in Requests : ClientOf[s] = d /\ Open(s) => asked[d] = s
          /\ \A p \in replies : ClientOf[p.query] = d => asked[d] = p.query
          /\ \A i \in 1..Len(rx[d]) : asked[d] = rx[d][i].query
      BY <2>1, <2>4 DEF Lone
    <2>6. \A s \in Requests : Open(s)' => (s = r /\ n = "net") \/ (s # r /\ Open(s))
      BY <1>0, <2>3 DEF Open
    <2>7. CASE d # c
      BY <1>0, <2>1, <2>3, <2>5, <2>6, <2>7
    <2>8. CASE d = c
      <3>1. \A p \in replies : ClientOf[p.query] # d
        BY <1>0, <2>1, <2>5, <2>8 DEF Response
      <3>2. \A i \in 1..Len(rx[d]) : FALSE
        <4>1. \A i \in 1..Len(rx[d]) : rx[d][i] \in Response
          BY <1>0
        <4>2. \A i \in 1..Len(rx[d]) : rx[d][i].query \in Requests
          BY <4>1 DEF Response
        <4> QED
          BY <1>0, <2>1, <2>5, <2>8, <4>2
      <3>3. asked'[d] = IF n = "net" THEN r ELSE NONE
        BY <1>0, <2>1, <2>3, <2>8
      <3>4. \A s \in Requests : ClientOf[s] = d /\ Open(s)' => asked'[d] = s
        BY <1>0, <2>1, <2>5, <2>6, <2>8, <3>3
      <3> QED
        BY <2>3, <3>1, <3>2, <3>4
    <2> QED
      BY <2>7, <2>8
  <1>2. ASSUME NEW c \in Clients, PyTakeResponse(c)
        PROVE  Lone' /\ OwnAnswer'
    <2>1. /\ rx[c] # <<>> /\ rx' = [rx EXCEPT ![c] = Tail(@)] /\ place' = place /\ replies' = replies
          /\ asked' = [asked EXCEPT ![c] = NONE] /\ late' = late /\ got' = Given(c)
      BY <1>2 DEF PyTakeResponse, take_response
    <2>2. PICK q \in Seq(Response) : q = rx[c]
      BY <1>0
    <2>3. /\ Len(q) \in Nat /\ 1 \in 1..Len(q) /\ Head(q) = q[1] /\ q[1] \in Response
          /\ Len(Tail(q)) = Len(q) - 1 /\ \A i \in 1..Len(Tail(q)) : Tail(q)[i] = q[i + 1]
      BY <2>1, <2>2
    <2>4. /\ q[1].answers = q[1].query /\ place[q[1].query] = "replied"
          /\ \A p \in replies : p.query # q[1].query
          /\ \A j \in 1..Len(q) : q[1].query = q[j].query => 1 = j
      <3>1. Sound(q[1])
        BY <2>2, <2>3 DEF Carried
      <3>2. \A p \in replies : p.query # q[1].query
        BY <2>2, <2>3 DEF Single
      <3>3. \A j \in 1..Len(q) : q[1].query = q[j].query => 1 = j
        BY <2>2, <2>3 DEF Single
      <3>4. place[q[1].query] = "replied"
        BY <2>2, <2>3 DEF Single
      <3> QED
        BY <3>1, <3>2, <3>3, <3>4 DEF Sound
    <2>5. OwnAnswer'
      <3>1. late[c] \/ asked[c] = q[1].answers
        BY <2>2, <2>3, <2>4 DEF Lone
      <3>2. \A g \in got' : g \in got \/ (g.late = late[c] /\ g.asked = asked[c] /\ g.answers = q[1].answers)
        BY <2>1, <2>2, <2>3 DEF Given
      <3> QED
        BY <3>1, <3>2 DEF OwnAnswer
    <2>6. Lone'
      <3>1. SUFFICES ASSUME NEW d \in Clients, ~late'[d]
                     PROVE  /\ \A s \in Requests : ClientOf[s] = d /\ Open(s)' => asked'[d] = s
                            /\ \A p \in replies' : ClientOf[p.query] = d => asked'[d] = p.query
                            /\ \A i \in 1..Len(rx'[d]) : asked'[d] = rx'[d][i].query
        BY DEF Lone
      <3>2. /\ \A s \in Requests : ClientOf[s] = d /\ Open(s) => asked[d] = s
            /\ \A p \in replies : ClientOf[p.query] = d => asked[d] = p.query
            /\ \A i \in 1..Len(rx[d]) : asked[d] = rx[d][i].query
        BY <2>1, <3>1 DEF Lone
      <3>3. \A s \in Requests : Open(s)' <=> Open(s)
        BY <2>1 DEF Open
      <3>4. CASE d # c
        BY <1>0, <2>1, <3>2, <3>3, <3>4
      <3>5. CASE d = c
        <4>1. asked[d] = q[1].query
          BY <2>2, <2>3, <3>2, <3>5
        <4>2. \A s \in Requests : ClientOf[s] = d => ~Open(s)
          BY <2>4, <3>2, <4>1 DEF Open
        <4>3. \A p \in replies : ClientOf[p.query] # d
          BY <2>4, <3>2, <4>1
        <4>4. rx'[d] = Tail(q)
          BY <1>0, <2>1, <2>2, <3>5
        <4>5. \A i \in 1..Len(Tail(q)) : i + 1 \in 1..Len(q) /\ i + 1 # 1
          BY <2>3
        <4>6. \A j \in 1..Len(q) : j = 1
          BY <2>2, <2>4, <3>2, <3>5, <4>1
        <4>7. \A i \in 1..Len(rx'[d]) : FALSE
          BY <4>4, <4>5, <4>6
        <4> QED
          BY <2>1, <3>3, <4>2, <4>3, <4>7
      <3> QED
        BY <3>4, <3>5
    <2> QED
      BY <2>5, <2>6
  <1>3. ASSUME NEW c \in Clients, PyTakeTimeout(c)
        PROVE  Lone' /\ OwnAnswer'
    <2>1. /\ UNCHANGED <<rx, place, replies, got>> /\ asked' = [asked EXCEPT ![c] = NONE]
          /\ late' = [late EXCEPT ![c] = TRUE]
      BY <1>3 DEF PyTakeTimeout, vars
    <2>2. \A d \in Clients : ~late'[d] => ~late[d] /\ asked'[d] = asked[d]
      BY <1>0, <2>1
    <2>3. \A s \in Requests : Open(s)' <=> Open(s)
      BY <2>1 DEF Open
    <2> QED
      BY <2>1, <2>2, <2>3 DEF Lone, OwnAnswer
  <1>4. ASSUME rx' = rx, asked' = asked, late' = late, got' = got,
               \A s \in Requests : Open(s)' => Open(s),
               \A p \in replies' : p \in replies \/ (p.query \in Requests /\ Open(p.query))
        PROVE  Lone' /\ OwnAnswer'
    <2>1. OwnAnswer'
      BY <1>4 DEF OwnAnswer
    <2>2. Lone'
      BY <1>4 DEF Lone
    <2> QED
      BY <2>1, <2>2
  <1>5. ASSUME NEW t \in Workers, CallTake(t) \/ LockTake(t) \/ CallSend(t)
        PROVE  Lone' /\ OwnAnswer'
    <2>1. UNCHANGED <<rx, asked, late, got, place, replies>>
      BY <1>5 DEF CallTake, LockTake, CallSend, vars
    <2> QED
      BY <1>4, <2>1 DEF Open
  <1>6. ASSUME NEW t \in Workers, PyTakeRequest(t)
        PROVE  Lone' /\ OwnAnswer'
    <2>1. take_request /\ UNCHANGED <<rx, asked, late, got, replies>>
      BY <1>6 DEF PyTakeRequest, take_request
    <2> QED
      BY <1>4, <2>1, OpenStep
  <1>7. ASSUME NEW t \in Workers, PySendResponse(t)
        PROVE  Lone' /\ OwnAnswer'
    <2>1. PICK h \in held : send_response(h)
      BY <1>7 DEF PySendResponse, PyTypes
    <2>2. UNCHANGED <<asked, late, got>>
      BY <1>7 DEF PySendResponse
    <2>3. PICK q \in Requests : /\ Open(q) /\ UNCHANGED rx
                                /\ \A p \in replies' : p \in replies \/ p.query = q
      BY <2>1, SentResponse
    <2>4. \A s \in Requests : Open(s)' => Open(s)
      BY <2>1, OpenStep
    <2> QED
      BY <1>4, <2>2, <2>3, <2>4
  <1>8. ASSUME NEW r \in Requests, Deliver(r), UNCHANGED pyVars
        PROVE  Lone' /\ OwnAnswer'
    <2>1. UNCHANGED <<rx, asked, late, got, replies>>
      BY <1>8 DEF Deliver, pyVars
    <2>2. \A s \in Requests : Open(s)' => Open(s)
      BY <1>8, OpenStep
    <2> QED
      BY <1>4, <2>1, <2>2
  <1>9. ASSUME NEW p \in replies, ReplyCallback(p), UNCHANGED pyVars
        PROVE  Lone' /\ OwnAnswer'
    <2>1. /\ UNCHANGED <<asked, late, got, place>> /\ replies' = replies \ {p}
          /\ rx' = rx \/ rx' = [rx EXCEPT ![ClientOf[p.query]] = Append(@, p)]
      BY <1>9 DEF ReplyCallback, pyVars
    <2>2. \A s \in Requests : Open(s)' <=> Open(s)
      BY <2>1 DEF Open
    <2>3. OwnAnswer'
      BY <2>1 DEF OwnAnswer
    <2>4. SUFFICES ASSUME NEW d \in Clients, ~late'[d]
                   PROVE  /\ \A s \in Requests : ClientOf[s] = d /\ Open(s)' => asked'[d] = s
                          /\ \A x \in replies' : ClientOf[x.query] = d => asked'[d] = x.query
                          /\ \A i \in 1..Len(rx'[d]) : asked'[d] = rx'[d][i].query
      BY <2>3 DEF Lone
    <2>5. /\ \A s \in Requests : ClientOf[s] = d /\ Open(s) => asked[d] = s
          /\ \A x \in replies : ClientOf[x.query] = d => asked[d] = x.query
          /\ \A i \in 1..Len(rx[d]) : asked[d] = rx[d][i].query
      BY <2>1, <2>4 DEF Lone
    <2>6. \A i \in 1..Len(rx'[d]) : asked[d] = rx'[d][i].query
      <3>1. CASE rx'[d] = rx[d]
        BY <2>5, <3>1
      <3>2. CASE d = ClientOf[p.query] /\ rx'[d] = Append(rx[d], p)
        <4>1. rx[d] \in Seq(Response) /\ p \in Response
          BY <1>0
        <4>2. /\ Len(rx[d]) \in Nat /\ Len(rx'[d]) = Len(rx[d]) + 1 /\ rx'[d][Len(rx[d]) + 1] = p
              /\ \A i \in 1..Len(rx[d]) : rx'[d][i] = rx[d][i]
          BY <3>2, <4>1
        <4>3. \A i \in 1..Len(rx'[d]) : i \in 1..Len(rx[d]) \/ i = Len(rx[d]) + 1
          BY <4>2
        <4> QED
          BY <2>5, <3>2, <4>2, <4>3
      <3> QED
        BY <1>0, <2>1, <3>1, <3>2
    <2> QED
      BY <2>1, <2>2, <2>5, <2>6
  <1>10. CASE UNCHANGED <<vars, pyVars>>
    <2>1. UNCHANGED <<rx, asked, late, got, place, replies>>
      BY <1>10 DEF vars, pyVars
    <2> QED
      BY <1>4, <2>1 DEF Open
  <1> QED
    BY <1>1, <1>2, <1>3, <1>5, <1>6, <1>7, <1>8, <1>9, <1>10 DEF PyNext, Worker, Transport

\* The invariant holds initially.
LEMMA PyStart == PyInit => PyInv
  <1> SUFFICES ASSUME PyInit PROVE PyInv
    OBVIOUS
  <1>1. Init
    BY DEF PyInit
  <1>2. FiledInv
    BY <1>1, FiledInit
  <1>3. Carried /\ Single
    BY <1>1 DEF Init, Carried, Single
  <1>4. PyTypes
    <2>1. {Idle, NoThread} \subseteq Call /\ \A x \in {Idle, NoThread} : x.job = {}
      BY DEF Idle, NoThread, Call, Ops
    <2>2. call \in [Workers -> {Idle, NoThread}] /\ lock = NONE
      BY DEF PyInit
    <2>3. call \in [Workers -> Call] /\ \A t \in Workers : call[t].job \subseteq held
      BY <2>1, <2>2
    <2> QED
      BY <2>2, <2>3 DEF PyInit, PyTypes
  <1>5. Lone /\ OwnAnswer
    BY <1>1 DEF Init, PyInit, Lone, OwnAnswer, Open
  <1> QED
    BY <1>2, <1>3, <1>4, <1>5 DEF PyInv

\* Every step of client, servers and Python callers keeps it.
LEMMA PyStep == PyInv /\ [PyNext]_<<vars, pyVars>> => PyInv'
  <1> SUFFICES ASSUME PyInv, [PyNext]_<<vars, pyVars>> PROVE PyInv'
    OBVIOUS
  <1>1. FiledInv /\ Carried /\ Single /\ PyTypes /\ Lone /\ OwnAnswer
    BY DEF PyInv
  <1>2. [Next]_vars
    BY <1>1, PyStepOfService
  <1>3. FiledInv'
    BY <1>1, <1>2, TypeParts, TypeStep, FiledStep DEF FiledInv
  <1>4. Carried' /\ Single'
    BY <1>1, <1>2, CarriedStep, SingleStep
  <1>5. PyTypes'
    BY <1>1, <1>3, PyTypesStep DEF FiledInv
  <1>6. Lone' /\ OwnAnswer'
    BY <1>1, LoneStep
  <1> QED
    BY <1>3, <1>4, <1>5, <1>6 DEF PyInv

\* A Python call that returns a response (take_response of PyZClient) returns
\* the answer to its own request unless an earlier call of that client timed
\* out, and what a worker was given it can answer: for any number of clients,
\* workers and requests.
THEOREM AnswersPairedCorrect == PySpec => []AnswersPaired
  <1>1. PyInv => AnswersPaired
    <2>1. PyInv => PyTypeOK
      BY TypeParts DEF PyInv, FiledInv, PyTypes, PyTypeOK, Op, Call, Ops
    <2> QED
      BY <2>1, FiledAnswerable DEF PyInv, AnswersPaired
  <1> QED
    BY <1>1, PyStart, PyStep, PTL DEF PySpec

\* The bindings are clients and a server of service.rs and nothing more: every
\* step they take is one of Service, so whatever holds of the steps of Service
\* (each request is answered at most once) holds of Python programs too.
THEOREM PyImplementsService == PySpec => Init /\ [][Next]_vars /\ []AnswerableOnce
  <1>1. PyInit => Init
    BY DEF PyInit
  <1>2. PyInv /\ [PyNext]_<<vars, pyVars>> => [Next]_vars
    BY PyStepOfService DEF PyInv
  <1>3. PyInv => AnswerableOnce
    BY FiledAnswerable, SingleAnswered DEF PyInv, AnswerableOnce
  <1> QED
    BY <1>1, <1>2, <1>3, PyStart, PyStep, PTL DEF PySpec

=============================================================================
