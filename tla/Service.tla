------------------------------- MODULE Service -------------------------------
(***************************************************************************)
(* Services of ros-z (service.rs: ZClient, ZServer) and the layer rmw      *)
(* puts on them (rmw-zenoh-rs, service.rs: ClientImpl, ServiceImpl).       *)
(*                                                                         *)
(* A request is a zenoh query with an attachment that holds the client's   *)
(* gid and a sequence number.  The server's transport callback pushes it   *)
(* to a bounded queue (oldest dropped); take_request moves it to a map     *)
(* keyed by that pair, from where send_response takes it to reply.  The    *)
(* client's reply callback puts responses in a bounded channel (newest     *)
(* dropped).  The rmw client tells its caller a sequence number from a     *)
(* counter of its own, and its caller finds the request a response answers *)
(* by the number in the response's attachment.                             *)
(***************************************************************************)
EXTENDS Naturals, Sequences, FiniteSets

CONSTANTS
    Clients,
    Requests,     \* the requests that are ever made, and
    ClientOf,     \* the client each one is made through
    Malformed,    \* requests that do not deserialize
    NativeClients,  \* the clients that use ros-z itself; the others use rmw
    NativeServer,   \* does the server use ros-z itself, or rmw
    MayTimeout,   \* may the querier's timeout of 10 s expire
    ServerDepth,  \* capacity of the server's queue
    ClientDepth   \* capacity of a client's response channel

ASSUME ClientOfAssumption == ClientOf \in [Requests -> Clients]
ASSUME MalformedAssumption == Malformed \subseteq Requests
ASSUME ApiAssumption == NativeClients \subseteq Clients /\ NativeServer \in BOOLEAN
ASSUME ModeAssumption == MayTimeout \in BOOLEAN
ASSUME DepthAssumption == ServerDepth \in Nat \ {0} /\ ClientDepth \in Nat \ {0}

VARIABLES
    sn,          \* ZClient.sn
    sequence_counter, \* ClientImpl.sequence_counter
    told,        \* sequence number the caller of a request got; 0 before
    wire,        \* sequence number in its attachment; 0 before
    crossed,     \* requests whose sends overlapped, by client (history)
    place,       \* where the query of a request is
    queue,       \* the server's queue of queries
    map,         \* ZServer.map: the entries, each a key and a query
    held,        \* keys and requests take_request returned to the application
    replies,     \* replies on their way
    expired,     \* queries whose timeout has expired at the client
    rx,          \* the client's response channel
    taken        \* responses the client's callers took (history)

vars == <<sn, sequence_counter, told, wire, crossed, place, queue, map, held,
          replies, expired, rx, taken>>
client == <<sn, sequence_counter, told, wire, crossed>>
server == <<queue, map, held>>

Places == {"new", "counted", "failed", "net", "queue", "map", "replied", "dropped"}
QueryKey == Nat \X Clients
Response == [query : Requests, key : QueryKey, answers : Requests]

Init ==
    /\ sn = [c \in Clients |-> 1]
    /\ sequence_counter = [c \in Clients |-> 1]
    /\ told = [r \in Requests |-> 0]
    /\ wire = [r \in Requests |-> 0]
    /\ crossed = {}
    /\ place = [r \in Requests |-> "new"]
    /\ queue = <<>>
    /\ map = {}
    /\ held = {}
    /\ replies = {}
    /\ expired = {}
    /\ rx = [c \in Clients |-> <<>>]
    /\ taken = {}

Key(r) == <<wire[r], ClientOf[r]>>

-----------------------------------------------------------------------------
(* Client                                                                  *)

\* Querier::get: the attachment takes the next number, sent or not.
Get(r, n) ==
    /\ wire' = [wire EXCEPT ![r] = sn[ClientOf[r]]]
    /\ sn' = [sn EXCEPT ![ClientOf[r]] = @ + 1]
    /\ place' = [place EXCEPT ![r] = n]
    /\ UNCHANGED <<server, replies, expired, rx, taken>>

\* The native client's callers correlate nothing; told is the number sent.
send_request(r) ==
    /\ ClientOf[r] \in NativeClients /\ place[r] = "new"
    /\ \E n \in {"net", "failed"} : Get(r, n)
    /\ told' = [told EXCEPT ![r] = sn[ClientOf[r]]]
    /\ UNCHANGED <<sequence_counter, crossed>>

\* The calls of a client that have drawn from one counter and not the other.
Counted(c) == {r \in Requests : ClientOf[r] = c /\ place[r] = "counted"}

\* rmw: ClientImpl::send_request first draws from its own counter; nothing keeps
\* another thread from sending through the same client meanwhile ...
CountRequest(r) ==
    /\ ClientOf[r] \notin NativeClients /\ place[r] = "new"
    /\ crossed' = crossed \cup {s \in Counted(ClientOf[r]) \cup {r} : Counted(ClientOf[r]) # {}}
    /\ told' = [told EXCEPT ![r] = sequence_counter[ClientOf[r]]]
    /\ sequence_counter' = [sequence_counter EXCEPT ![ClientOf[r]] = @ + 1]
    /\ place' = [place EXCEPT ![r] = "counted"]
    /\ UNCHANGED <<sn, wire, server, replies, expired, rx, taken>>

\* A mutant: the mirror counter is not advanced by a request that fails.
rmw_send_request_Uncounted(r) ==
    /\ place[r] = "counted"
    /\ \E n \in {"net", "failed"} :
          /\ Get(r, n)
          /\ sequence_counter' = [sequence_counter EXCEPT
                 ![ClientOf[r]] = IF n = "net" THEN @ ELSE @ - 1]
    /\ UNCHANGED <<told, crossed>>

\* ... and then has ZClient send, which draws from sn.
rmw_send_request(r) ==
    /\ place[r] = "counted"
    /\ \E n \in {"net", "failed"} : Get(r, n)
    /\ UNCHANGED <<sequence_counter, told, crossed>>

\* The reply callback: Ok goes to the channel if it has room, Err (the
\* timeout) is ignored, and a reply after the timeout finds no callback.
Room(c) == Len(rx[c]) < ClientDepth

ReplyCallback(p) ==
    LET c == ClientOf[p.query] IN
    /\ replies' = replies \ {p}
    /\ rx' = IF p.query \notin expired /\ Room(c)
             THEN [rx EXCEPT ![c] = Append(@, p)] ELSE rx
    /\ UNCHANGED <<client, place, server, expired, taken>>

QueryTimeout(r) ==
    /\ MayTimeout
    /\ place[r] \in {"net", "queue", "map"} /\ r \notin expired
    /\ expired' = expired \cup {r}
    /\ UNCHANGED <<client, place, server, replies, rx, taken>>

take_response(c) ==
    /\ rx[c] # <<>>
    /\ taken' = taken \cup {[client |-> c, response |-> Head(rx[c])]}
    /\ rx' = [rx EXCEPT ![c] = Tail(@)]
    /\ UNCHANGED <<client, place, server, replies, expired>>

-----------------------------------------------------------------------------
(* Server                                                                  *)

\* The queryable's callback: BoundedQueue::push.
Deliver(r) ==
    /\ place[r] = "net"
    /\ LET full == Len(queue) = ServerDepth
           kept == IF full THEN Tail(queue) ELSE queue
       IN  /\ queue' = Append(kept, r)
           /\ place' = [s \in Requests |-> IF s = r THEN "queue"
                                           ELSE IF full /\ s = Head(queue) THEN "dropped"
                                           ELSE place[s]]
    /\ UNCHANGED <<client, map, held, replies, expired, rx, taken>>

\* The query stored under a key, as a set.
Pending(k) == {e.query : e \in {x \in map : x.key = k}}
Without(k) == {e \in map : e.key # k}

\* The query is stored under its key and handed to the application.
Store(r) ==
    /\ map' = Without(Key(r)) \cup {[key |-> Key(r), query |-> r]}
    /\ held' = held \cup {[key |-> Key(r), request |-> r]}
    /\ place' = [s \in Requests |-> IF s = r THEN "map"
                                    ELSE IF s \in Pending(Key(r)) THEN "dropped"
                                    ELSE place[s]]

\* A mutant: pending is tested by the sequence number alone.
Refuses_AnyClient(r) ==
    NativeServer /\ (r \in Malformed \/ \E e \in map : e.key[1] = wire[r])

\* ZServer::take_request returns an error for a key that is pending and for a
\* payload that is malformed; rmw's own inserts without looking and ignores what
\* deserialization says.
Refuses(r) == NativeServer /\ (Pending(Key(r)) # {} \/ r \in Malformed)

\* The oldest query leaves the queue; one that is refused is dropped.
take_request ==
    /\ queue # <<>>
    /\ queue' = Tail(queue)
    /\ LET r == Head(queue) IN
       IF Refuses(r)
       THEN place' = [place EXCEPT ![r] = "dropped"] /\ UNCHANGED <<map, held>>
       ELSE Store(r)
    /\ UNCHANGED <<client, replies, expired, rx, taken>>

Reply(h, q) ==
    /\ replies' = replies \cup {[query |-> q, key |-> h.key, answers |-> h.request]}
    /\ place' = [place EXCEPT ![q] = "replied"]

\* A mutant: the query is looked up and stays in the map.
send_response_Keeps(h) ==
    /\ \E q \in Pending(h.key) : Reply(h, q)
    /\ UNCHANGED <<client, map, queue, held, expired, rx, taken>>

\* map.remove; a key that is not there is an error and changes nothing.
\* The application may try again with a key it has used.
send_response(h) ==
    /\ \E q \in Pending(h.key) : Reply(h, q)
    /\ map' = Without(h.key)
    /\ UNCHANGED <<client, queue, held, expired, rx, taken>>

Next ==
    \/ \E r \in Requests :
          \/ send_request(r) \/ CountRequest(r) \/ rmw_send_request(r)
          \/ Deliver(r) \/ QueryTimeout(r)
    \/ \E p \in replies : ReplyCallback(p)
    \/ \E c \in Clients : take_response(c)
    \/ take_request
    \/ \E h \in held : send_response(h)

(***************************************************************************)
(* The transport delivers queries and replies, the server's application    *)
(* takes requests and answers every key it holds, and clients take their   *)
(* responses.  Nobody has to send.                                         *)
(***************************************************************************)
Fairness ==
    /\ \A r \in Requests : WF_vars(rmw_send_request(r)) /\ WF_vars(Deliver(r))
    /\ WF_vars(\E p \in replies : ReplyCallback(p))
    /\ \A c \in Clients : WF_vars(take_response(c))
    /\ WF_vars(take_request)
    /\ WF_vars(\E h \in held : send_response(h))

Spec == Init /\ [][Next]_vars /\ Fairness

-----------------------------------------------------------------------------
(* Properties                                                              *)

\* Every variable has its type; queue and channels keep to their depth.
TypeOK ==
    /\ sn \in [Clients -> Nat \ {0}] /\ sequence_counter \in [Clients -> Nat \ {0}]
    /\ told \in [Requests -> Nat] /\ wire \in [Requests -> Nat]
    /\ crossed \subseteq Requests
    /\ place \in [Requests -> Places]
    /\ queue \in Seq(Requests) /\ Len(queue) <= ServerDepth
    /\ map \subseteq [key : QueryKey, query : Requests]
    /\ held \subseteq [key : QueryKey, request : Requests]
    /\ replies \subseteq Response
    /\ expired \subseteq Requests
    /\ rx \in [Clients -> Seq(Response)]
    /\ \A c \in Clients : Len(rx[c]) <= ClientDepth
    /\ taken \subseteq [client : Clients, response : Response]

\* A response comes out at the client that asked, and the sequence number it
\* carries is the one its caller was told.  Only where two threads sent through
\* one client at a time may it be the number of the other call: never that of a
\* call that was sent alone, of another client, or of nobody.
Correlated ==
    \A t \in taken :
       LET r == t.response.answers IN
       /\ t.client = ClientOf[r]
       /\ \E s \in Requests : /\ ClientOf[s] = ClientOf[r] /\ told[s] = t.response.key[1]
                              /\ s = r \/ {r, s} \subseteq crossed

\* A key the application holds stands for the request it came with until that
\* request is answered, however many requests and clients are pending.
HeldAnswerable ==
    \A h \in held :
       \/ Pending(h.key) = {h.request}
       \/ Pending(h.key) = {} /\ place[h.request] = "replied"

\* A request is answered at most once, also when the application sends a
\* response twice: an answered request is no longer in the map, and its
\* response is in one place.
Outstanding(r) ==
    Cardinality({p \in replies : p.query = r})
    + Cardinality({x \in Clients \X (1..ClientDepth) :
                      x[2] <= Len(rx[x[1]]) /\ rx[x[1]][x[2]].query = r})
    + Cardinality({t \in taken : t.response.query = r})
AnsweredOnce ==
    \A r \in Requests :
       /\ Outstanding(r) <= 1
       /\ Outstanding(r) = 1 => place[r] = "replied"

\* A request that was taken can be answered, and is answered once.
AnswerableOnce == HeldAnswerable /\ AnsweredOnce
=============================================================================
