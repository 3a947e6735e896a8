----------------------------- MODULE PyService -----------------------------
(***************************************************************************)
(* Services as Python programs use them (ros-z-py/src/service.rs): the     *)
(* native clients and servers of Service, called by Python threads.        *)
(*                                                                         *)
(* A client makes one call at a time: it sends a request and waits for a   *)
(* response, or gives up after its timeout.  The server's worker threads   *)
(* take a request and answer it, again and again.  Both calls lock the     *)
(* server (the mutexes of PyZServer and ZServerWrapper, always in this     *)
(* order, are one here), and take_request keeps the lock while it waits    *)
(* for a request.  The GIL is released in all of them.                     *)
(***************************************************************************)
EXTENDS Service

CONSTANTS Workers,   \* the server's threads
          NONE

ASSUME NoneAssumption == NONE \notin Workers \cup Requests

VARIABLES
    lock,      \* the thread that has the server's lock
    call,      \* what a worker is doing
    asked,     \* the request a client waits for a response to
    late,      \* has a call of the client timed out
    got        \* responses the client's callers were given (history)

pyVars == <<lock, call, asked, late, got>>

\* A worker is idle between two calls, or there is no such thread; job is the
\* key and the request it has to answer.
Idle == [op |-> "idle", job |-> {}]
NoThread == [op |-> "none", job |-> {}]
Op(t) == call[t].op

PyTypeOK ==
    /\ TypeOK
    /\ lock \in Workers \cup {NONE}
    /\ \A t \in Workers : /\ Op(t) \in {"none", "idle", "take", "taking", "answer", "send"}
                          /\ call[t].job \subseteq held
    /\ asked \in [Clients -> Requests \cup {NONE}]
    /\ late \in [Clients -> BOOLEAN]

\* The bindings use the clients and servers of ros-z itself.
Native == NativeClients = Clients /\ NativeServer

PyInit ==
    /\ Init /\ Native
    /\ lock = NONE
    /\ call \in [Workers -> {Idle, NoThread}] /\ \E t \in Workers : call[t] = Idle
    /\ asked = [c \in Clients |-> NONE]
    /\ late = [c \in Clients |-> FALSE]
    /\ got = {}

-----------------------------------------------------------------------------
(* PyZClient *)

\* An error is raised; the caller has nothing to wait for.
PySendRequest(c, r) ==
    /\ ClientOf[r] = c /\ asked[c] = NONE
    /\ send_request(r)
    /\ asked' = [asked EXCEPT ![c] = IF place'[r] = "net" THEN r ELSE NONE]
    /\ UNCHANGED <<lock, call, late, got>>

Given(c) == got \cup {[asked |-> asked[c], answers |-> Head(rx[c]).answers, late |-> late[c]]}

\* A mutant: the response is read and stays in the channel.
PyTakeResponse_Peeks(c) ==
    /\ asked[c] # NONE /\ rx[c] # <<>>
    /\ got' = Given(c)
    /\ asked' = [asked EXCEPT ![c] = NONE]
    /\ UNCHANGED <<vars, lock, call, late>>

\* Whatever response comes first is the call's.
PyTakeResponse(c) ==
    /\ asked[c] # NONE
    /\ take_response(c)
    /\ got' = Given(c)
    /\ asked' = [asked EXCEPT ![c] = NONE]
    /\ UNCHANGED <<lock, call, late>>

\* The wait ends without a response (after an hour if no timeout is given):
\* take_response returns None.
PyTakeTimeout(c) ==
    /\ asked[c] # NONE /\ rx[c] = <<>>
    /\ asked' = [asked EXCEPT ![c] = NONE]
    /\ late' = [late EXCEPT ![c] = TRUE]
    /\ UNCHANGED <<vars, lock, call, got>>

-----------------------------------------------------------------------------
(* PyZServer *)

CallTake(t) ==
    /\ Op(t) = "idle"
    /\ call' = [call EXCEPT ![t].op = "take"]
    /\ UNCHANGED <<vars, lock, asked, late, got>>

LockTake(t) ==
    /\ Op(t) = "take" /\ lock = NONE
    /\ lock' = t
    /\ call' = [call EXCEPT ![t].op = "taking"]
    /\ UNCHANGED <<vars, asked, late, got>>

\* queue.recv returned: the request is the worker's, or an error is raised.
PyTakeRequest(t) ==
    /\ Op(t) = "taking" /\ take_request
    /\ lock' = NONE
    /\ LET new == held' \ held IN
       call' = [call EXCEPT ![t] = IF new = {} THEN Idle ELSE [op |-> "answer", job |-> new]]
    /\ UNCHANGED <<asked, late, got>>

CallSend(t) ==
    /\ Op(t) = "answer"
    /\ call' = [call EXCEPT ![t].op = "send"]
    /\ UNCHANGED <<vars, lock, asked, late, got>>

\* The worker's key is in the map (HeldAnswerable), so there is no error here.
PySendResponse(t) ==
    /\ Op(t) = "send" /\ lock = NONE
    /\ \E h \in call[t].job : send_response(h)
    /\ call' = [call EXCEPT ![t] = Idle]
    /\ UNCHANGED <<lock, asked, late, got>>

-----------------------------------------------------------------------------

Transport ==
    /\ \/ \E r \in Requests : Deliver(r)
       \/ \E p \in replies : ReplyCallback(p)
    /\ UNCHANGED pyVars

Worker(t) ==
    \/ CallTake(t) \/ LockTake(t) \/ PyTakeRequest(t) \/ CallSend(t) \/ PySendResponse(t)

PyNext ==
    \/ \E c \in Clients : (\E r \in Requests : PySendRequest(c, r)) \/ PyTakeResponse(c) \/ PyTakeTimeout(c)
    \/ \E t \in Workers : Worker(t)
    \/ Transport

\* Messages arrive and threads run; nobody has to send or to time out.
PyFairness ==
    /\ \A r \in Requests : WF_<<vars, pyVars>>(Deliver(r) /\ UNCHANGED pyVars)
    /\ WF_<<vars, pyVars>>((\E p \in replies : ReplyCallback(p)) /\ UNCHANGED pyVars)
    /\ \A t \in Workers : WF_<<vars, pyVars>>(Worker(t))

PySpec == PyInit /\ [][PyNext]_<<vars, pyVars>> /\ PyFairness

-----------------------------------------------------------------------------
(* Properties *)

\* A call that returns a response returns the answer to its own request, unless
\* an earlier call of the client timed out: that call's response stays in the
\* channel, and the next call takes it for its own.
OwnAnswer == \A g \in got : g.answers = g.asked \/ g.late

\* The worker that has r waits for the lock, which another worker keeps while
\* it waits for a request.
HeldUp(r) ==
    /\ queue = <<>> /\ lock # NONE /\ Op(lock) = "taking"
    /\ \E t \in Workers \ {lock} : Op(t) = "send" /\ \E h \in call[t].job : h.request = r

\* A well-formed request that was sent is answered, or its worker is held up by
\* one that waits for the next request.  With one worker it is answered.
AnsweredUnlessHeldUp ==
    \A r \in Requests \ Malformed : place[r] = "net" ~> (place[r] = "replied" \/ HeldUp(r))

\* Requests and answers stay together in Python as well.
AnswersPaired == PyTypeOK /\ HeldAnswerable /\ OwnAnswer
=============================================================================
