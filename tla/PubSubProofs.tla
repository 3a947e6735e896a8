---------------------------- MODULE PubSubProofs ----------------------------
(***************************************************************************)
(* What publishing and receiving guarantee for any number of threads,      *)
(* publishers and subscriptions, any depths and any number of messages.    *)
(* Dated and InHand bound the numbers of the samples that exist by the     *)
(* counters, which makes a new stamp larger than every other (StampsUnique)*)
(* and a new sample of a thread later than its others.  InOrder carries    *)
(* that order from the network through the queue to the user, and Suffix   *)
(* says which samples the queue still has.                                 *)
(***************************************************************************)
EXTENDS PubSub, SequenceTheorems, TLAPS

USE PubSubAssumption

Earlier(A, B) == \A a \in A, b \in B : a.thread = b.thread => a.n < b.n
Increasing(q) ==
    \A i, j \in 1..Len(q) : i < j /\ q[i].thread = q[j].thread => q[i].n < q[j].n

\* A thread that is between the serialization and the put of a message.
Busy(t) == step[t].at \in {"serialized", "stamped"}

\* A sample was numbered by the counters of its thread and its publisher; it
\* is not the message its thread has in hand.
Dated(m) ==
    /\ m \in Message
    /\ m.pub = PubOf[m.thread] /\ m.n <= count[m.thread]
    /\ Busy(m.thread) => m.n < count[m.thread]
    /\ m.pub \in Attached => m.sn < sn[m.pub]
\* The message in a thread's hand is its last.
InHand ==
    \A t \in Threads : Busy(t) =>
        /\ step[t].msg.thread = t /\ step[t].msg.pub = PubOf[t] /\ step[t].msg.n = count[t]
        /\ step[t].at = "stamped" /\ PubOf[t] \in Attached => step[t].msg.sn < sn[PubOf[t]]

\* The queue is the end of what arrived, index by index.
Suffix(q, a) ==
    \E k \in 0..Len(a) : Len(q) = Len(a) - k /\ \A i \in 1..Len(q) : q[i] = a[i + k]

\* The samples of a subscription were numbered by the counters ...
SubDated(s) ==
    /\ \A p \in Pubs : \A m \in Msgs(net[p][s]) : Dated(m) /\ m.pub = p
    /\ \A m \in Msgs(queue[s]) \cup Given(s) : Dated(m)

\* ... what one thread published is in order all the way to the user ...
SubTaken(s) ==
    \A i, j \in DOMAIN taken[s] :
       i < j /\ taken[s][i].msg.thread = taken[s][j].msg.thread =>
          taken[s][i].msg.n < taken[s][j].msg.n
SubOrder(s) ==
    /\ SubTaken(s) /\ Increasing(queue[s]) /\ Earlier(Given(s), Msgs(queue[s]))
    /\ \A p \in Pubs : /\ Increasing(net[p][s])
                       /\ Earlier(Given(s) \cup Msgs(queue[s]), Msgs(net[p][s]))

\* ... a subscription that is not declared has none; only rmw takes sequences ...
SubFresh(s) ==
    /\ s \notin live => /\ queue[s] = <<>> /\ taken[s] = <<>>
                        /\ \A p \in Pubs : net[p][s] = <<>>
    /\ left[s] > 0 => s \in live /\ kind[s] = "rmw"

\* ... and only messages are presented as messages, but by rmw.
SubOnly(s) ==
    kind[s] # "rmw" =>
       \A i \in DOMAIN taken[s] : taken[s][i].ok => taken[s][i].msg.body = "good"

SubInv(s) ==
    /\ Len(queue[s]) <= Depth[s] /\ (kind[s] = "callback" => queue[s] = <<>>)
    /\ Suffix(queue[s], arrived[s])
    /\ SubDated(s) /\ SubOrder(s) /\ SubFresh(s) /\ SubOnly(s)

\* The types, with those that TypeOK leaves open.
Panicked == [at |-> "panicked"]
InWork == [at : {"serialized", "stamped"}, msg : Message]
Taken == [msg : Message, ok : BOOLEAN]
TypeThreads ==
    /\ sn \in [Pubs -> Nat] /\ count \in [Threads -> Nat]
    /\ step \in [Threads -> {Idle, Panicked} \cup InWork]
TypeSubs ==
    /\ live \subseteq Subs /\ kind \in [Subs -> Kinds] /\ left \in [Subs -> Nat]
    /\ net \in [Pubs -> [Subs -> Seq(Message)]]
    /\ queue \in [Subs -> Seq(Message)] /\ arrived \in [Subs -> Seq(Message)]
    /\ taken \in [Subs -> Seq(Taken)]

IInv ==
    /\ TypeThreads /\ TypeSubs /\ InHand
    /\ \A s \in Subs : SubInv(s)
    /\ StampsUnique

-----------------------------------------------------------------------------
(* Sequences of samples                                                    *)

\* The head is in the sequence, the rest comes after it.
LEMMA TailFacts ==
    ASSUME NEW q \in Seq(Message), q # <<>>
    PROVE  /\ Head(q) \in Message /\ Head(q) \in Msgs(q) /\ Head(q) = q[1]
           /\ Tail(q) \in Seq(Message) /\ Msgs(Tail(q)) \subseteq Msgs(q)
           /\ Len(q) \in Nat /\ Len(q) > 0 /\ Len(Tail(q)) = Len(q) - 1
           /\ \A i \in 1..Len(Tail(q)) : Tail(q)[i] = q[i + 1]
           /\ Increasing(q) => /\ Increasing(Tail(q))
                               /\ Earlier({Head(q)}, Msgs(Tail(q)))
  <1>1. /\ Head(q) \in Message /\ Head(q) = q[1]
        /\ Tail(q) \in Seq(Message) /\ Len(q) \in Nat /\ Len(q) > 0
        /\ Len(Tail(q)) = Len(q) - 1
        /\ \A i \in 1..Len(Tail(q)) : Tail(q)[i] = q[i + 1]
    OBVIOUS
  <1>2. PICK t \in Seq(Message) : t = Tail(q)
    BY <1>1
  <1>3. 1 \in 1..Len(q) /\ \A i \in 1..Len(t) : i + 1 \in 1..Len(q) /\ t[i] = q[i + 1]
    BY <1>1, <1>2
  <1>4. DOMAIN q = 1..Len(q) /\ DOMAIN t = 1..Len(t)
    OBVIOUS
  <1>5. Head(q) \in Msgs(q) /\ Msgs(t) \subseteq Msgs(q)
    <2>1. \A i \in DOMAIN t : t[i] \in Msgs(q)
      BY <1>3, <1>4 DEF Msgs
    <2>2. q[1] \in Msgs(q)
      BY <1>3, <1>4 DEF Msgs
    <2>3. \A x \in Msgs(t) : \E i \in DOMAIN t : x = t[i]
      BY DEF Msgs
    <2> QED
      BY <1>1, <2>1, <2>2, <2>3
  <1>6. Increasing(q) => Increasing(t)
    BY <1>1, <1>3 DEF Increasing
  <1>7. ASSUME Increasing(q) PROVE Earlier({Head(q)}, Msgs(t))
    <2>1. \A i \in 1..Len(t) : 1 < i + 1 /\ i + 1 \in 1..Len(q)
      BY <1>1, <1>3
    <2>2. \A i \in 1..Len(t) : q[1].thread = t[i].thread => q[1].n < t[i].n
      BY <1>3, <1>7, <2>1 DEF Increasing
    <2> QED
      BY <1>1, <1>4, <2>2 DEF Earlier, Msgs
  <1> QED
    BY <1>1, <1>2, <1>5, <1>6, <1>7

\* A sample is added behind those that are earlier.
LEMMA AppendFacts ==
    ASSUME NEW q \in Seq(Message), NEW m \in Message
    PROVE  /\ Append(q, m) \in Seq(Message) /\ Msgs(Append(q, m)) = Msgs(q) \cup {m}
           /\ Len(q) \in Nat /\ Len(Append(q, m)) = Len(q) + 1
           /\ Append(q, m)[Len(q) + 1] = m
           /\ \A i \in 1..Len(q) : Append(q, m)[i] = q[i]
           /\ Increasing(q) /\ Earlier(Msgs(q), {m}) => Increasing(Append(q, m))
  <1>0. Append(q, m) \in Seq(Message)
    OBVIOUS
  <1>1. PICK t \in Seq(Message) : t = Append(q, m)
    BY <1>0
  <1>2. /\ Len(q) \in Nat /\ Len(t) = Len(q) + 1 /\ t[Len(q) + 1] = m
        /\ \A i \in 1..Len(q) : t[i] = q[i]
    BY <1>1
  <1>3. \A i \in 1..Len(t) : \/ i \in 1..Len(q) /\ t[i] = q[i]
                             \/ i = Len(q) + 1 /\ t[i] = m
    BY <1>2
  <1>4. DOMAIN q = 1..Len(q) /\ DOMAIN t = 1..Len(t)
    OBVIOUS
  <1>5. Msgs(t) = Msgs(q) \cup {m}
    <2>1. 1..Len(q) \subseteq 1..Len(t) /\ Len(q) + 1 \in 1..Len(t)
      BY <1>2
    <2> QED
      BY <1>2, <1>3, <1>4, <2>1 DEF Msgs
  <1>6. ASSUME Increasing(q), Earlier(Msgs(q), {m}) PROVE Increasing(t)
    <2>1. \A i \in 1..Len(q) : q[i].thread = m.thread => q[i].n < m.n
      BY <1>4, <1>6 DEF Earlier, Msgs
    <2> QED
      BY <1>2, <1>3, <1>6, <2>1 DEF Increasing
  <1> QED
    BY <1>1, <1>2, <1>5, <1>6

\* The same for what the user got.
LEMMA GivenFacts ==
    ASSUME NEW q \in Seq(Taken), NEW v \in Taken
    PROVE  /\ Append(q, v) \in Seq(Taken) /\ Len(q) \in Nat /\ DOMAIN q = 1..Len(q)
           /\ DOMAIN Append(q, v) = 1..(Len(q) + 1)
           /\ Append(q, v)[Len(q) + 1] = v
           /\ \A i \in 1..Len(q) : Append(q, v)[i] = q[i]
  <1>0. Append(q, v) \in Seq(Taken)
    OBVIOUS
  <1>1. PICK t \in Seq(Taken) : t = Append(q, v)
    BY <1>0
  <1>2. /\ Len(q) \in Nat /\ Len(t) = Len(q) + 1 /\ t[Len(q) + 1] = v
        /\ \A i \in 1..Len(q) : t[i] = q[i]
    BY <1>1
  <1>3. DOMAIN q = 1..Len(q) /\ DOMAIN t = 1..Len(t)
    OBVIOUS
  <1> QED
    BY <1>1, <1>2, <1>3

\* Taking the oldest sample leaves an end of what arrived.
LEMMA SuffixTail ==
    ASSUME NEW q \in Seq(Message), NEW a \in Seq(Message), q # <<>>, Suffix(q, a)
    PROVE  Suffix(Tail(q), a)
  <1>1. PICK k \in 0..Len(a) : Len(q) = Len(a) - k /\ \A i \in 1..Len(q) : q[i] = a[i + k]
    BY DEF Suffix
  <1>2. PICK t \in Seq(Message) : /\ t = Tail(q) /\ Len(t) = Len(q) - 1 /\ Len(q) > 0
                                  /\ \A i \in 1..Len(t) : t[i] = q[i + 1]
    BY TailFacts
  <1>3. Len(a) \in Nat /\ Len(q) \in Nat
    OBVIOUS
  <1>4. k + 1 \in 0..Len(a) /\ Len(t) = Len(a) - (k + 1)
    BY <1>1, <1>2, <1>3
  <1>5. \A i \in 1..Len(t) : i + 1 \in 1..Len(q) /\ (i + 1) + k = i + (k + 1)
    BY <1>1, <1>2, <1>3
  <1>6. \A i \in 1..Len(t) : t[i] = a[i + (k + 1)]
    BY <1>1, <1>2, <1>5
  <1>7. Suffix(t, a)
    BY <1>4, <1>6 DEF Suffix
  <1> QED
    BY <1>2, <1>7

\* Queueing an arriving sample.
LEMMA SuffixAppend ==
    ASSUME NEW q \in Seq(Message), NEW a \in Seq(Message), NEW m \in Message, Suffix(q, a)
    PROVE  Suffix(Append(q, m), Append(a, m))
  <1>1. PICK k \in 0..Len(a) : Len(q) = Len(a) - k /\ \A i \in 1..Len(q) : q[i] = a[i + k]
    BY DEF Suffix
  <1>2. PICK t \in Seq(Message) :
            /\ t = Append(q, m) /\ Len(q) \in Nat /\ Len(t) = Len(q) + 1 /\ t[Len(q) + 1] = m
            /\ \A i \in 1..Len(q) : t[i] = q[i]
    BY AppendFacts, ZenonT(40)
  <1>3. PICK b \in Seq(Message) :
            /\ b = Append(a, m) /\ Len(a) \in Nat /\ Len(b) = Len(a) + 1 /\ b[Len(a) + 1] = m
            /\ \A i \in 1..Len(a) : b[i] = a[i]
    BY AppendFacts, ZenonT(40)
  <1>4. k \in 0..Len(b) /\ Len(t) = Len(b) - k
    BY <1>1, <1>2, <1>3
  <1>5. \A i \in 1..Len(t) : t[i] = b[i + k]
    <2>1. SUFFICES ASSUME NEW i \in 1..Len(t)
                   PROVE  t[i] = b[i + k]
      OBVIOUS
    <2>2. CASE i \in 1..Len(q)
      <3>1. i + k \in 1..Len(a)
        BY <1>1, <1>2, <1>3, <2>2
      <3> QED
        BY <1>1, <1>2, <1>3, <2>2, <3>1
    <2>3. CASE i = Len(q) + 1
      <3>1. i + k = Len(a) + 1
        BY <1>1, <1>2, <1>3, <2>3
      <3> QED
        BY <1>2, <1>3, <2>3, <3>1
    <2> QED
      BY <1>2, <2>2, <2>3
  <1>6. Suffix(t, b)
    BY <1>4, <1>5 DEF Suffix
  <1> QED
    BY <1>2, <1>3, <1>6

\* BoundedQueue::push keeps the depth, the order and the newest samples.
LEMMA PushFacts ==
    ASSUME NEW q \in Seq(Message), NEW a \in Seq(Message), NEW m \in Message,
           NEW depth \in Nat \ {0}, Len(q) <= depth, Suffix(q, a),
           Increasing(q), Earlier(Msgs(q), {m})
    PROVE  /\ Pushed(q, m, depth) \in Seq(Message) /\ Len(Pushed(q, m, depth)) <= depth
           /\ Msgs(Pushed(q, m, depth)) \subseteq Msgs(q) \cup {m}
           /\ Increasing(Pushed(q, m, depth))
           /\ Suffix(Pushed(q, m, depth), Append(a, m))
  <1>0. Len(q) \in Nat
    OBVIOUS
  <1>1. CASE Len(q) < depth
    <2>1. Pushed(q, m, depth) = Append(q, m)
      BY <1>0, <1>1 DEF Pushed
    <2>2. /\ Append(q, m) \in Seq(Message) /\ Msgs(Append(q, m)) = Msgs(q) \cup {m}
          /\ Len(Append(q, m)) = Len(q) + 1 /\ Increasing(Append(q, m))
      BY AppendFacts
    <2>3. Suffix(Append(q, m), Append(a, m))
      BY SuffixAppend
    <2> QED
      BY <1>0, <1>1, <2>1, <2>2, <2>3
  <1>2. CASE Len(q) >= depth
    <2>1. Pushed(q, m, depth) = Append(Tail(q), m) /\ q # <<>>
      BY <1>0, <1>2 DEF Pushed
    <2>2. PICK t \in Seq(Message) : /\ t = Tail(q) /\ Len(t) = Len(q) - 1
                                    /\ Msgs(t) \subseteq Msgs(q) /\ Increasing(t)
      BY <2>1, TailFacts
    <2>3. Earlier(Msgs(t), {m}) /\ Suffix(t, a)
      BY <2>1, <2>2, SuffixTail DEF Earlier
    <2>4. /\ Append(t, m) \in Seq(Message) /\ Msgs(Append(t, m)) = Msgs(t) \cup {m}
          /\ Len(Append(t, m)) = Len(t) + 1 /\ Increasing(Append(t, m))
      BY <2>2, <2>3, AppendFacts
    <2>5. Suffix(Append(t, m), Append(a, m))
      BY <2>3, SuffixAppend
    <2> QED
      BY <1>0, <2>1, <2>2, <2>4, <2>5
  <1> QED
    BY <1>0, <1>1, <1>2

-----------------------------------------------------------------------------
(* The threads                                                             *)

\* A thread that is busy holds a message.
LEMMA BusyStep ==
    ASSUME TypeThreads, NEW t \in Threads, Busy(t)
    PROVE  /\ step[t] \in InWork /\ step[t].msg \in Message
           /\ step[t].at \in {"serialized", "stamped"}
  <1>1. step[t] \in {Idle, Panicked} \cup InWork
    BY DEF TypeThreads
  <1>2. step[t] # Idle /\ step[t] # Panicked
    BY DEF Busy, Idle, Panicked
  <1> QED
    BY <1>1, <1>2 DEF InWork, Busy

\* A new message is one.
LEMMA NewMessage ==
    ASSUME TypeThreads, NEW t \in Threads, NEW body \in {"good", "bad", "empty"}
    PROVE  /\ New(t, body) \in Message /\ New(t, body).thread = t
           /\ New(t, body).pub = PubOf[t] /\ New(t, body).n = count[t] + 1
  BY DEF TypeThreads, New, Message, Unstamped

\* A publication begins: the thread counts it, and has its message in hand
\* unless the serialization panicked.
LEMMA BeginEffect ==
    ASSUME TypeThreads, NEW t \in Threads, publish(t) \/ publish_serialized(t)
    PROVE  /\ step[t] = Idle /\ sn' = sn
           /\ count' = [count EXCEPT ![t] = @ + 1]
           /\ UNCHANGED <<live, kind, net, queue, arrived, taken, left>>
           /\ \E new \in {Panicked} \cup InWork :
                 /\ step' = [step EXCEPT ![t] = new]
                 /\ new # Panicked => /\ new \in InWork /\ new.at = "serialized" /\ new.msg.thread = t
                                      /\ new.msg.pub = PubOf[t] /\ new.msg.n = count[t] + 1
  <1>1. \A body \in {"good", "bad", "empty"} :
            LET new == At("serialized", New(t, body)) IN
            /\ new \in InWork /\ new.at = "serialized" /\ new.msg.thread = t
            /\ new.msg.pub = PubOf[t] /\ new.msg.n = count[t] + 1
    BY NewMessage DEF At, InWork
  <1>2. PICK new : /\ step' = [step EXCEPT ![t] = new]
                   /\ \/ new = Panicked
                      \/ \E body \in {"good", "bad", "empty"} : new = At("serialized", New(t, body))
    <2>1. CASE publish(t)
      BY <2>1 DEF publish, Serialized, serialize_message, Panicked
    <2>2. CASE publish_serialized(t)
      BY <2>2 DEF publish_serialized
    <2> QED
      BY <2>1, <2>2
  <1>3. step[t] = Idle /\ sn' = sn /\ count' = [count EXCEPT ![t] = @ + 1]
        /\ UNCHANGED <<live, kind, net, queue, arrived, taken, left>>
    BY DEF publish, publish_serialized
  <1> QED
    BY <1>1, <1>2, <1>3

\* The message in hand is stamped: with the publisher's next number if it
\* attaches numbers.
LEMMA StampEffect ==
    ASSUME TypeThreads, InHand, NEW t \in Threads, new_attachment(t)
    PROVE  /\ step[t].at = "serialized" /\ Busy(t) /\ PubOf[t] \in Pubs
           /\ sn' \in [Pubs -> Nat] /\ count' = count
           /\ \A p \in Pubs : sn[p] <= sn'[p]
           /\ UNCHANGED <<live, kind, net, queue, arrived, taken, left>>
           /\ \E new \in InWork :
                 /\ step' = [step EXCEPT ![t] = new] /\ new.at = "stamped"
                 /\ new.msg.thread = t /\ new.msg.pub = PubOf[t] /\ new.msg.n = count[t]
                 /\ PubOf[t] \in Attached => new.msg.sn = sn[PubOf[t]] /\ sn'[PubOf[t]] = sn[PubOf[t]] + 1
  <1>1. /\ step[t].at = "serialized" /\ Busy(t) /\ PubOf[t] \in Pubs /\ count' = count
        /\ UNCHANGED <<live, kind, net, queue, arrived, taken, left>>
    BY DEF new_attachment, Busy
  <1>2. step[t] \in InWork /\ step[t].msg \in Message
    BY <1>1, BusyStep
  <1>3. step[t].msg.thread = t /\ step[t].msg.pub = PubOf[t] /\ step[t].msg.n = count[t]
    BY <1>1 DEF InHand
  <1>4. CASE PubOf[t] \in Attached
    <2>1. PICK m : m = [step[t].msg EXCEPT !.sn = sn[PubOf[t]]]
      OBVIOUS
    <2>2. /\ m \in Message /\ m.thread = t /\ m.pub = PubOf[t] /\ m.n = count[t]
          /\ m.sn = sn[PubOf[t]]
      BY <1>1, <1>2, <1>3, <2>1 DEF Message, TypeThreads
    <2>3. At("stamped", m) \in InWork /\ At("stamped", m).at = "stamped" /\ At("stamped", m).msg = m
      BY <2>2 DEF At, InWork
    <2>4. step' = [step EXCEPT ![t] = At("stamped", m)] /\ sn' = [sn EXCEPT ![PubOf[t]] = @ + 1]
      BY <1>4, <2>1 DEF new_attachment
    <2>5. /\ sn' \in [Pubs -> Nat] /\ (\A p \in Pubs : sn[p] <= sn'[p])
          /\ sn'[PubOf[t]] = sn[PubOf[t]] + 1
      BY <1>1, <2>4 DEF TypeThreads
    <2> QED
      BY <1>1, <2>2, <2>3, <2>4, <2>5
  <1>5. CASE PubOf[t] \notin Attached
    <2>1. PICK new : new = [step[t] EXCEPT !.at = "stamped"]
      OBVIOUS
    <2>2. new \in InWork /\ new.at = "stamped" /\ new.msg = step[t].msg
      BY <1>2, <2>1 DEF InWork
    <2>3. step' = [step EXCEPT ![t] = new] /\ sn' = sn
      BY <1>5, <2>1 DEF new_attachment
    <2>4. sn' \in [Pubs -> Nat] /\ (\A p \in Pubs : sn[p] <= sn'[p])
      BY <2>3 DEF TypeThreads
    <2> QED
      BY <1>1, <1>3, <1>5, <2>2, <2>3, <2>4
  <1> QED
    BY <1>4, <1>5

\* The message in hand is put on the way to some of the subscriptions there are.
LEMMA PutEffect ==
    ASSUME TypeThreads, TypeSubs, InHand, NEW t \in Threads, put(t)
    PROVE  /\ step[t].at = "stamped" /\ Busy(t) /\ PubOf[t] \in Pubs
           /\ step[t].msg \in Message /\ step[t].msg.thread = t
           /\ step[t].msg.pub = PubOf[t] /\ step[t].msg.n = count[t]
           /\ PubOf[t] \in Attached => step[t].msg.sn < sn[PubOf[t]]
           /\ step' = [step EXCEPT ![t] = Idle] /\ sn' = sn /\ count' = count
           /\ UNCHANGED <<live, kind, queue, arrived, taken, left>>
           /\ \E to \in SUBSET live :
                 net' = [net EXCEPT ![PubOf[t]] =
                           [s \in Subs |-> IF s \in to THEN Append(net[PubOf[t]][s], step[t].msg)
                                           ELSE net[PubOf[t]][s]]]
  <1>1. /\ step[t].at = "stamped" /\ Busy(t) /\ PubOf[t] \in Pubs
        /\ step' = [step EXCEPT ![t] = Idle] /\ sn' = sn /\ count' = count
        /\ UNCHANGED <<live, kind, queue, arrived, taken, left>>
    BY DEF put, Busy
  <1>2. step[t].msg \in Message
    BY <1>1, BusyStep
  <1>3. /\ step[t].msg.thread = t /\ step[t].msg.pub = PubOf[t] /\ step[t].msg.n = count[t]
        /\ PubOf[t] \in Attached => step[t].msg.sn < sn[PubOf[t]]
    BY <1>1 DEF InHand
  <1>4. \E to \in SUBSET live :
           net' = [net EXCEPT ![PubOf[t]] =
                     [s \in Subs |-> IF s \in to THEN Append(net[PubOf[t]][s], step[t].msg)
                                     ELSE net[PubOf[t]][s]]]
    BY DEF put, Receivers
  <1> QED
    BY <1>1, <1>2, <1>3, <1>4

\* What no thread does leaves the threads, and the dates, alone.
LEMMA ThreadsSame ==
    ASSUME TypeThreads, InHand, UNCHANGED <<sn, step, count>>
    PROVE  TypeThreads' /\ InHand' /\ \A m : Dated(m) => Dated(m)'
  <1>1. TypeThreads'
    BY DEF TypeThreads
  <1>2. InHand'
    BY DEF InHand, Busy
  <1>3. \A m : Dated(m) => Dated(m)'
    BY DEF Dated, Busy
  <1> QED
    BY <1>1, <1>2, <1>3

\* A publication that begins leaves the messages in hand as they are.
LEMMA ThreadsBegin ==
    ASSUME TypeThreads, InHand, NEW t \in Threads, publish(t) \/ publish_serialized(t)
    PROVE  TypeThreads' /\ InHand' /\ \A m : Dated(m) => Dated(m)'
  <1>1. /\ step[t] = Idle /\ sn' = sn /\ count' = [count EXCEPT ![t] = @ + 1]
        /\ \E new \in {Panicked} \cup InWork :
                 /\ step' = [step EXCEPT ![t] = new]
                 /\ new # Panicked => /\ new \in InWork /\ new.at = "serialized" /\ new.msg.thread = t
                                      /\ new.msg.pub = PubOf[t] /\ new.msg.n = count[t] + 1
    BY BeginEffect
  <1>2. PICK new \in {Panicked} \cup InWork :
                 /\ step' = [step EXCEPT ![t] = new]
                 /\ new # Panicked => /\ new \in InWork /\ new.at = "serialized" /\ new.msg.thread = t
                                      /\ new.msg.pub = PubOf[t] /\ new.msg.n = count[t] + 1
    BY <1>1
  <1>3. /\ step'[t] = new /\ count'[t] = count[t] + 1
        /\ \A u \in Threads : u # t => step'[u] = step[u] /\ count'[u] = count[u]
    BY <1>1, <1>2 DEF TypeThreads
  <1>4. TypeThreads'
    BY <1>1, <1>2 DEF TypeThreads
  <1>5. InHand'
    <2>1. SUFFICES ASSUME NEW u \in Threads, Busy(u)'
                   PROVE  /\ step'[u].msg.thread = u /\ step'[u].msg.pub = PubOf[u]
                          /\ step'[u].msg.n = count'[u]
                          /\ step'[u].at = "stamped" /\ PubOf[u] \in Attached =>
                                step'[u].msg.sn < sn'[PubOf[u]]
      BY DEF InHand
    <2>2. CASE u = t
      <3>1. new # Panicked
        BY <1>3, <2>1, <2>2 DEF Busy, Panicked
      <3> QED
        BY <1>2, <1>3, <2>2, <3>1
    <2>3. CASE u # t
      <3>1. Busy(u) /\ step'[u] = step[u] /\ count'[u] = count[u]
        BY <1>3, <2>1, <2>3 DEF Busy
      <3> QED
        BY <1>1, <3>1 DEF InHand
    <2> QED
      BY <2>2, <2>3
  <1>6. ASSUME NEW m, Dated(m)
        PROVE  Dated(m)'
    <2>1. /\ m \in Message /\ m.thread \in Threads /\ m.n \in Nat
          /\ m.pub = PubOf[m.thread] /\ m.n <= count[m.thread]
          /\ (Busy(m.thread) => m.n < count[m.thread]) /\ (m.pub \in Attached => m.sn < sn[m.pub])
      BY <1>6 DEF Dated, Message
    <2>2. CASE m.thread = t
      <3>1. m.n < count'[m.thread]
        BY <1>3, <2>1, <2>2 DEF TypeThreads
      <3>2. m.n <= count'[m.thread]
        BY <1>4, <2>1, <3>1 DEF TypeThreads
      <3> QED
        BY <1>1, <2>1, <3>1, <3>2 DEF Dated
    <2>3. CASE m.thread # t
      <3>1. count'[m.thread] = count[m.thread] /\ (Busy(m.thread)' => Busy(m.thread))
        BY <1>3, <2>1, <2>3 DEF Busy
      <3> QED
        BY <1>1, <2>1, <3>1 DEF Dated
    <2> QED
      BY <2>2, <2>3
  <1> QED
    BY <1>4, <1>5, <1>6

\* A stamp is of its thread's publisher, and later than all before it.
LEMMA ThreadsStamp ==
    ASSUME TypeThreads, InHand, NEW t \in Threads, new_attachment(t)
    PROVE  TypeThreads' /\ InHand' /\ \A m : Dated(m) => Dated(m)'
  <1>1. /\ Busy(t) /\ PubOf[t] \in Pubs
        /\ sn' \in [Pubs -> Nat] /\ count' = count
        /\ \A p \in Pubs : sn[p] <= sn'[p]
    BY StampEffect
  <1>2. PICK new \in InWork :
                 /\ step' = [step EXCEPT ![t] = new] /\ new.at = "stamped"
                 /\ new.msg.thread = t /\ new.msg.pub = PubOf[t] /\ new.msg.n = count[t]
                 /\ PubOf[t] \in Attached => new.msg.sn = sn[PubOf[t]] /\ sn'[PubOf[t]] = sn[PubOf[t]] + 1
    BY StampEffect
  <1>3. /\ step'[t] = new
        /\ \A u \in Threads : u # t => step'[u] = step[u]
    BY <1>1, <1>2 DEF TypeThreads
  <1>4. TypeThreads'
    BY <1>1, <1>2 DEF TypeThreads
  <1>5. InHand'
    <2>1. SUFFICES ASSUME NEW u \in Threads, Busy(u)'
                   PROVE  /\ step'[u].msg.thread = u /\ step'[u].msg.pub = PubOf[u]
                          /\ step'[u].msg.n = count'[u]
                          /\ step'[u].at = "stamped" /\ PubOf[u] \in Attached =>
                                step'[u].msg.sn < sn'[PubOf[u]]
      BY DEF InHand
    <2>2. CASE u = t
      BY <1>1, <1>2, <1>3, <2>2 DEF TypeThreads
    <2>3. CASE u # t
      <3>1. Busy(u) /\ step'[u] = step[u] /\ PubOf[u] \in Pubs
        BY <1>3, <2>1, <2>3 DEF Busy
      <3>2. step[u].msg \in Message
        BY <3>1, BusyStep
      <3>3. step[u].msg.sn \in Int /\ sn[PubOf[u]] \in Nat /\ sn'[PubOf[u]] \in Nat
            /\ sn[PubOf[u]] <= sn'[PubOf[u]]
        BY <1>1, <3>1, <3>2 DEF Message, TypeThreads
      <3>4. /\ step[u].msg.thread = u /\ step[u].msg.pub = PubOf[u] /\ step[u].msg.n = count[u]
            /\ step[u].at = "stamped" /\ PubOf[u] \in Attached => step[u].msg.sn < sn[PubOf[u]]
        BY <3>1 DEF InHand
      <3> QED
        BY <1>1, <3>1, <3>3, <3>4
    <2> QED
      BY <2>2, <2>3
  <1>6. ASSUME NEW m, Dated(m)
        PROVE  Dated(m)'
    <2>1. /\ m \in Message /\ m.thread \in Threads /\ m.sn \in Int /\ m.pub \in Pubs
          /\ m.pub = PubOf[m.thread] /\ m.n <= count[m.thread]
          /\ (Busy(m.thread) => m.n < count[m.thread]) /\ (m.pub \in Attached => m.sn < sn[m.pub])
      BY <1>6 DEF Dated, Message
    <2>2. Busy(m.thread)' => Busy(m.thread)
      BY <1>1, <1>3, <2>1 DEF Busy
    <2>3. m.pub \in Attached => m.sn < sn'[m.pub]
      BY <1>1, <2>1 DEF TypeThreads
    <2> QED
      BY <1>1, <2>1, <2>2, <2>3 DEF Dated
  <1> QED
    BY <1>4, <1>5, <1>6

\* What is put has a stamp, and the thread is free again.
LEMMA ThreadsPut ==
    ASSUME TypeThreads, TypeSubs, InHand, NEW t \in Threads, put(t)
    PROVE  /\ TypeThreads' /\ InHand' /\ \A m : Dated(m) => Dated(m)'
           /\ \A m : m = step[t].msg => Dated(m)'
  <1>1. /\ PubOf[t] \in Pubs
        /\ step[t].msg \in Message /\ step[t].msg.thread = t
        /\ step[t].msg.pub = PubOf[t] /\ step[t].msg.n = count[t]
        /\ PubOf[t] \in Attached => step[t].msg.sn < sn[PubOf[t]]
        /\ step' = [step EXCEPT ![t] = Idle] /\ sn' = sn /\ count' = count
    BY PutEffect
  <1>2. step'[t] = Idle /\ \A u \in Threads : u # t => step'[u] = step[u]
    BY <1>1 DEF TypeThreads
  <1>3. ~Busy(t)' /\ \A u \in Threads : Busy(u)' => u # t /\ Busy(u)
    BY <1>2 DEF Busy, Idle
  <1>4. TypeThreads'
    BY <1>1 DEF TypeThreads
  <1>5. InHand'
    BY <1>1, <1>2, <1>3 DEF InHand
  <1>6. ASSUME NEW m, Dated(m)
        PROVE  Dated(m)'
    <2>1. m \in Message /\ m.thread \in Threads
      BY <1>6 DEF Dated, Message
    <2> QED
      BY <1>1, <1>3, <1>6, <2>1 DEF Dated
  <1>7. ASSUME NEW m, m = step[t].msg
        PROVE  Dated(m)'
    <2>1. m.n <= count'[m.thread]
      BY <1>1, <1>7 DEF TypeThreads
    <2>2. m \in Message /\ m.pub = PubOf[m.thread] /\ ~Busy(m.thread)' /\ (m.pub \in Attached => m.sn < sn'[m.pub])
      BY <1>1, <1>3, <1>7
    <2> QED
      BY <2>1, <2>2 DEF Dated
  <1> QED
    BY <1>4, <1>5, <1>6, <1>7

-----------------------------------------------------------------------------
(* The subscriptions                                                       *)

Held(s) == OnTheWay(s) \cup Msgs(queue[s]) \cup Given(s)

\* A step that does not touch a subscription keeps what holds of it.
LEMMA Untouched ==
    ASSUME NEW s \in Subs, SubInv(s), \A m : Dated(m) => Dated(m)',
           \A p \in Pubs : net'[p][s] = net[p][s],
           queue'[s] = queue[s], arrived'[s] = arrived[s], taken'[s] = taken[s],
           kind'[s] = kind[s], left'[s] = left[s], s \in live' <=> s \in live
    PROVE  SubInv(s)' /\ Held(s)' = Held(s)
  <1>1. Given(s)' = Given(s)
    BY DEF Given
  <1>2. OnTheWay(s)' = OnTheWay(s)
    BY DEF OnTheWay
  <1>3. SubDated(s)'
    BY <1>1 DEF SubInv, SubDated
  <1>4. SubOrder(s)'
    BY <1>1 DEF SubInv, SubOrder, SubTaken
  <1>5. SubFresh(s)' /\ SubOnly(s)'
    BY DEF SubInv, SubFresh, SubOnly
  <1> QED
    BY <1>1, <1>2, <1>3, <1>4, <1>5 DEF SubInv, Held

\* Nothing there: what declare finds and undeclare leaves.
LEMMA Nothing ==
    ASSUME NEW s \in Subs, queue'[s] = <<>>, taken'[s] = <<>>, left'[s] = 0,
           Suffix(queue[s], arrived[s])', \A p \in Pubs : net'[p][s] = <<>>
    PROVE  SubInv(s)' /\ Held(s)' = {}
  <1>1. Given(s)' = {} /\ Msgs(<<>>) = {}
    BY DEF Given, Msgs
  <1>2. OnTheWay(s)' = {}
    BY <1>1 DEF OnTheWay
  <1>3. SubDated(s)'
    BY <1>1 DEF SubDated
  <1>4. SubOrder(s)'
    BY <1>1 DEF SubOrder, SubTaken, Earlier, Increasing
  <1>5. SubFresh(s)' /\ SubOnly(s)'
    BY DEF SubFresh, SubOnly
  <1>6. Len(queue'[s]) <= Depth[s]
    BY Depth[s] \in Nat
  <1> QED
    BY <1>1, <1>2, <1>3, <1>4, <1>5, <1>6 DEF SubInv, Held

\* The user gets one more.
LEMMA GivenAppend ==
    ASSUME NEW s \in Subs, TypeSubs, NEW v \in Taken, taken'[s] = Append(taken[s], v)
    PROVE  /\ Given(s)' = Given(s) \cup {v.msg}
           /\ SubTaken(s) /\ Earlier(Given(s), {v.msg}) => SubTaken(s)'
           /\ SubOnly(s) /\ kind'[s] = kind[s] /\ (v.ok /\ kind[s] # "rmw" => v.msg.body = "good") => SubOnly(s)'
  <1>1. PICK a \in Seq(Taken) : a = taken[s]
    BY DEF TypeSubs
  <1>2. PICK b : b = Append(a, v)
    OBVIOUS
  <1>3. /\ Len(a) \in Nat /\ DOMAIN a = 1..Len(a) /\ DOMAIN b = 1..(Len(a) + 1)
        /\ b[Len(a) + 1] = v /\ \A i \in 1..Len(a) : b[i] = a[i]
    BY <1>2, GivenFacts
  <1>4. /\ \A i \in DOMAIN b : \/ i \in DOMAIN a /\ b[i] = a[i]
                               \/ i = Len(a) + 1 /\ b[i] = v
        /\ \A i \in DOMAIN a : i \in DOMAIN b /\ b[i] = a[i] /\ i < Len(a) + 1
        /\ Len(a) + 1 \in DOMAIN b
    BY <1>3
  <1>5. Given(s)' = {b[i].msg : i \in DOMAIN b} /\ Given(s) = {a[i].msg : i \in DOMAIN a}
    BY <1>1, <1>2 DEF Given
  <1>6. Given(s)' = Given(s) \cup {v.msg}
    BY <1>3, <1>4, <1>5
  <1>7. ASSUME SubTaken(s), Earlier(Given(s), {v.msg})
        PROVE  SubTaken(s)'
    <2>1. \A i \in DOMAIN a : a[i].msg.thread = v.msg.thread => a[i].msg.n < v.msg.n
      BY <1>5, <1>7 DEF Earlier
    <2>2. \A i, j \in DOMAIN a : i < j /\ a[i].msg.thread = a[j].msg.thread => a[i].msg.n < a[j].msg.n
      BY <1>1, <1>7 DEF SubTaken
    <2>3. \A i, j \in DOMAIN b : i < j /\ b[i].msg.thread = b[j].msg.thread => b[i].msg.n < b[j].msg.n
      <3>1. SUFFICES ASSUME NEW i \in DOMAIN b, NEW j \in DOMAIN b, i < j, b[i].msg.thread = b[j].msg.thread
                     PROVE  b[i].msg.n < b[j].msg.n
        OBVIOUS
      <3>2. i \in DOMAIN a /\ b[i] = a[i]
        BY <1>3, <3>1
      <3>3. CASE j \in DOMAIN a /\ b[j] = a[j]
        BY <2>2, <3>1, <3>2, <3>3
      <3>4. CASE b[j] = v
        BY <2>1, <3>1, <3>2, <3>4
      <3> QED
        BY <1>4, <3>3, <3>4
    <2> QED
      BY <1>1, <1>2, <2>3 DEF SubTaken
  <1>8. ASSUME SubOnly(s), kind'[s] = kind[s], v.ok /\ kind[s] # "rmw" => v.msg.body = "good"
        PROVE  SubOnly(s)'
    <2>1. kind[s] # "rmw" => \A i \in DOMAIN b : b[i].ok => b[i].msg.body = "good"
      BY <1>1, <1>4, <1>8 DEF SubOnly
    <2> QED
      BY <1>1, <1>2, <1>8, <2>1 DEF SubOnly
  <1> QED
    BY <1>6, <1>7, <1>8

\* One sample goes from the queue to the user.
LEMMA SubTakes ==
    ASSUME NEW s \in Subs, TypeSubs, SubInv(s), \A m : Dated(m) => Dated(m)',
           NEW ok \in BOOLEAN, TakeOne(s, ok), left'[s] \in Nat, left'[s] <= left[s],
           ok /\ kind[s] # "rmw" => Head(queue[s]).body = "good"
    PROVE  SubInv(s)' /\ Held(s)' \subseteq Held(s)
  <1>1. PICK q \in Seq(Message) : q = queue[s]
    BY DEF TypeSubs
  <1>2. q # <<>> /\ s \in live
    BY <1>1 DEF TakeOne
  <1>3. PICK h \in Message : h = Head(q)
    BY <1>2, TailFacts
  <1>4. PICK t \in Seq(Message) : t = Tail(q)
    BY <1>2, TailFacts
  <1>5. /\ h \in Msgs(q) /\ Msgs(t) \subseteq Msgs(q)
        /\ Len(q) \in Nat /\ Len(t) = Len(q) - 1
        /\ Increasing(q) => Increasing(t) /\ Earlier({h}, Msgs(t))
    BY <1>2, <1>3, <1>4, TailFacts
  <1>6. PICK v \in Taken : v = Verdict(h, ok) /\ v.msg = h /\ v.ok = ok
    <2>1. Verdict(h, ok) \in Taken /\ Verdict(h, ok).msg = h /\ Verdict(h, ok).ok = ok
      BY DEF Verdict, Taken
    <2> QED
      BY <2>1
  <1>7. /\ queue'[s] = t /\ taken'[s] = Append(taken[s], v)
        /\ UNCHANGED <<live, kind, net, arrived>>
    BY <1>1, <1>3, <1>4, <1>6 DEF TakeOne, TypeSubs
  <1>8. /\ Len(q) <= Depth[s] /\ (kind[s] = "callback" => q = <<>>) /\ Suffix(q, arrived[s])
        /\ SubDated(s) /\ SubOrder(s) /\ SubFresh(s) /\ SubOnly(s)
    BY <1>1 DEF SubInv
  <1>9. /\ SubTaken(s) /\ Increasing(q) /\ Earlier(Given(s), Msgs(q))
        /\ \A p \in Pubs : /\ Increasing(net[p][s])
                           /\ Earlier(Given(s) \cup Msgs(q), Msgs(net[p][s]))
    BY <1>1, <1>8 DEF SubOrder
  <1>10. Earlier(Given(s), {h})
    BY <1>5, <1>9 DEF Earlier
  <1>11. Given(s)' = Given(s) \cup {h} /\ SubTaken(s)' /\ SubOnly(s)'
    BY <1>1, <1>3, <1>6, <1>7, <1>8, <1>9, <1>10, GivenAppend
  <1>12. OnTheWay(s)' = OnTheWay(s)
    BY <1>7 DEF OnTheWay
  <1>13. Suffix(queue[s], arrived[s])'
    <2>1. Suffix(t, arrived[s])
      BY <1>2, <1>4, <1>8, SuffixTail DEF TypeSubs
    <2> QED
      BY <1>7, <2>1
  <1>14. SubDated(s)'
    <2>1. \A m \in Msgs(t) \cup Given(s)' : Dated(m)
      BY <1>1, <1>5, <1>8, <1>11 DEF SubDated
    <2>2. \A p \in Pubs : \A m \in Msgs(net[p][s]) : Dated(m) /\ m.pub = p
      BY <1>8 DEF SubDated
    <2> QED
      BY <1>7, <2>1, <2>2 DEF SubDated
  <1>15. SubOrder(s)'
    <2>1. Increasing(t) /\ Earlier(Given(s)', Msgs(t))
      BY <1>5, <1>9, <1>11 DEF Earlier
    <2>2. \A p \in Pubs : Earlier(Given(s)' \cup Msgs(t), Msgs(net[p][s]))
      BY <1>5, <1>9, <1>11 DEF Earlier
    <2> QED
      BY <1>7, <1>9, <1>11, <2>1, <2>2 DEF SubOrder
  <1>16. SubFresh(s)'
    BY <1>2, <1>7, <1>8 DEF SubFresh, TypeSubs
  <1>17. Len(t) <= Depth[s]
    BY <1>5, <1>8, Depth[s] \in Nat
  <1>18. Held(s)' \subseteq Held(s)
    BY <1>1, <1>5, <1>7, <1>11, <1>12 DEF Held
  <1> QED
    BY <1>2, <1>7, <1>8, <1>11, <1>13, <1>14, <1>15, <1>16, <1>17, <1>18 DEF SubInv

\* The next sample of a publisher is later than what the subscription got, and
\* earlier than what is still on its way.
LEMMA NextSample ==
    ASSUME NEW s \in Subs, NEW p \in Pubs, TypeSubs, SubInv(s), net[p][s] # <<>>,
           NEW h, h = Head(net[p][s]), net' = [net EXCEPT ![p][s] = Tail(@)]
    PROVE  /\ h \in Message /\ h \in OnTheWay(s) /\ Dated(h)
           /\ Earlier(Given(s) \cup Msgs(queue[s]), {h})
           /\ OnTheWay(s)' \subseteq OnTheWay(s)
           /\ \A x \in Pubs : /\ Msgs(net'[x][s]) \subseteq Msgs(net[x][s])
                              /\ Increasing(net'[x][s])
                              /\ Earlier(Given(s) \cup Msgs(queue[s]) \cup {h}, Msgs(net'[x][s]))
  <1>1. PICK q \in Seq(Message) : q = net[p][s]
    BY DEF TypeSubs
  <1>2. PICK t \in Seq(Message) : t = Tail(q)
    BY <1>1, TailFacts
  <1>3. /\ h \in Message /\ h \in Msgs(q) /\ Msgs(t) \subseteq Msgs(q)
        /\ Increasing(q) => Increasing(t) /\ Earlier({h}, Msgs(t))
    BY <1>1, <1>2, TailFacts
  <1>4. net'[p][s] = t /\ \A x \in Pubs : x # p => net'[x][s] = net[x][s]
    BY <1>1, <1>2 DEF TypeSubs
  <1>5. \A x \in Pubs : \A m \in Msgs(net[x][s]) : Dated(m) /\ m.pub = x
    BY DEF SubInv, SubDated
  <1>6. \A x \in Pubs : /\ Increasing(net[x][s])
                        /\ Earlier(Given(s) \cup Msgs(queue[s]), Msgs(net[x][s]))
    BY DEF SubInv, SubOrder
  <1>7. Dated(h) /\ h.pub = p /\ h.pub = PubOf[h.thread]
    BY <1>1, <1>3, <1>5 DEF Dated
  <1>8. Earlier(Given(s) \cup Msgs(queue[s]), {h})
    BY <1>1, <1>3, <1>6 DEF Earlier
  <1>9. ASSUME NEW x \in Pubs
        PROVE  /\ Msgs(net'[x][s]) \subseteq Msgs(net[x][s])
               /\ Increasing(net'[x][s])
               /\ Earlier(Given(s) \cup Msgs(queue[s]) \cup {h}, Msgs(net'[x][s]))
    <2>1. CASE x = p
      <3>1. Msgs(net'[x][s]) \subseteq Msgs(net[x][s]) /\ Increasing(net'[x][s])
        BY <1>1, <1>3, <1>4, <1>6, <2>1
      <3>2. Earlier({h}, Msgs(net'[x][s]))
        BY <1>1, <1>3, <1>4, <1>6, <2>1
      <3> QED
        BY <1>6, <3>1, <3>2 DEF Earlier
    <2>2. CASE x # p
      <3>1. net'[x][s] = net[x][s]
        BY <1>4, <2>2
      <3>2. \A m \in Msgs(net[x][s]) : m.thread # h.thread
        BY <1>5, <1>7, <2>2 DEF Dated
      <3> QED
        BY <1>6, <3>1, <3>2 DEF Earlier
    <2> QED
      BY <2>1, <2>2
  <1>10. OnTheWay(s)' \subseteq OnTheWay(s) /\ h \in OnTheWay(s)
    BY <1>1, <1>3, <1>9 DEF OnTheWay
  <1> QED
    BY <1>3, <1>7, <1>8, <1>9, <1>10

\* A sample arrives, for a callback or in the queue.
LEMMA SubHandles ==
    ASSUME NEW s \in Subs, NEW p \in Pubs, TypeSubs, SubInv(s), \A m : Dated(m) => Dated(m)',
           handle(p, s)
    PROVE  SubInv(s)' /\ Held(s)' \subseteq Held(s)
  <1>0. net[p][s] # <<>> /\ net' = [net EXCEPT ![p][s] = Tail(@)] /\ UNCHANGED <<live, kind, left>>
    BY DEF handle
  <1>1. PICK h \in Message : h = Head(net[p][s])
    BY <1>0, NextSample
  <1>2. /\ h \in OnTheWay(s) /\ Dated(h)
        /\ Earlier(Given(s) \cup Msgs(queue[s]), {h})
        /\ OnTheWay(s)' \subseteq OnTheWay(s)
        /\ \A x \in Pubs : /\ Msgs(net'[x][s]) \subseteq Msgs(net[x][s])
                           /\ Increasing(net'[x][s])
                           /\ Earlier(Given(s) \cup Msgs(queue[s]) \cup {h}, Msgs(net'[x][s]))
    BY <1>0, <1>1, NextSample
  <1>3. /\ Len(queue[s]) <= Depth[s] /\ (kind[s] = "callback" => queue[s] = <<>>)
        /\ Suffix(queue[s], arrived[s])
        /\ SubDated(s) /\ SubOrder(s) /\ SubFresh(s) /\ SubOnly(s)
    BY DEF SubInv
  <1>4. SubTaken(s) /\ Increasing(queue[s]) /\ Earlier(Given(s), Msgs(queue[s]))
    BY <1>3 DEF SubOrder
  <1>5. /\ \A x \in Pubs : \A m \in Msgs(net'[x][s]) : Dated(m) /\ m.pub = x
        /\ \A m \in Msgs(queue[s]) \cup Given(s) \cup {h} : Dated(m)
    BY <1>2, <1>3 DEF SubDated
  <1>6. s \in live
    BY <1>0, <1>3 DEF SubFresh
  <1>7. SubFresh(s)'
    BY <1>0, <1>3, <1>6 DEF SubFresh
  <1>8. CASE kind[s] = "callback" /\ h.body # "good"
    <2>1. taken'[s] = taken[s] /\ queue'[s] = queue[s] /\ arrived'[s] = arrived[s]
      BY <1>1, <1>8 DEF handle, Called, TypeSubs
    <2>2. Given(s)' = Given(s)
      BY <2>1 DEF Given
    <2>3. SubDated(s)'
      BY <1>5, <2>1, <2>2 DEF SubDated
    <2>4. SubOrder(s)'
      <3>1. SubTaken(s)'
        BY <1>4, <2>1 DEF SubTaken
      <3>2. \A x \in Pubs : Earlier(Given(s) \cup Msgs(queue[s]), Msgs(net'[x][s]))
        BY <1>2 DEF Earlier
      <3> QED
        BY <1>2, <1>4, <2>1, <2>2, <3>1, <3>2 DEF SubOrder
    <2>5. SubOnly(s)'
      BY <1>0, <1>3, <2>1 DEF SubOnly
    <2> QED
      BY <1>0, <1>2, <1>3, <1>7, <2>1, <2>2, <2>3, <2>4, <2>5 DEF SubInv, Held
  <1>9. CASE kind[s] = "callback" /\ h.body = "good"
    <2>1. PICK v \in Taken : v = Verdict(h, TRUE) /\ v.msg = h
      <3>1. Verdict(h, TRUE) \in Taken /\ Verdict(h, TRUE).msg = h
        BY DEF Verdict, Taken
      <3> QED
        BY <3>1
    <2>2. /\ taken'[s] = Append(taken[s], v)
          /\ queue'[s] = queue[s] /\ arrived'[s] = arrived[s]
      BY <1>1, <1>9, <2>1 DEF handle, Called, TypeSubs
    <2>3. Given(s)' = Given(s) \cup {h} /\ SubTaken(s)' /\ SubOnly(s)'
      <3>1. Earlier(Given(s), {v.msg})
        BY <1>2, <2>1 DEF Earlier
      <3> QED
        BY <1>0, <1>3, <1>4, <1>9, <2>1, <2>2, <3>1, GivenAppend
    <2>4. SubDated(s)'
      BY <1>5, <2>2, <2>3 DEF SubDated
    <2>5. SubOrder(s)'
      <3>1. Msgs(queue[s]) = {}
        BY <1>3, <1>9 DEF Msgs
      <3>2. \A x \in Pubs : Earlier(Given(s)' \cup Msgs(queue[s]), Msgs(net'[x][s]))
        BY <1>2, <2>3 DEF Earlier
      <3>3. Earlier(Given(s)', Msgs(queue[s]))
        BY <3>1 DEF Earlier
      <3> QED
        BY <1>2, <1>4, <2>2, <2>3, <3>2, <3>3 DEF SubOrder
    <2>6. Held(s)' \subseteq Held(s)
      BY <1>2, <2>2, <2>3 DEF Held
    <2> QED
      BY <1>0, <1>3, <1>7, <2>2, <2>3, <2>4, <2>5, <2>6 DEF SubInv
  <1>10. CASE kind[s] # "callback"
    <2>1. PICK q \in Seq(Message) : q = Pushed(queue[s], h, Depth[s])
      <3>1. Earlier(Msgs(queue[s]), {h})
        BY <1>2 DEF Earlier
      <3> QED
        BY <1>3, <1>4, <3>1, PushFacts, Depth[s] \in Nat \ {0} DEF TypeSubs
    <2>2. /\ Len(q) <= Depth[s] /\ Msgs(q) \subseteq Msgs(queue[s]) \cup {h}
          /\ Increasing(q) /\ Suffix(q, Append(arrived[s], h))
      <3>1. Earlier(Msgs(queue[s]), {h})
        BY <1>2 DEF Earlier
      <3> QED
        BY <1>3, <1>4, <2>1, <3>1, PushFacts, Depth[s] \in Nat \ {0} DEF TypeSubs
    <2>3. queue'[s] = q /\ arrived'[s] = Append(arrived[s], h) /\ taken'[s] = taken[s]
      BY <1>1, <1>10, <2>1 DEF handle, TypeSubs
    <2>4. Given(s)' = Given(s)
      BY <2>3 DEF Given
    <2>5. SubDated(s)'
      BY <1>5, <2>2, <2>3, <2>4 DEF SubDated
    <2>6. SubOrder(s)'
      <3>1. SubTaken(s)'
        BY <1>4, <2>3 DEF SubTaken
      <3>2. Earlier(Given(s), Msgs(q))
        BY <1>2, <1>4, <2>2 DEF Earlier
      <3>3. \A x \in Pubs : Earlier(Given(s) \cup Msgs(q), Msgs(net'[x][s]))
        BY <1>2, <2>2 DEF Earlier
      <3> QED
        BY <1>2, <2>2, <2>3, <2>4, <3>1, <3>2, <3>3 DEF SubOrder
    <2>7. SubOnly(s)'
      BY <1>0, <1>3, <2>3 DEF SubOnly
    <2>8. Held(s)' \subseteq Held(s)
      BY <1>2, <2>2, <2>3, <2>4 DEF Held
    <2> QED
      BY <1>0, <1>7, <1>10, <2>2, <2>3, <2>5, <2>6, <2>7, <2>8 DEF SubInv
  <1> QED
    BY <1>8, <1>9, <1>10

\* A sample is put on the way: it is later than all the subscription has of
\* its thread.
LEMMA SubSent ==
    ASSUME NEW s \in Subs, NEW t \in Threads, TypeThreads, TypeSubs, InHand, SubInv(s), put(t)
    PROVE  SubInv(s)' /\ \A x \in Held(s)' : x \in Held(s) \/ x = step[t].msg
  <1>1. /\ Busy(t) /\ PubOf[t] \in Pubs
        /\ step[t].msg \in Message /\ step[t].msg.thread = t
        /\ step[t].msg.pub = PubOf[t] /\ step[t].msg.n = count[t]
        /\ UNCHANGED <<live, kind, queue, arrived, taken, left>>
    BY PutEffect
  <1>2. PICK to \in SUBSET live :
                 net' = [net EXCEPT ![PubOf[t]] =
                           [r \in Subs |-> IF r \in to THEN Append(net[PubOf[t]][r], step[t].msg)
                                           ELSE net[PubOf[t]][r]]]
    BY PutEffect
  <1>3. PICK m \in Message : m = step[t].msg
    BY <1>1
  <1>4. Dated(m)' /\ \A x : Dated(x) => Dated(x)'
    BY <1>3, ThreadsPut
  <1>5. CASE s \notin to
    <2>1. \A p \in Pubs : net'[p][s] = net[p][s]
      BY <1>1, <1>2, <1>5 DEF TypeSubs
    <2> QED
      BY <1>1, <1>4, <2>1, Untouched
  <1>6. CASE s \in to
    <2>1. PICK q \in Seq(Message) : q = net[PubOf[t]][s]
      BY <1>1 DEF TypeSubs
    <2>2. PICK a \in Seq(Message) : a = Append(q, m)
      BY AppendFacts
    <2>3. /\ net'[PubOf[t]][s] = a
          /\ \A x \in Pubs : x # PubOf[t] => net'[x][s] = net[x][s]
      BY <1>1, <1>2, <1>3, <1>6, <2>1, <2>2 DEF TypeSubs
    <2>4. Msgs(a) = Msgs(q) \cup {m} /\ (Increasing(q) /\ Earlier(Msgs(q), {m}) => Increasing(a))
      BY <2>2, AppendFacts
    <2>5. \A x : Dated(x) => (x.thread = t => x.n < m.n)
      BY <1>1, <1>3 DEF Dated
    <2>6. /\ \A x \in Pubs : \A l \in Msgs(net[x][s]) : Dated(l) /\ l.pub = x
          /\ \A l \in Msgs(queue[s]) \cup Given(s) : Dated(l)
      BY DEF SubInv, SubDated
    <2>7. /\ SubTaken(s) /\ Increasing(queue[s]) /\ Earlier(Given(s), Msgs(queue[s]))
          /\ \A x \in Pubs : /\ Increasing(net[x][s])
                             /\ Earlier(Given(s) \cup Msgs(queue[s]), Msgs(net[x][s]))
      BY DEF SubInv, SubOrder
    <2>8. Given(s)' = Given(s)
      BY <1>1 DEF Given
    <2>9. Earlier(Given(s) \cup Msgs(queue[s]) \cup Msgs(q), {m})
      BY <1>1, <1>3, <2>1, <2>5, <2>6 DEF Earlier
    <2>10. SubDated(s)'
      <3>1. \A x \in Pubs : \A l \in Msgs(net'[x][s]) : Dated(l)' /\ l.pub = x
        BY <1>1, <1>3, <1>4, <2>1, <2>3, <2>4, <2>6
      <3> QED
        BY <1>1, <1>4, <2>6, <2>8, <3>1 DEF SubDated
    <2>11. SubOrder(s)'
      <3>1. SubTaken(s)'
        BY <1>1, <2>7 DEF SubTaken
      <3>2. Increasing(a)
        <4>1. Increasing(q) /\ Earlier(Msgs(q), {m})
          BY <1>1, <2>1, <2>7, <2>9 DEF Earlier
        <4> QED
          BY <2>4, <4>1
      <3>3. Earlier(Given(s) \cup Msgs(queue[s]), Msgs(a))
        BY <1>1, <2>1, <2>4, <2>7, <2>9 DEF Earlier
      <3>4. \A x \in Pubs : /\ Increasing(net'[x][s])
                            /\ Earlier(Given(s) \cup Msgs(queue[s]), Msgs(net'[x][s]))
        BY <1>1, <2>3, <2>7, <3>2, <3>3
      <3> QED
        BY <1>1, <2>7, <2>8, <3>1, <3>4 DEF SubOrder
    <2>12. SubFresh(s)' /\ SubOnly(s)'
      BY <1>1, <1>6 DEF SubInv, SubFresh, SubOnly
    <2>13. \A x \in OnTheWay(s)' : x \in OnTheWay(s) \/ x = m
      BY <1>1, <2>1, <2>3, <2>4 DEF OnTheWay
    <2> QED
      BY <1>1, <1>3, <2>8, <2>10, <2>11, <2>12, <2>13 DEF SubInv, Held
  <1> QED
    BY <1>5, <1>6

\* What a step at one subscription says of the types and the others.
Elsewhere(r) ==
    /\ UNCHANGED <<sn, step, count>> /\ TypeSubs'
    /\ \A s \in Subs : s # r =>
          /\ \A p \in Pubs : net'[p][s] = net[p][s]
          /\ queue'[s] = queue[s] /\ arrived'[s] = arrived[s] /\ taken'[s] = taken[s]
          /\ kind'[s] = kind[s] /\ left'[s] = left[s] /\ (s \in live' <=> s \in live)

\* declare, undeclare and the start of rmw_take_sequence.
LEMMA ElsewhereControl ==
    ASSUME TypeSubs, NEW r \in Subs,
           declare(r) \/ undeclare(r) \/ \E k \in 1..2 : rmw_take_sequence(r, k)
    PROVE  Elsewhere(r)
  <1>1. CASE declare(r)
    BY <1>1 DEF declare, Elsewhere, TypeSubs
  <1>2. CASE undeclare(r)
    <2>1. \A p \in Pubs : net'[p] = [net[p] EXCEPT ![r] = <<>>] /\ net'[p] \in [Subs -> Seq(Message)]
      BY <1>2 DEF undeclare, TypeSubs
    <2>2. net' \in [Pubs -> [Subs -> Seq(Message)]]
      BY <1>2, <2>1 DEF undeclare
    <2>3. /\ live' \subseteq Subs /\ kind' \in [Subs -> Kinds] /\ left' \in [Subs -> Nat]
          /\ queue' \in [Subs -> Seq(Message)] /\ arrived' \in [Subs -> Seq(Message)]
          /\ taken' \in [Subs -> Seq(Taken)]
      BY <1>2 DEF undeclare, TypeSubs, Kinds
    <2>4. ASSUME NEW s \in Subs, s # r
          PROVE  /\ \A p \in Pubs : net'[p][s] = net[p][s]
                 /\ queue'[s] = queue[s] /\ arrived'[s] = arrived[s] /\ taken'[s] = taken[s]
                 /\ kind'[s] = kind[s] /\ left'[s] = left[s] /\ (s \in live' <=> s \in live)
      BY <1>2, <2>1, <2>4 DEF undeclare, TypeSubs
    <2> QED
      BY <1>2, <2>2, <2>3, <2>4 DEF undeclare, Elsewhere, TypeSubs
  <1>3. CASE \E k \in 1..2 : rmw_take_sequence(r, k)
    BY <1>3 DEF rmw_take_sequence, Elsewhere, TypeSubs
  <1> QED
    BY <1>1, <1>2, <1>3

\* Taking a sample touches no other subscription.
LEMMA ElsewhereTake ==
    ASSUME TypeSubs, NEW r \in Subs, NEW ok \in BOOLEAN, TakeOne(r, ok), left' \in [Subs -> Nat],
           \A s \in Subs : s # r => left'[s] = left[s]
    PROVE  Elsewhere(r)
  <1>1. /\ queue' = [queue EXCEPT ![r] = Tail(queue[r])]
        /\ taken' = [taken EXCEPT ![r] = Append(taken[r], Verdict(Head(queue[r]), ok))]
        /\ UNCHANGED <<sn, step, count, live, kind, net, arrived>> /\ queue[r] # <<>>
    BY DEF TakeOne
  <1>2. Head(queue[r]) \in Message /\ Tail(queue[r]) \in Seq(Message)
    BY <1>1, TailFacts DEF TypeSubs
  <1>3. Verdict(Head(queue[r]), ok) \in Taken
    BY <1>2 DEF Verdict, Taken
  <1>4. Append(taken[r], Verdict(Head(queue[r]), ok)) \in Seq(Taken)
    BY <1>3, GivenFacts DEF TypeSubs
  <1>5. queue' \in [Subs -> Seq(Message)] /\ taken' \in [Subs -> Seq(Taken)]
    BY <1>1, <1>2, <1>4 DEF TypeSubs
  <1>6. TypeSubs'
    BY <1>1, <1>5 DEF TypeSubs
  <1> QED
    BY <1>1, <1>6 DEF Elsewhere, TypeSubs

\* Nor does handling one.
LEMMA ElsewhereHandle ==
    ASSUME TypeSubs, NEW r \in Subs, NEW p \in Pubs, handle(p, r)
    PROVE  Elsewhere(r)
  <1>1. /\ net[p][r] # <<>> /\ net[p][r] \in Seq(Message)
        /\ net' = [net EXCEPT ![p][r] = Tail(net[p][r])]
        /\ UNCHANGED <<sn, step, count, live, kind, left>>
    BY DEF handle, TypeSubs
  <1>2. PICK h \in Message : h = Head(net[p][r])
    BY <1>1, TailFacts
  <1>3. Tail(net[p][r]) \in Seq(Message)
    BY <1>1, TailFacts
  <1>4. net' \in [Pubs -> [Subs -> Seq(Message)]]
    BY <1>1, <1>3 DEF TypeSubs
  <1>5. \A s \in Subs : s # r => \A x \in Pubs : net'[x][s] = net[x][s]
    BY <1>1 DEF TypeSubs
  <1>6. CASE kind[r] = "callback"
    <2>1. queue' = queue /\ arrived' = arrived
      BY <1>6 DEF handle
    <2>2. PICK new : new = (IF Called(h) = {} THEN taken[r]
                            ELSE Append(taken[r], CHOOSE v \in Called(h) : TRUE))
      OBVIOUS
    <2>3. taken' = [taken EXCEPT ![r] = new]
      BY <1>2, <1>6, <2>2 DEF handle
    <2>4. new \in Seq(Taken)
      <3>1. CASE Called(h) = {}
        BY <2>2, <3>1 DEF TypeSubs
      <3>2. CASE Called(h) # {}
        <4>1. Called(h) \subseteq Taken
          <5>1. Verdict(h, TRUE) \in Taken
            BY DEF Verdict, Taken
          <5> QED
            BY <5>1 DEF Called
        <4>2. (CHOOSE v \in Called(h) : TRUE) \in Taken
          BY <3>2, <4>1
        <4>3. Append(taken[r], CHOOSE v \in Called(h) : TRUE) \in Seq(Taken)
          BY <4>2, GivenFacts DEF TypeSubs
        <4> QED
          BY <2>2, <3>2, <4>3
      <3> QED
        BY <3>1, <3>2
    <2>5. taken' \in [Subs -> Seq(Taken)] /\ \A s \in Subs : s # r => taken'[s] = taken[s]
      BY <2>3, <2>4 DEF TypeSubs
    <2> QED
      BY <1>1, <1>4, <1>5, <2>1, <2>5 DEF Elsewhere, TypeSubs
  <1>7. CASE kind[r] # "callback"
    <2>1. /\ queue' = [queue EXCEPT ![r] = Pushed(queue[r], h, Depth[r])]
          /\ arrived' = [arrived EXCEPT ![r] = Append(arrived[r], h)] /\ taken' = taken
      BY <1>2, <1>7 DEF handle
    <2>2. Append(arrived[r], h) \in Seq(Message)
      BY AppendFacts DEF TypeSubs
    <2>3. Pushed(queue[r], h, Depth[r]) \in Seq(Message)
      <3>1. CASE Len(queue[r]) >= Depth[r]
        <4>1. queue[r] \in Seq(Message) /\ Depth[r] \in Nat \ {0}
          BY DEF TypeSubs
        <4>2. queue[r] # <<>>
          BY <3>1, <4>1
        <4>3. Append(Tail(queue[r]), h) \in Seq(Message)
          BY <4>1, <4>2, TailFacts, AppendFacts
        <4> QED
          BY <3>1, <4>3 DEF Pushed
      <3>2. CASE ~(Len(queue[r]) >= Depth[r])
        BY <3>2, AppendFacts DEF Pushed, TypeSubs
      <3> QED
        BY <3>1, <3>2
    <2>4. /\ queue' \in [Subs -> Seq(Message)] /\ arrived' \in [Subs -> Seq(Message)]
          /\ \A s \in Subs : s # r => queue'[s] = queue[s] /\ arrived'[s] = arrived[s]
      BY <2>1, <2>2, <2>3 DEF TypeSubs
    <2> QED
      BY <1>1, <1>4, <1>5, <2>1, <2>4 DEF Elsewhere, TypeSubs
  <1> QED
    BY <1>6, <1>7

\* Every step of a subscription keeps the invariant of that subscription, and
\* adds no sample to those there are.
StepOf(r) ==
    \/ declare(r) \/ undeclare(r) \/ take(r) \/ TakeNext(r) \/ recv(r) \/ recv_dynamic(r)
    \/ \E k \in 1..2 : rmw_take_sequence(r, k)
    \/ \E p \in Pubs : handle(p, r)

\* A subscription's own steps keep its part of the invariant and hold nothing new.
LEMMA SubStep ==
    ASSUME TypeThreads, TypeSubs, InHand, NEW r \in Subs, SubInv(r), StepOf(r)
    PROVE  Elsewhere(r) /\ SubInv(r)' /\ Held(r)' \subseteq Held(r)
  <1>0. ASSUME UNCHANGED <<sn, step, count>>
        PROVE  \A m : Dated(m) => Dated(m)'
    BY <1>0, ThreadsSame
  <1>1. CASE declare(r)
    <2>1. /\ r \notin live /\ UNCHANGED <<sn, step, count, net, queue, arrived, taken, left>>
      BY <1>1 DEF declare
    <2>2. /\ queue[r] = <<>> /\ taken[r] = <<>> /\ left[r] = 0
          /\ \A p \in Pubs : net[p][r] = <<>>
      BY <2>1 DEF SubInv, SubFresh, TypeSubs
    <2>3. Suffix(queue[r], arrived[r])'
      BY <2>1 DEF SubInv
    <2>4. SubInv(r)' /\ Held(r)' = {}
      BY <2>1, <2>2, <2>3, Nothing
    <2> QED
      BY <1>1, <2>4, ElsewhereControl
  <1>2. CASE undeclare(r)
    <2>1. /\ queue'[r] = <<>> /\ arrived'[r] = <<>> /\ taken'[r] = <<>> /\ left'[r] = 0
          /\ \A p \in Pubs : net'[p][r] = <<>>
      BY <1>2 DEF undeclare, TypeSubs
    <2>2. Suffix(<<>>, <<>>)
      BY DEF Suffix
    <2>3. SubInv(r)' /\ Held(r)' = {}
      BY <2>1, <2>2, Nothing
    <2> QED
      BY <1>2, <2>3, ElsewhereControl
  <1>3. ASSUME NEW ok \in BOOLEAN, TakeOne(r, ok), left' \in [Subs -> Nat], left'[r] <= left[r],
               \A s \in Subs : s # r => left'[s] = left[s],
               ok /\ kind[r] # "rmw" => Head(queue[r]).body = "good"
        PROVE  Elsewhere(r) /\ SubInv(r)' /\ Held(r)' \subseteq Held(r)
    <2>1. \A m : Dated(m) => Dated(m)'
      BY <1>0, <1>3 DEF TakeOne
    <2> QED
      BY <1>3, <2>1, ElsewhereTake, SubTakes
  <1>4. CASE take(r)
    <2>1. TakeOne(r, TRUE) /\ left' = left /\ kind[r] = "rmw"
      BY <1>4 DEF take
    <2>2. left' \in [Subs -> Nat] /\ left'[r] <= left[r] /\ \A s \in Subs : s # r => left'[s] = left[s]
      BY <2>1 DEF TypeSubs
    <2> QED
      BY <1>3, <2>1, <2>2
  <1>5. CASE TakeNext(r) /\ queue[r] # <<>>
    <2>1. /\ TakeOne(r, TRUE) /\ left[r] > 0 /\ left' = [left EXCEPT ![r] = @ - 1]
      BY <1>5 DEF TakeNext
    <2>2. kind[r] = "rmw"
      BY <2>1 DEF SubInv, SubFresh
    <2>3. left' \in [Subs -> Nat] /\ left'[r] <= left[r] /\ \A s \in Subs : s # r => left'[s] = left[s]
      BY <2>1 DEF TypeSubs
    <2> QED
      BY <1>3, <2>1, <2>2, <2>3
  <1>6. CASE TakeNext(r) /\ queue[r] = <<>>
    <2>1. /\ left' = [left EXCEPT ![r] = 0]
          /\ UNCHANGED <<sn, step, count, live, kind, net, queue, arrived, taken>>
      BY <1>6 DEF TakeNext
    <2>2. left' \in [Subs -> Nat] /\ left'[r] = 0 /\ \A s \in Subs : s # r => left'[s] = left[s]
      BY <2>1 DEF TypeSubs
    <2>3. Elsewhere(r)
      BY <2>1, <2>2 DEF Elsewhere, TypeSubs
    <2>4. Given(r)' = Given(r) /\ OnTheWay(r)' = OnTheWay(r)
      BY <2>1 DEF Given, OnTheWay
    <2>5. SubDated(r)'
      BY <1>0, <2>1, <2>4 DEF SubInv, SubDated
    <2>6. SubOrder(r)'
      BY <2>1, <2>4 DEF SubInv, SubOrder, SubTaken
    <2>7. SubFresh(r)' /\ SubOnly(r)'
      BY <2>1, <2>2 DEF SubInv, SubFresh, SubOnly
    <2> QED
      BY <2>1, <2>3, <2>4, <2>5, <2>6, <2>7 DEF SubInv, Held
  <1>7. CASE recv(r) \/ recv_dynamic(r)
    <2>1. PICK ok \in BOOLEAN : ok = Deserializes(Head(queue[r]))
      BY DEF Deserializes
    <2>2. TakeOne(r, ok) /\ left' = left
      BY <1>7, <2>1 DEF recv, recv_dynamic
    <2>3. ok => Head(queue[r]).body = "good"
      BY <2>1 DEF Deserializes
    <2>4. left' \in [Subs -> Nat] /\ left'[r] <= left[r] /\ \A s \in Subs : s # r => left'[s] = left[s]
      BY <2>2 DEF TypeSubs
    <2> QED
      BY <1>3, <2>2, <2>3, <2>4
  <1>8. CASE \E k \in 1..2 : rmw_take_sequence(r, k)
    <2>1. /\ r \in live /\ kind[r] = "rmw"
          /\ UNCHANGED <<sn, step, count, live, kind, net, queue, arrived, taken>>
      BY <1>8 DEF rmw_take_sequence
    <2>2. Given(r)' = Given(r) /\ OnTheWay(r)' = OnTheWay(r)
      BY <2>1 DEF Given, OnTheWay
    <2>3. SubDated(r)'
      BY <1>0, <2>1, <2>2 DEF SubInv, SubDated
    <2>4. SubOrder(r)'
      BY <2>1, <2>2 DEF SubInv, SubOrder, SubTaken
    <2>5. SubFresh(r)' /\ SubOnly(r)'
      BY <2>1 DEF SubInv, SubFresh, SubOnly
    <2>6. Elsewhere(r)
      BY <1>8, ElsewhereControl
    <2> QED
      BY <2>1, <2>2, <2>3, <2>4, <2>5, <2>6 DEF SubInv, Held
  <1>9. ASSUME NEW p \in Pubs, handle(p, r)
        PROVE  Elsewhere(r) /\ SubInv(r)' /\ Held(r)' \subseteq Held(r)
    <2>1. \A m : Dated(m) => Dated(m)'
      BY <1>0, <1>9 DEF handle
    <2> QED
      BY <1>9, <2>1, ElsewhereHandle, SubHandles
  <1> QED
    BY <1>1, <1>2, <1>4, <1>5, <1>6, <1>7, <1>8, <1>9 DEF StepOf

-----------------------------------------------------------------------------
(* The stamps                                                              *)

Stamped == {step[t].msg : t \in {u \in Threads : step[u].at = "stamped"}}

\* All is what the subscriptions have and what is stamped.
LEMMA AllParts ==
    /\ \A x : x \in All <=> x \in Stamped \/ \E s \in Subs : x \in Held(s)
    /\ \A x : x \in All' <=> x \in Stamped' \/ \E s \in Subs : x \in Held(s)'
  <1>1. All = (UNION {Held(s) : s \in Subs}) \cup Stamped
    BY DEF All, Held, Stamped
  <1>2. All' = (UNION {Held(s)' : s \in Subs}) \cup Stamped'
    BY DEF All, Held, Stamped
  <1>3. \A x : x \in All <=> x \in Stamped \/ \E s \in Subs : x \in Held(s)
    BY <1>1
  <1>4. \A x : x \in All' <=> x \in Stamped' \/ \E s \in Subs : x \in Held(s)'
    BY <1>2, Zenon
  <1> QED
    BY <1>3, <1>4

\* Fewer samples are as unique.
LEMMA NoNewSample ==
    ASSUME StampsUnique, All' \subseteq All
    PROVE  StampsUnique'
  BY DEF StampsUnique

\* The numbers of all the samples are behind those of the counters.
LEMMA AllDated ==
    ASSUME TypeThreads, InHand, \A s \in Subs : SubInv(s), NEW m \in All
    PROVE  /\ m \in Message /\ m.thread \in Threads /\ m.pub \in Pubs
           /\ m.pub \in Attached => m.sn < sn[m.pub]
           /\ m.n <= count[m.thread]
           /\ step[m.thread].at = "serialized" => m.n < count[m.thread]
  <1>1. CASE m \in Stamped
    <2>1. PICK t \in Threads : step[t].at = "stamped" /\ m = step[t].msg
      BY <1>1 DEF Stamped
    <2>2. Busy(t) /\ m \in Message
      BY <2>1, BusyStep DEF Busy
    <2>3. m.thread = t /\ m.pub = PubOf[t] /\ m.n = count[t]
          /\ (PubOf[t] \in Attached => m.sn < sn[PubOf[t]])
      BY <2>1, <2>2 DEF InHand
    <2>4. m.pub \in Pubs /\ m.n <= count[m.thread]
      BY <2>2, <2>3 DEF Message, TypeThreads
    <2> QED
      BY <2>1, <2>2, <2>3, <2>4
  <1>2. CASE m \notin Stamped
    <2>1. PICK s \in Subs : m \in Held(s)
      BY <1>2, AllParts
    <2>2. Dated(m)
      <3>1. SubDated(s)
        BY DEF SubInv
      <3> QED
        BY <2>1, <3>1 DEF SubDated, Held, OnTheWay
    <2> QED
      BY <2>2 DEF Dated, Busy, Message
  <1> QED
    BY <1>1, <1>2

\* A new stamp is larger than every other, and its sample later than those of
\* its thread.
LEMMA NewStamp ==
    ASSUME TypeThreads, InHand, \A s \in Subs : SubInv(s), StampsUnique, NEW t \in Threads,
           new_attachment(t)
    PROVE  StampsUnique'
  <1>1. /\ step[t].at = "serialized" /\ PubOf[t] \in Pubs
        /\ UNCHANGED <<net, queue, taken>>
    BY StampEffect
  <1>2. PICK new \in InWork :
                 /\ step' = [step EXCEPT ![t] = new] /\ new.at = "stamped"
                 /\ new.msg.thread = t /\ new.msg.pub = PubOf[t] /\ new.msg.n = count[t]
                 /\ PubOf[t] \in Attached => new.msg.sn = sn[PubOf[t]] /\ sn'[PubOf[t]] = sn[PubOf[t]] + 1
    BY StampEffect
  <1>3. \A s \in Subs : Held(s)' = Held(s)
    BY <1>1 DEF Held, OnTheWay, Given
  <1>4. step'[t] = new /\ \A u \in Threads : u # t => step'[u] = step[u]
    BY <1>2 DEF TypeThreads
  <1>5. \A x \in Stamped' : x \in Stamped \/ x = new.msg
    BY <1>4 DEF Stamped
  <1>6. \A x \in All' : x \in All \/ x = new.msg
    BY <1>3, <1>5, AllParts
  <1>7. ASSUME NEW l \in All, l.pub = new.msg.pub, l.pub \in Attached
        PROVE  /\ l.sn < new.msg.sn /\ l.sn # new.msg.sn /\ ~(new.msg.sn < l.sn)
               /\ ~(l.thread = new.msg.thread /\ new.msg.n < l.n)
    <2>1. /\ l \in Message /\ l.thread \in Threads /\ l.sn < sn[l.pub] /\ l.n <= count[l.thread]
      BY <1>7, AllDated
    <2>2. l.sn \in Int /\ l.n \in Nat /\ new.msg.sn = sn[PubOf[t]] /\ sn[PubOf[t]] \in Nat /\ count[t] \in Nat
      BY <1>1, <1>2, <1>7, <2>1 DEF Message, TypeThreads
    <2> QED
      BY <1>2, <1>7, <2>1, <2>2
  <1>8. SUFFICES ASSUME NEW m \in All', NEW l \in All', m.pub = l.pub, m.pub \in Attached
                 PROVE  /\ m.sn = l.sn => m = l
                        /\ m.thread = l.thread /\ m.n < l.n => m.sn < l.sn
    BY DEF StampsUnique
  <1>9. CASE m \in All /\ l \in All
    BY <1>8, <1>9 DEF StampsUnique
  <1>10. CASE m = new.msg /\ l \in All
    BY <1>7, <1>8, <1>10
  <1>11. CASE m \in All /\ l = new.msg
    BY <1>7, <1>8, <1>11
  <1>12. CASE m = new.msg /\ l = new.msg
    <2>1. ~(m.n < l.n)
      BY <1>2, <1>12 DEF TypeThreads
    <2> QED
      BY <1>12, <2>1
  <1> QED
    BY <1>6, <1>9, <1>10, <1>11, <1>12

-----------------------------------------------------------------------------
(* The invariant                                                           *)

\* The invariant holds initially.
LEMMA PubSubInit == Init => IInv
  <1> SUFFICES ASSUME Init PROVE IInv
    OBVIOUS
  <1>1. TypeThreads
    BY DEF Init, TypeThreads
  <1>2. TypeSubs
    BY DEF Init, TypeSubs, Kinds
  <1>3. \A t \in Threads : step[t] = Idle /\ ~Busy(t) /\ step[t].at # "stamped"
    BY DEF Init, Busy, Idle
  <1>4. InHand
    BY <1>3 DEF InHand
  <1>5. ASSUME NEW s \in Subs
        PROVE  SubInv(s) /\ Held(s) = {}
    <2>1. /\ queue[s] = <<>> /\ arrived[s] = <<>> /\ taken[s] = <<>> /\ left[s] = 0
          /\ \A p \in Pubs : net[p][s] = <<>>
      BY DEF Init
    <2>2. Given(s) = {} /\ Msgs(<<>>) = {}
      BY <2>1 DEF Given, Msgs
    <2>3. OnTheWay(s) = {}
      BY <2>1, <2>2 DEF OnTheWay
    <2>4. SubDated(s)
      BY <2>1, <2>2 DEF SubDated
    <2>5. SubOrder(s)
      BY <2>1, <2>2 DEF SubOrder, SubTaken, Earlier, Increasing
    <2>6. SubFresh(s) /\ SubOnly(s)
      BY <2>1 DEF SubFresh, SubOnly
    <2>7. Len(queue[s]) <= Depth[s] /\ Suffix(queue[s], arrived[s])
      BY <2>1, Depth[s] \in Nat DEF Suffix
    <2> QED
      BY <2>1, <2>2, <2>3, <2>4, <2>5, <2>6, <2>7 DEF SubInv, Held
  <1>6. StampsUnique
    <2>1. Stamped = {}
      BY <1>3 DEF Stamped
    <2>2. \A x : x \notin All
      BY <1>5, <2>1, AllParts
    <2> QED
      BY <2>2 DEF StampsUnique
  <1> QED
    BY <1>1, <1>2, <1>4, <1>5, <1>6 DEF IInv

\* A step of a subscription.
LEMMA SubKeeps ==
    ASSUME IInv, NEW r \in Subs, StepOf(r)
    PROVE  IInv'
  <1>1. TypeThreads /\ TypeSubs /\ InHand /\ (\A s \in Subs : SubInv(s)) /\ StampsUnique
    BY DEF IInv
  <1>2. Elsewhere(r) /\ SubInv(r)' /\ Held(r)' \subseteq Held(r)
    BY <1>1, SubStep
  <1>3. TypeThreads' /\ InHand' /\ \A m : Dated(m) => Dated(m)'
    BY <1>1, <1>2, ThreadsSame DEF Elsewhere
  <1>4. ASSUME NEW s \in Subs
        PROVE  SubInv(s)' /\ Held(s)' \subseteq Held(s)
    <2>1. CASE s = r
      BY <1>2, <2>1
    <2>2. CASE s # r
      <3>1. /\ \A p \in Pubs : net'[p][s] = net[p][s]
            /\ queue'[s] = queue[s] /\ arrived'[s] = arrived[s] /\ taken'[s] = taken[s]
            /\ kind'[s] = kind[s] /\ left'[s] = left[s] /\ (s \in live' <=> s \in live)
        BY <1>2, <2>2 DEF Elsewhere
      <3> QED
        BY <1>1, <1>3, <3>1, Untouched
    <2> QED
      BY <2>1, <2>2
  <1>5. Stamped' = Stamped
    BY <1>2 DEF Elsewhere, Stamped
  <1>6. All' \subseteq All
    BY <1>4, <1>5, AllParts
  <1>7. StampsUnique'
    BY <1>1, <1>6, NoNewSample
  <1> QED
    BY <1>2, <1>3, <1>4, <1>7 DEF IInv, Elsewhere

\* A step of a thread that puts nothing.
LEMMA ThreadKeeps ==
    ASSUME IInv, NEW t \in Threads, publish(t) \/ publish_serialized(t) \/ new_attachment(t)
    PROVE  IInv'
  <1>1. TypeThreads /\ TypeSubs /\ InHand /\ (\A s \in Subs : SubInv(s)) /\ StampsUnique
    BY DEF IInv
  <1>2. UNCHANGED <<live, kind, net, queue, arrived, taken, left>>
    BY DEF publish, publish_serialized, new_attachment
  <1>3. TypeThreads' /\ InHand' /\ \A m : Dated(m) => Dated(m)'
    BY <1>1, ThreadsBegin, ThreadsStamp
  <1>4. TypeSubs'
    BY <1>1, <1>2 DEF TypeSubs
  <1>5. \A s \in Subs : SubInv(s)' /\ Held(s)' = Held(s)
    BY <1>1, <1>2, <1>3, Untouched
  <1>6. StampsUnique'
    <2>1. CASE new_attachment(t)
      BY <1>1, <2>1, NewStamp
    <2>2. CASE publish(t) \/ publish_serialized(t)
      <3>1. PICK new \in {Panicked} \cup InWork :
                 /\ step' = [step EXCEPT ![t] = new]
                 /\ new # Panicked => new.at = "serialized"
        BY <1>1, <2>2, BeginEffect
      <3>2. new.at # "stamped"
        BY <3>1 DEF Panicked
      <3>3. step'[t] = new /\ \A u \in Threads : u # t => step'[u] = step[u]
        BY <1>1, <3>1 DEF TypeThreads
      <3>4. \A x \in Stamped' : x \in Stamped
        BY <3>2, <3>3 DEF Stamped
      <3>5. All' \subseteq All
        BY <1>5, <3>4, AllParts
      <3> QED
        BY <1>1, <3>5, NoNewSample
    <2> QED
      BY <2>1, <2>2
  <1> QED
    BY <1>3, <1>4, <1>5, <1>6 DEF IInv

\* A put keeps the invariant: it alone hands one message to many subscriptions.
LEMMA PutKeeps ==
    ASSUME IInv, NEW t \in Threads, put(t)
    PROVE  IInv'
  <1>1. TypeThreads /\ TypeSubs /\ InHand /\ (\A s \in Subs : SubInv(s)) /\ StampsUnique
    BY DEF IInv
  <1>2. /\ step[t].at = "stamped" /\ PubOf[t] \in Pubs /\ step[t].msg \in Message
        /\ step' = [step EXCEPT ![t] = Idle]
        /\ UNCHANGED <<live, kind, queue, arrived, taken, left>>
    BY <1>1, PutEffect
  <1>3. TypeThreads' /\ InHand'
    BY <1>1, ThreadsPut
  <1>4. TypeSubs'
    <2>1. PICK to \in SUBSET live :
                 net' = [net EXCEPT ![PubOf[t]] =
                           [r \in Subs |-> IF r \in to THEN Append(net[PubOf[t]][r], step[t].msg)
                                           ELSE net[PubOf[t]][r]]]
      BY <1>1, PutEffect
    <2>2. \A r \in Subs : /\ net[PubOf[t]][r] \in Seq(Message)
                          /\ Append(net[PubOf[t]][r], step[t].msg) \in Seq(Message)
      BY <1>1, <1>2, AppendFacts DEF TypeSubs
    <2>3. [r \in Subs |-> IF r \in to THEN Append(net[PubOf[t]][r], step[t].msg)
                          ELSE net[PubOf[t]][r]] \in [Subs -> Seq(Message)]
      BY <2>2
    <2>4. net' \in [Pubs -> [Subs -> Seq(Message)]]
      BY <1>1, <1>2, <2>1, <2>3 DEF TypeSubs
    <2> QED
      BY <1>1, <1>2, <2>4 DEF TypeSubs
  <1>5. \A s \in Subs : SubInv(s)' /\ \A x \in Held(s)' : x \in Held(s) \/ x = step[t].msg
    BY <1>1, SubSent
  <1>6. step[t].msg \in Stamped
    BY <1>2 DEF Stamped
  <1>7. \A x \in Stamped' : x \in Stamped
    <2>1. step'[t].at # "stamped" /\ \A u \in Threads : u # t => step'[u] = step[u]
      BY <1>1, <1>2 DEF TypeThreads, Idle
    <2> QED
      BY <2>1 DEF Stamped
  <1>8. All' \subseteq All
    BY <1>5, <1>6, <1>7, AllParts
  <1>9. StampsUnique'
    BY <1>1, <1>8, NoNewSample
  <1> QED
    BY <1>3, <1>4, <1>5, <1>9 DEF IInv

\* So does every step.
LEMMA PubSubStep == IInv /\ [Next]_vars => IInv'
  <1> SUFFICES ASSUME IInv, [Next]_vars PROVE IInv'
    OBVIOUS
  <1>1. CASE \E t \in Threads : publish(t) \/ publish_serialized(t) \/ new_attachment(t)
    BY <1>1, ThreadKeeps
  <1>2. CASE \E t \in Threads : put(t)
    BY <1>2, PutKeeps
  <1>3. CASE \E r \in Subs : StepOf(r)
    BY <1>3, SubKeeps
  <1>4. CASE UNCHANGED vars
    <2>1. TypeThreads /\ TypeSubs /\ InHand /\ (\A s \in Subs : SubInv(s)) /\ StampsUnique
      BY DEF IInv
    <2>2. TypeThreads' /\ InHand' /\ \A m : Dated(m) => Dated(m)'
      BY <1>4, <2>1, ThreadsSame DEF vars
    <2>3. TypeSubs'
      BY <1>4, <2>1 DEF TypeSubs, vars
    <2>4. \A s \in Subs : SubInv(s)' /\ Held(s)' = Held(s)
      BY <1>4, <2>1, <2>2, Untouched DEF vars
    <2>5. Stamped' = Stamped
      BY <1>4 DEF Stamped, vars
    <2>6. All' \subseteq All
      BY <2>4, <2>5, AllParts
    <2>7. StampsUnique'
      BY <2>1, <2>6, NoNewSample
    <2> QED
      BY <2>2, <2>3, <2>4, <2>7 DEF IInv
  <1> QED
    BY <1>1, <1>2, <1>3, <1>4 DEF Next, StepOf

\* What is on its way, queued and taken was numbered, ordered and kept as the
\* handlers of common.rs and the publishers of pubsub.rs do: in every state.
THEOREM PubSubInvariant == Spec => []IInv
  BY PubSubInit, PubSubStep, PTL DEF Spec

\* The sequence numbers of new_attachment: whatever threads share a publisher,
\* no two of its samples have the same, and a thread's later sample has the
\* larger one.
THEOREM StampsUniqueCorrect == Spec => []StampsUnique
  <1>1. IInv => StampsUnique
    BY DEF IInv
  <1> QED
    BY <1>1, PubSubInvariant, PTL

-----------------------------------------------------------------------------
(* What a subscription reads                                               *)

\* An end of what arrived is a SubSeq of it.
LEMMA SuffixIsSubSeq ==
    ASSUME NEW q \in Seq(Message), NEW a \in Seq(Message), Suffix(q, a)
    PROVE  \E k \in 0..Len(a) : q = SubSeq(a, k + 1, Len(a))
  <1>1. PICK k \in 0..Len(a) : Len(q) = Len(a) - k /\ \A i \in 1..Len(q) : q[i] = a[i + k]
    BY DEF Suffix
  <1>2. Len(a) \in Nat /\ Len(q) \in Nat /\ k + 1 \in 1..(Len(a) + 1)
    BY <1>1
  <1>3. /\ SubSeq(a, k + 1, Len(a)) \in Seq(Message)
        /\ Len(SubSeq(a, k + 1, Len(a))) = IF k + 1 <= Len(a) THEN Len(a) - (k + 1) + 1 ELSE 0
        /\ \A i \in 1..(Len(a) - (k + 1) + 1) : SubSeq(a, k + 1, Len(a))[i] = a[(k + 1) + i - 1]
    BY <1>2, SubSeqProperties
  <1>4. PICK b \in Seq(Message) : b = SubSeq(a, k + 1, Len(a))
    BY <1>3
  <1>5. Len(b) = Len(q)
    BY <1>1, <1>2, <1>3, <1>4
  <1>6. \A i \in 1..Len(q) : i \in 1..(Len(a) - (k + 1) + 1) /\ (k + 1) + i - 1 = i + k
    BY <1>1, <1>2
  <1>7. \A i \in 1..Len(q) : q[i] = b[i]
    BY <1>1, <1>3, <1>4, <1>6
  <1>8. q = b
    BY <1>5, <1>7, SeqEqual
  <1> QED
    BY <1>1, <1>4, <1>8

\* What is read is what was published: every message is one, each at most
\* once and in its thread's order, the newest are kept, and nothing but a
\* message is presented as one.
THEOREM ReadsFaithfulCorrect == Spec => []ReadsFaithful
  <1>1. ASSUME IInv PROVE ReadsFaithful
    <2>1. TypeThreads /\ TypeSubs /\ InHand /\ (\A s \in Subs : SubInv(s))
      BY <1>1 DEF IInv
    <2>2. TypeOK
      <3>1. ASSUME NEW t \in Threads
            PROVE  \/ step[t] \in {Idle, [at |-> "panicked"]}
                   \/ step[t].at \in {"serialized", "stamped"} /\ step[t].msg \in Message
        BY <2>1 DEF TypeThreads, InWork, Panicked
      <3>2. ASSUME NEW s \in Subs
            PROVE  /\ Len(queue[s]) <= Depth[s] /\ left[s] \in Nat
                   /\ kind[s] = "callback" => queue[s] = <<>>
                   /\ \A i \in DOMAIN queue[s] : queue[s][i] \in Message
        <4>1. queue[s] \in Seq(Message) /\ left[s] \in Nat
          BY <2>1 DEF TypeSubs
        <4>2. \A i \in DOMAIN queue[s] : queue[s][i] \in Message
          BY <4>1
        <4> QED
          BY <2>1, <4>1, <4>2 DEF SubInv
      <3> QED
        BY <2>1, <3>1, <3>2 DEF TypeOK, TypeThreads, TypeSubs
    <2>3. OnceInOrder
      BY <2>1 DEF OnceInOrder, SubInv, SubOrder, SubTaken
    <2>4. KeepsNewest
      BY <2>1, SuffixIsSubSeq DEF KeepsNewest, SubInv, TypeSubs
    <2>5. OnlyMessages
      BY <2>1 DEF OnlyMessages, SubInv, SubOnly
    <2> QED
      BY <2>2, <2>3, <2>4, <2>5 DEF ReadsFaithful
  <1>2. IInv => ReadsFaithful
    BY <1>1
  <1> QED
    BY <1>2, PubSubInvariant, PTL

=============================================================================
