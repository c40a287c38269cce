------------------------------- MODULE LinkProofs -------------------------------
(***************************************************************************)
(* Link's type invariant, and that every client gets frames in the order   *)
(* they were sent: Link implements Feed.  Both hold for any clients,       *)
(* proxies, capacities and caps, and for any bound on the frames.          *)
(***************************************************************************)
EXTENDS Link, TLAPS

-----------------------------------------------------------------------------
(* Queues.                                                                  *)

Increasing(q) == \A i, j \in 1..Len(q) : i < j => q[i] < q[j]

Above(m, q) == \A i \in 1..Len(q) : m < q[i]

\* Every frame is newer than none.
LEMMA AboveNone ==
  ASSUME NEW m \in Nat, NEW q \in Seq(1..m)
  PROVE  Above(0, q)
<1>1. \A i \in 1..Len(q) : q[i] \in 1..m
  OBVIOUS
<1>2. QED
  BY <1>1 DEF Above

\* Frames up to m are also frames up to m + 1.
LEMMA WidenSeq ==
  ASSUME NEW m \in Nat, NEW q \in Seq(1..m)
  PROVE  q \in Seq(1..(m + 1))
<1>1. 1..m \subseteq 1..(m + 1)
  OBVIOUS
<1>2. QED
  BY <1>1

\* Putting the next frame into a queue leaves one of frames, within its capacity.
LEMMA PutType ==
  ASSUME n \in Nat, Capacity \in Nat,
         NEW q \in Seq(1..n), Len(q) <= Capacity
  PROVE  Put(q) \in Seq(1..(n + 1)) /\ Len(Put(q)) <= Capacity
<1>1. q \in Seq(1..(n + 1)) /\ n + 1 \in 1..(n + 1) /\ Len(q) \in Nat
  BY WidenSeq
<1>2. Append(q, n + 1) \in Seq(1..(n + 1)) /\ Len(Append(q, n + 1)) = Len(q) + 1
  BY <1>1
<1>3. CASE Len(q) < Capacity
  <2>1. Put(q) = Append(q, n + 1)
    BY <1>3 DEF Put
  <2>2. QED
    BY <1>1, <1>2, <1>3, <2>1
<1>4. CASE Len(q) >= Capacity
  BY <1>1, <1>4 DEF Put
<1>5. QED
  BY <1>1, <1>3, <1>4

\* Taking the first leaves a shorter queue of frames.
LEMMA TailType ==
  ASSUME NEW m \in Nat, NEW q \in Seq(1..m), q # <<>>
  PROVE  /\ Head(q) = q[1] /\ Head(q) \in 1..m
         /\ Tail(q) \in Seq(1..m)
         /\ Len(q) \in Nat \ {0} /\ Len(Tail(q)) = Len(q) - 1
         /\ \A i \in 1..Len(Tail(q)) : Tail(q)[i] = q[i + 1]
  OBVIOUS

\* A queue of increasing frames stays one when a newer frame is put into it.
LEMMA PutKeeps ==
  ASSUME n \in Nat, Capacity \in Nat,
         NEW q \in Seq(1..n), Increasing(q), Len(q) <= Capacity
  PROVE  /\ Increasing(Put(q))
         /\ \A m \in 0..n : Above(m, q) => Above(m, Put(q))
<1>0. q \in Seq(1..(n + 1))
  BY WidenSeq
<1>1. CASE Len(q) >= Capacity
  BY <1>0, <1>1 DEF Put
<1>2. CASE Len(q) < Capacity
  <2>1. Put(q) = Append(q, n + 1)
    BY <1>2 DEF Put
  <2>2. /\ Append(q, n + 1) \in Seq(1..(n + 1))
        /\ Len(Append(q, n + 1)) = Len(q) + 1
        /\ \A i \in 1..Len(q) : Append(q, n + 1)[i] = q[i]
        /\ Append(q, n + 1)[Len(q) + 1] = n + 1
    BY <1>0
  <2>3. Len(q) \in Nat /\ \A i \in 1..Len(q) : q[i] \in 1..n
    OBVIOUS
  <2>4. Increasing(Append(q, n + 1))
    <3>1. SUFFICES ASSUME NEW i \in 1..(Len(q) + 1), NEW j \in 1..(Len(q) + 1), i < j
                   PROVE  Append(q, n + 1)[i] < Append(q, n + 1)[j]
      BY <2>2 DEF Increasing
    <3>2. i \in 1..Len(q)
      BY <3>1, <2>3
    <3>3. CASE j \in 1..Len(q)
      BY <2>2, <3>1, <3>2, <3>3 DEF Increasing
    <3>4. CASE j = Len(q) + 1
      BY <2>2, <2>3, <3>2, <3>4
    <3>5. QED
      BY <2>3, <3>3, <3>4
  <2>5. \A m \in 0..n : Above(m, q) => Above(m, Append(q, n + 1))
    <3>1. SUFFICES ASSUME NEW m \in 0..n, Above(m, q), NEW i \in 1..(Len(q) + 1)
                   PROVE  m < Append(q, n + 1)[i]
      BY <2>2 DEF Above
    <3>2. CASE i \in 1..Len(q)
      BY <2>2, <3>1, <3>2 DEF Above
    <3>3. CASE i = Len(q) + 1
      BY <2>2, <3>3
    <3>4. QED
      BY <2>3, <3>2, <3>3
  <2>6. QED
    BY <1>2, <2>1, <2>2, <2>3, <2>4, <2>5
<1>3. QED
  BY <1>1, <1>2

\* Taking the first of a queue of increasing frames leaves one of later frames.
LEMMA TailKeeps ==
  ASSUME n \in Nat, NEW q \in Seq(1..n), Increasing(q), q # <<>>
  PROVE  /\ Increasing(Tail(q))
         /\ Above(Head(q), Tail(q))
         /\ \A m \in Nat : Above(m, q) => m < Head(q) /\ Above(m, Tail(q))
<1>1. /\ Head(q) = q[1] /\ q[1] \in 1..n
      /\ Len(q) \in Nat \ {0} /\ Len(Tail(q)) = Len(q) - 1
      /\ \A i \in 1..Len(Tail(q)) : Tail(q)[i] = q[i + 1]
  BY TailType
<1>2. Increasing(Tail(q)) /\ Above(Head(q), Tail(q))
  BY <1>1 DEF Increasing, Above
<1>3. \A m \in Nat : Above(m, q) => m < Head(q) /\ Above(m, Tail(q))
  BY <1>1 DEF Above
<1>4. QED
  BY <1>1, <1>2, <1>3
-----------------------------------------------------------------------------
(* Types.                                                                   *)

\* Taking a frame leaves every queue one of frames within its capacity.
LEMMA DequeueType ==
  ASSUME TypeOK, NEW p \in Queued, Dequeue(p)
  PROVE  /\ Head(queue[p]) \in 1..n
         /\ queue' \in [Queued -> Seq(1..n)]
         /\ \A x \in Queued : Len(queue'[x]) <= Capacity
<1>1. /\ n \in Nat /\ Capacity \in Nat
      /\ queue[p] \in Seq(1..n) /\ queue[p] # <<>>
      /\ queue' = [queue EXCEPT ![p] = Tail(@)]
  BY LinkAssumption DEF TypeOK, Dequeue
<1>2. /\ Head(queue[p]) \in 1..n /\ Tail(queue[p]) \in Seq(1..n)
      /\ Len(queue[p]) \in Nat /\ Len(Tail(queue[p])) = Len(queue[p]) - 1
  BY <1>1, TailType
<1>3. QED
  BY <1>1, <1>2 DEF TypeOK

\* Every step keeps the types.
LEMMA TypeStep == TypeOK /\ [Next]_vars => TypeOK'
<1> SUFFICES ASSUME TypeOK, [Next]_vars
             PROVE  TypeOK'
  OBVIOUS
<1> USE LinkAssumption
<1>1. CASE Connected
  BY <1>1 DEF Connected, TypeOK, tasks, clients
<1>2. CASE ConnectFails \/ StreamsFail
  BY <1>2 DEF ConnectFails, StreamsFail, TypeOK, tasks, clients
<1>3. CASE BackoffEnds
  BY <1>3 DEF BackoffEnds, AfterSleep, TypeOK, tasks, clients
<1>4. CASE Receive
  <2>1. n \in Nat /\ n' = n + 1 /\ n' \in 0..MaxFrames /\ Capacity \in Nat
    BY <1>4 DEF Receive, TypeOK
  <2>2. ASSUME NEW p \in Queued
        PROVE  queue'[p] \in Seq(1..n') /\ Len(queue'[p]) <= Capacity
    <3>1. queue[p] \in Seq(1..n) /\ Len(queue[p]) <= Capacity
      BY <2>2 DEF TypeOK
    <3>2. queue[p] \in Seq(1..(n + 1))
      BY <2>1, <3>1, WidenSeq
    <3>3. Put(queue[p]) \in Seq(1..(n + 1)) /\ Len(Put(queue[p])) <= Capacity
      BY <2>1, <3>1, PutType
    <3>4. queue'[p] = queue[p] \/ queue'[p] = Put(queue[p])
      BY <1>4, <2>2 DEF Receive
    <3>5. QED
      BY <2>1, <3>1, <3>2, <3>3, <3>4
  <2>3. queue' \in [Queued -> Seq(1..n')] /\ \A p \in Queued : Len(queue'[p]) <= Capacity
    <3>1. queue' = [p \in Queued |-> queue'[p]]
      BY <1>4 DEF Receive
    <3>2. QED
      BY <2>2, <3>1
  <2>4. QED
    BY <1>4, <2>1, <2>3 DEF Receive, TypeOK, tasks, clients
<1>5. CASE Lose
  <2>1. n \in Nat /\ n' = n + 1 /\ n' \in 0..MaxFrames
    BY <1>5 DEF Lose, TypeOK
  <2>2. queue' = queue /\ \A p \in Queued : queue[p] \in Seq(1..(n + 1))
    BY <1>5, <2>1, WidenSeq DEF Lose, TypeOK
  <2>3. queue' \in [Queued -> Seq(1..n')] /\ \A p \in Queued : Len(queue'[p]) <= Capacity
    BY <2>1, <2>2 DEF TypeOK
  <2>4. QED
    BY <1>5, <2>1, <2>3 DEF Lose, TypeOK, reader, tasks, clients
<1>6. CASE LinkBreaks
  BY <1>6 DEF LinkBreaks, TypeOK, tasks, clients
<1>7. CASE Publish
  BY <1>7 DEF Publish, TypeOK, reader
<1>8. CASE Restart
  <2>1. \A p \in Queued : queue'[p] = <<>> /\ <<>> \in Seq(1..n) /\ Len(<<>>) = 0
    BY <1>8 DEF Restart
  <2>2. queue' \in [Queued -> Seq(1..n)] /\ \A p \in Queued : Len(queue'[p]) <= Capacity
    BY <1>8, <2>1 DEF Restart
  <2>3. QED
    BY <1>8, <2>2 DEF Restart, TypeOK
<1>9. ASSUME NEW p \in AtOnce, BroadcastAtOnce(p)
      PROVE  TypeOK'
  <2>1. p \in Queued /\ Dequeue(p)
    BY <1>9 DEF BroadcastAtOnce, AtOnce
  <2>2. QED
    BY <1>9, <2>1, DequeueType DEF BroadcastAtOnce, TypeOK, reader, tasks
<1>10. ASSUME NEW p \in Awaiting, BroadcastAwaiting(p)
       PROVE  TypeOK'
  <2>0. p \in Queued
    BY DEF Awaiting
  <2>1. CASE TakeForNobody(p)
    BY <2>0, <2>1, DequeueType DEF TakeForNobody, TypeOK, reader, tasks, clients
  <2>2. ASSUME NEW c \in Client, Take(p, c)
        PROVE  TypeOK'
    <3>1. /\ Head(queue[p]) \in 1..n /\ queue' \in [Queued -> Seq(1..n)]
          /\ \A x \in Queued : Len(queue'[x]) <= Capacity
      BY <2>0, <2>2, DequeueType DEF Take
    <3>2. Members(p) \subseteq Client /\ n \in Nat
      BY DEF Members, TypeOK
    <3>3. QED
      BY <2>2, <3>1, <3>2 DEF Take, SendTo, TypeOK, reader
  <2>3. ASSUME NEW c \in Client, SendNext(p, c)
        PROVE  TypeOK'
    BY <2>3 DEF SendNext, SendTo, TypeOK, reader
  <2>4. CASE SendsEnd(p)
    BY <2>4 DEF SendsEnd, LoopOver, TypeOK, reader
  <2>5. CASE SetChanged(p)
    <3>1. queue' = [queue EXCEPT ![p] = <<>>] /\ <<>> \in Seq(1..n) /\ Len(<<>>) = 0
      BY <2>5 DEF SetChanged
    <3>2. queue' \in [Queued -> Seq(1..n)] /\ \A x \in Queued : Len(queue'[x]) <= Capacity
      BY <2>0, <3>1 DEF TypeOK
    <3>3. QED
      BY <2>5, <3>2 DEF SetChanged, LoopOver, TypeOK, reader, clients
  <2>6. QED
    BY <1>10, <2>1, <2>2, <2>3, <2>4, <2>5 DEF BroadcastAwaiting
<1>11. ASSUME NEW c \in Client, Join(c) \/ Breaks(c) \/ Leave(c)
       PROVE  TypeOK'
  BY <1>11 DEF Join, Breaks, Leave, TypeOK, reader, tasks
<1>12. CASE UNCHANGED vars
  BY <1>12 DEF vars, reader, tasks, clients, TypeOK
<1>13. QED
  BY <1>1, <1>2, <1>3, <1>4, <1>5, <1>6, <1>7, <1>8, <1>9, <1>10, <1>11, <1>12
     DEF Next, Read

\* Every variable keeps its type: no queue outgrows its capacity and no backoff
\* its cap, whatever the clients, the proxies and the bounds are.
THEOREM TypeCorrect == Spec => []TypeOK
<1>1. Init => TypeOK
  <2>1. \A p \in Queued : <<>> \in Seq(1..0) /\ Len(<<>>) = 0
    OBVIOUS
  <2>2. QED
    BY <2>1, LinkAssumption DEF Init, TypeOK
<1>2. QED
  BY <1>1, TypeStep, PTL DEF Spec
-----------------------------------------------------------------------------
(* Order.                                                                   *)

\* What waits for a client is newer than what it has.
Waiting ==
  /\ \A p \in Queued : Increasing(queue[p])
  /\ \A c \in Client : Home[c] \in Queued => Above(got[c], queue[Home[c]])

\* The frame of a loop is older than those that wait, and no client of the relay
\* has a newer one.
Looping ==
  \A p \in Awaiting :
    /\ Above(cur[p], queue[p])
    /\ relay[p] = "send" => \A c \in Client : Home[c] = p => got[c] <= cur[p]

\* No client of the state server has a state newer than the last published.
States ==
  /\ cur["state"] <= seen
  /\ \A c \in Client : Home[c] = "state" =>
       /\ status[c] \in {"in", "lost"} => got[c] <= cur["state"]
       /\ status[c] = "new" => got[c] = 0

OrderInv == TypeOK /\ Waiting /\ Looping /\ States

\* What a step that takes a frame from a queue leaves of the invariant's parts.
LEMMA DequeueOrder ==
  ASSUME OrderInv, NEW p \in Queued, Dequeue(p)
  PROVE  /\ Head(queue[p]) \in 1..n /\ n \in Nat
         /\ \A x \in Queued : Increasing(queue'[x])
         /\ \A x \in Queued, m \in 0..n : Above(m, queue[x]) => Above(m, queue'[x])
         /\ Above(Head(queue[p]), queue'[p])
         /\ \A m \in 0..n : Above(m, queue[p]) => m < Head(queue[p])
<1>1. /\ n \in Nat /\ queue[p] \in Seq(1..n) /\ queue[p] # <<>>
      /\ queue \in [Queued -> Seq(1..n)]
      /\ queue' = [queue EXCEPT ![p] = Tail(@)]
      /\ Increasing(queue[p])
  BY DEF OrderInv, Waiting, TypeOK, Dequeue
<1>2. /\ Head(queue[p]) \in 1..n
      /\ Increasing(Tail(queue[p])) /\ Above(Head(queue[p]), Tail(queue[p]))
      /\ \A m \in Nat : Above(m, queue[p]) => m < Head(queue[p]) /\ Above(m, Tail(queue[p]))
  BY <1>1, TailType, TailKeeps
<1>3. queue'[p] = Tail(queue[p]) /\ \A x \in Queued \ {p} : queue'[x] = queue[x]
  BY <1>1
<1>4. \A x \in Queued : Increasing(queue'[x])
  BY <1>2, <1>3 DEF OrderInv, Waiting
<1>5. \A x \in Queued, m \in 0..n : Above(m, queue[x]) => Above(m, queue'[x])
  <2>1. \A m \in 0..n : m \in Nat
    BY <1>1
  <2>2. QED
    BY <1>2, <1>3, <2>1
<1>6. \A m \in 0..n : Above(m, queue[p]) => m < Head(queue[p])
  BY <1>1, <1>2
<1>7. QED
  BY <1>1, <1>2, <1>3, <1>4, <1>5, <1>6

\* A new frame is newer than all there are.
LEMMA ReceiveOrder ==
  ASSUME OrderInv, Receive
  PROVE  /\ \A x \in Queued : Increasing(queue'[x])
         /\ \A x \in Queued, m \in 0..n : Above(m, queue[x]) => Above(m, queue'[x])
<1> SUFFICES ASSUME NEW x \in Queued
             PROVE  /\ Increasing(queue'[x])
                    /\ \A m \in 0..n : Above(m, queue[x]) => Above(m, queue'[x])
  OBVIOUS
<1>1. /\ n \in Nat /\ Capacity \in Nat
      /\ queue[x] \in Seq(1..n) /\ Len(queue[x]) <= Capacity
      /\ Increasing(queue[x])
  BY LinkAssumption DEF OrderInv, Waiting, TypeOK
<1>2. queue'[x] = queue[x] \/ queue'[x] = Put(queue[x])
  BY DEF Receive
<1>3. /\ Increasing(Put(queue[x]))
      /\ \A m \in 0..n : Above(m, queue[x]) => Above(m, Put(queue[x]))
  BY <1>1, PutKeeps
<1>4. QED
  BY <1>1, <1>2, <1>3

\* Every step keeps the order.
LEMMA OrderStep == OrderInv /\ [Next]_vars => OrderInv'
<1> SUFFICES ASSUME OrderInv, [Next]_vars
             PROVE  OrderInv'
  OBVIOUS
<1> USE LinkAssumption
<1>0. TypeOK /\ TypeOK' /\ n \in Nat
  BY TypeStep DEF OrderInv, TypeOK
<1>1. CASE Connected \/ ConnectFails \/ StreamsFail \/ BackoffEnds \/ LinkBreaks
  BY <1>0, <1>1 DEF Connected, ConnectFails, StreamsFail, BackoffEnds, LinkBreaks, tasks, clients,
     OrderInv, Waiting, Looping, States
<1>2. CASE Receive
  <2>1. /\ \A x \in Queued : Increasing(queue'[x])
        /\ \A x \in Queued, m \in 0..n : Above(m, queue[x]) => Above(m, queue'[x])
    BY <1>2, ReceiveOrder
  <2>2. /\ UNCHANGED <<tasks, clients>> /\ seen <= seen'
        /\ got \in [Client -> 0..n] /\ cur \in [Awaiting \cup {"state"} -> 0..n]
    BY <1>0, <1>2 DEF Receive, TypeOK
  <2>3. Waiting'
    BY <2>1, <2>2 DEF OrderInv, Waiting, clients
  <2>4. Looping'
    <3>1. \A p \in Awaiting : p \in Queued
      BY DEF Awaiting
    <3>2. QED
      BY <2>1, <2>2, <3>1 DEF OrderInv, Looping, tasks, clients
  <2>5. States'
    <3>1. cur["state"] \in 0..n /\ seen \in 0..n /\ seen' \in 0..n'
      BY <1>0, <2>2 DEF TypeOK
    <3>2. QED
      BY <1>0, <2>2, <3>1 DEF OrderInv, States, tasks, clients, TypeOK
  <2>6. QED
    BY <1>0, <2>3, <2>4, <2>5 DEF OrderInv
<1>3. CASE Lose
  BY <1>0, <1>3 DEF Lose, reader, tasks, clients, OrderInv, Waiting, Looping, States
<1>4. CASE Publish
  BY <1>0, <1>4 DEF Publish, reader, OrderInv, Waiting, Looping, States, TypeOK,
     Awaiting, Queued
<1>5. CASE Restart
  <2>1. \A p \in Queued : queue'[p] = <<>>
    BY <1>5 DEF Restart
  <2>2. \A m : Increasing(<<>>) /\ Above(m, <<>>)
    BY DEF Increasing, Above
  <2>3. Waiting' /\ Looping'
    BY <1>5, <2>1, <2>2 DEF Restart, Waiting, Looping, Awaiting
  <2>4. States'
    BY <1>5 DEF Restart, OrderInv, States
  <2>5. QED
    BY <1>0, <2>3, <2>4 DEF OrderInv
<1>6. ASSUME NEW p \in AtOnce, BroadcastAtOnce(p)
      PROVE  OrderInv'
  <2>1. /\ p \in Queued /\ p \notin Awaiting /\ p # "state" /\ Dequeue(p)
        /\ UNCHANGED <<seen, relay, cur, status>>
        /\ got' = [c \in Client |-> IF Home[c] = p /\ status[c] = "in"
                                    THEN Head(queue[p]) ELSE got[c]]
    BY <1>6 DEF BroadcastAtOnce, AtOnce, Queued, reader, tasks
  <2>2. /\ Head(queue[p]) \in 1..n
        /\ \A x \in Queued : Increasing(queue'[x])
        /\ \A x \in Queued, m \in 0..n : Above(m, queue[x]) => Above(m, queue'[x])
        /\ Above(Head(queue[p]), queue'[p])
    BY <2>1, DequeueOrder
  <2>3. got \in [Client -> 0..n] /\ cur \in [Awaiting \cup {"state"} -> 0..n]
    BY <1>0 DEF TypeOK
  <2>4. Waiting'
    BY <2>1, <2>2, <2>3 DEF OrderInv, Waiting
  <2>5. Looping'
    <3>1. \A x \in Awaiting : x \in Queued /\ x # p
      BY <2>1 DEF Awaiting
    <3>2. QED
      BY <2>1, <2>2, <2>3, <3>1 DEF OrderInv, Looping
  <2>6. States'
    BY <2>1, <2>3 DEF OrderInv, States
  <2>7. QED
    BY <1>0, <2>4, <2>5, <2>6 DEF OrderInv
<1>7. ASSUME NEW p \in Awaiting, BroadcastAwaiting(p)
      PROVE  OrderInv'
  <2>0. /\ p \in Queued /\ p # "state" /\ \A x \in Awaiting : x \in Queued /\ x # "state"
        /\ got \in [Client -> 0..n] /\ cur \in [Awaiting \cup {"state"} -> 0..n]
    BY <1>0 DEF Awaiting, TypeOK
  <2>1. CASE TakeForNobody(p)
    <3>1. Dequeue(p) /\ UNCHANGED <<seen, relay, cur, status, got>>
      BY <2>1 DEF TakeForNobody, reader, tasks, clients
    <3>2. /\ \A x \in Queued : Increasing(queue'[x])
          /\ \A x \in Queued, m \in 0..n : Above(m, queue[x]) => Above(m, queue'[x])
      BY <2>0, <3>1, DequeueOrder
    <3>3. Waiting' /\ Looping' /\ States'
      BY <2>0, <3>1, <3>2 DEF OrderInv, Waiting, Looping, States
    <3>4. QED
      BY <1>0, <3>3 DEF OrderInv
  <2>2. ASSUME NEW c \in Client, Take(p, c)
        PROVE  OrderInv'
    <3>1. /\ Dequeue(p) /\ Home[c] = p /\ UNCHANGED <<seen, status>>
          /\ got' = [got EXCEPT ![c] = IF status[c] = "in" THEN Head(queue[p]) ELSE @]
          /\ cur' = [cur EXCEPT ![p] = Head(queue[p])]
          /\ relay' = [relay EXCEPT ![p] = "send"]
      BY <2>2 DEF Take, SendTo, Members, reader
    <3>2. /\ Head(queue[p]) \in 1..n
          /\ \A x \in Queued : Increasing(queue'[x])
          /\ \A x \in Queued, m \in 0..n : Above(m, queue[x]) => Above(m, queue'[x])
          /\ Above(Head(queue[p]), queue'[p])
          /\ \A m \in 0..n : Above(m, queue[p]) => m < Head(queue[p])
      BY <2>0, <3>1, DequeueOrder
    <3>3. Waiting'
      BY <2>0, <3>1, <3>2 DEF OrderInv, Waiting
    <3>4. Looping'
      <4>1. ASSUME NEW x \in Awaiting, x # p
            PROVE  /\ Above(cur'[x], queue'[x])
                   /\ relay'[x] = "send" => \A d \in Client : Home[d] = x => got'[d] <= cur'[x]
        BY <2>0, <3>1, <3>2, <4>1 DEF OrderInv, Looping
      <4>2. cur'[p] = Head(queue[p])
        BY <2>0, <3>1
      <4>3. \A d \in Client : Home[d] = p => got'[d] <= Head(queue[p])
        BY <1>0, <2>0, <3>1, <3>2 DEF OrderInv, Waiting
      <4>4. QED
        BY <3>2, <4>1, <4>2, <4>3 DEF Looping
    <3>5. States'
      BY <2>0, <3>1 DEF OrderInv, States
    <3>6. QED
      BY <1>0, <3>3, <3>4, <3>5 DEF OrderInv
  <2>3. ASSUME NEW c \in Client, SendNext(p, c)
        PROVE  OrderInv'
    <3>1. /\ Home[c] = p /\ relay[p] = "send" /\ UNCHANGED <<seen, queue, relay, cur, status>>
          /\ got' = [got EXCEPT ![c] = IF status[c] = "in" THEN cur[p] ELSE @]
      BY <2>3 DEF SendNext, SendTo, Members, reader
    <3>2. Above(cur[p], queue[p])
      BY DEF OrderInv, Looping
    <3>3. Waiting' /\ Looping' /\ States'
      BY <1>0, <2>0, <3>1, <3>2 DEF OrderInv, Waiting, Looping, States
    <3>4. QED
      BY <1>0, <3>3 DEF OrderInv
  <2>4. ASSUME SendsEnd(p) \/ SetChanged(p)
        PROVE  OrderInv'
    <3>1. /\ UNCHANGED <<seen, got>>
          /\ cur' = [cur EXCEPT ![p] = 0] /\ relay'[p] # "send"
          /\ \A x \in Awaiting \ {p} : relay'[x] = relay[x]
          /\ \A x \in Queued : queue'[x] = queue[x] \/ queue'[x] = <<>>
          /\ \A d \in Client : status'[d] = status[d] \/ status'[d] = "gone"
      BY <1>0, <2>0, <2>4 DEF SendsEnd, SetChanged, LoopOver, TypeOK, reader, clients
    <3>2. \A m : Increasing(<<>>) /\ Above(m, <<>>)
      BY DEF Increasing, Above
    <3>3. Waiting'
      BY <3>1, <3>2 DEF OrderInv, Waiting
    <3>4. Above(0, queue'[p])
      <4>1. queue[p] \in Seq(1..n)
        BY <1>0, <2>0 DEF TypeOK
      <4>2. Above(0, queue[p])
        BY <1>0, <4>1, AboveNone
      <4>3. QED
        BY <2>0, <3>1, <3>2, <4>2
    <3>5. Looping'
      BY <2>0, <3>1, <3>2, <3>4 DEF OrderInv, Looping
    <3>6. States'
      BY <2>0, <3>1 DEF OrderInv, States
    <3>7. QED
      BY <1>0, <3>3, <3>5, <3>6 DEF OrderInv
  <2>5. QED
    BY <1>7, <2>1, <2>2, <2>3, <2>4 DEF BroadcastAwaiting
<1>8. ASSUME NEW c \in Client, Join(c)
      PROVE  OrderInv'
  <2>1. UNCHANGED <<seen, queue, relay, cur>> /\ status[c] = "new"
        /\ status' = [status EXCEPT ![c] = "in"]
        /\ got' = [got EXCEPT ![c] = IF Home[c] = "state" THEN cur["state"] ELSE @]
    BY <1>8 DEF Join, reader, tasks
  <2>2. "state" \notin Queued
    BY DEF Queued
  <2>3. got \in [Client -> 0..n] /\ cur["state"] \in 0..n
        /\ status \in [Client -> {"new", "in", "lost", "gone"}]
    BY <1>0 DEF TypeOK
  <2>4. Waiting' /\ Looping'
    BY <2>1, <2>2, <2>3 DEF OrderInv, Waiting, Looping, Awaiting
  <2>5. States'
    BY <1>0, <2>1, <2>3 DEF OrderInv, States
  <2>6. QED
    BY <1>0, <2>4, <2>5 DEF OrderInv
<1>9. ASSUME NEW c \in Client, Breaks(c) \/ Leave(c)
      PROVE  OrderInv'
  BY <1>0, <1>9 DEF Breaks, Leave, reader, tasks, OrderInv, Waiting, Looping, States, TypeOK
<1>10. CASE UNCHANGED vars
  BY <1>0, <1>10 DEF vars, reader, tasks, clients, OrderInv, Waiting, Looping, States
<1>11. QED
  BY <1>1, <1>2, <1>3, <1>4, <1>5, <1>6, <1>7, <1>8, <1>9, <1>10 DEF Next, Read

\* A frame is sent, or clients get newer ones, or nothing that Feed sees happens.
LEMMA FeedStep ==
  ASSUME OrderInv, [Next]_vars
  PROVE  [InOrder!Send \/ InOrder!Deliver]_<<n, got>>
<1> USE LinkAssumption
<1>0. /\ TypeOK' /\ n \in Nat /\ got \in [Client -> 0..n]
      /\ cur["state"] \in 0..n /\ seen \in 0..n
  BY TypeStep DEF OrderInv, TypeOK
<1>1. CASE Receive \/ Lose
  BY <1>1 DEF Receive, Lose, clients, InOrder!Send
<1>2. ASSUME n' = n, \A c \in Client : got[c] <= got'[c]
      PROVE  InOrder!Deliver
  <2>1. got' \in [Client -> 1..n \cup {0}]
    BY <1>0, <1>2 DEF TypeOK
  <2>2. QED
    BY <1>2, <2>1 DEF InOrder!Deliver
<1>3. CASE Connected \/ ConnectFails \/ StreamsFail \/ BackoffEnds \/ LinkBreaks \/ Restart
  BY <1>3 DEF Connected, ConnectFails, StreamsFail, BackoffEnds, LinkBreaks, Restart, clients
<1>4. CASE Publish
  <2>1. n' = n
    BY <1>4 DEF Publish
  <2>2. \A c \in Client : got[c] <= got'[c]
    BY <1>0, <1>4 DEF Publish, OrderInv, States
  <2>3. QED
    BY <1>2, <2>1, <2>2
<1>5. ASSUME NEW p \in AtOnce, BroadcastAtOnce(p)
      PROVE  [InOrder!Send \/ InOrder!Deliver]_<<n, got>>
  <2>1. /\ p \in Queued /\ Dequeue(p) /\ n' = n
        /\ got' = [c \in Client |-> IF Home[c] = p /\ status[c] = "in"
                                    THEN Head(queue[p]) ELSE got[c]]
    BY <1>5 DEF BroadcastAtOnce, AtOnce
  <2>2. Head(queue[p]) \in 1..n /\ \A m \in 0..n : Above(m, queue[p]) => m < Head(queue[p])
    BY <2>1, DequeueOrder
  <2>3. \A c \in Client : got[c] <= got'[c]
    BY <1>0, <2>1, <2>2 DEF OrderInv, Waiting
  <2>4. QED
    BY <1>2, <2>1, <2>3
<1>6. ASSUME NEW p \in Awaiting, BroadcastAwaiting(p)
      PROVE  [InOrder!Send \/ InOrder!Deliver]_<<n, got>>
  <2>0. p \in Queued
    BY DEF Awaiting
  <2>1. CASE TakeForNobody(p) \/ SendsEnd(p) \/ SetChanged(p)
    BY <2>1 DEF TakeForNobody, SendsEnd, SetChanged, clients
  <2>2. ASSUME NEW c \in Client, Take(p, c)
        PROVE  InOrder!Deliver
    <3>1. /\ Dequeue(p) /\ Home[c] = p /\ n' = n
          /\ got' = [got EXCEPT ![c] = IF status[c] = "in" THEN Head(queue[p]) ELSE @]
      BY <2>2 DEF Take, SendTo, Members
    <3>2. Head(queue[p]) \in 1..n /\ \A m \in 0..n : Above(m, queue[p]) => m < Head(queue[p])
      BY <2>0, <3>1, DequeueOrder
    <3>3. \A d \in Client : got[d] <= got'[d]
      BY <1>0, <2>0, <3>1, <3>2 DEF OrderInv, Waiting
    <3>4. QED
      BY <1>2, <3>1, <3>3
  <2>3. ASSUME NEW c \in Client, SendNext(p, c)
        PROVE  InOrder!Deliver
    <3>1. /\ Home[c] = p /\ relay[p] = "send" /\ n' = n
          /\ got' = [got EXCEPT ![c] = IF status[c] = "in" THEN cur[p] ELSE @]
      BY <2>3 DEF SendNext, SendTo, Members
    <3>2. got[c] <= cur[p]
      BY <3>1 DEF OrderInv, Looping
    <3>3. \A d \in Client : got[d] <= got'[d]
      BY <1>0, <3>1, <3>2
    <3>4. QED
      BY <1>2, <3>1, <3>3
  <2>4. QED
    BY <1>6, <2>1, <2>2, <2>3 DEF BroadcastAwaiting
<1>7. ASSUME NEW c \in Client, Join(c) \/ Breaks(c) \/ Leave(c)
      PROVE  [InOrder!Send \/ InOrder!Deliver]_<<n, got>>
  <2>1. n' = n /\ \A d \in Client : got[d] <= got'[d]
    BY <1>0, <1>7 DEF Join, Breaks, Leave, OrderInv, States
  <2>2. QED
    BY <1>2, <2>1
<1>8. CASE UNCHANGED vars
  BY <1>8 DEF vars, clients
<1>9. QED
  BY <1>1, <1>3, <1>4, <1>5, <1>6, <1>7, <1>8 DEF Next, Read

\* Through full queues, clients that come and go, reconnects and restarts, every
\* client gets frames in the order they were sent.
THEOREM LinkImplementsFeed == Spec => FeedImplemented
<1>1. Init => OrderInv /\ InOrder!Init
  <2>1. ASSUME Init
        PROVE  TypeOK
    <3>1. \A p \in Queued : <<>> \in Seq(1..0) /\ Len(<<>>) = 0
      OBVIOUS
    <3>2. QED
      BY <2>1, <3>1, LinkAssumption DEF Init, TypeOK
  <2>2. \A m : Increasing(<<>>) /\ Above(m, <<>>)
    BY DEF Increasing, Above
  <2>3. QED
    BY <2>1, <2>2, LinkAssumption
       DEF Init, OrderInv, Waiting, Looping, States, Awaiting, InOrder!Init
<1>2. OrderInv /\ [Next]_vars => [InOrder!Send \/ InOrder!Deliver]_<<n, got>>
  BY FeedStep
<1>3. QED
  BY <1>1, <1>2, OrderStep, PTL DEF Spec, FeedImplemented, InOrder!Spec
=============================================================================
