------------------------- MODULE WorkerQueueProofs -------------------------
(***************************************************************************)
(* The order of the worker's batches is fair, for any rows and any batch   *)
(* size: no row is asked about again, after it was served, before every    *)
(* other unsettled row has been asked about or written since.              *)
(*                                                                         *)
(* That is about the row in hand.  What makes it inductive is that the     *)
(* history of every row agrees with the queue: a row served since q was    *)
(* last asked about stands behind q, in the queue (OrderInv) and in what   *)
(* is left of the batch (BatchInv).                                        *)
(***************************************************************************)
EXTENDS WorkerQueue, SequenceTheorems, TLAPS

Snapshots == [id : Ids, status : Unsettled]
Answers == [answer : {"error", "pending", "decided"}, row : Snapshots]

ShapeInv ==
    /\ status \in [Ids -> {"absent", "settled"} \cup Unsettled]
    /\ decided \in SUBSET Ids
    /\ batch \in Seq(Snapshots) /\ Len(batch) <= BatchSize
    /\ asking \in {Nothing} \cup Answers
    /\ since \in [Ids -> SUBSET Ids]

\* The queue holds each unsettled row once.
QueueInv ==
    /\ queue \in Seq(Ids)
    /\ \A o \in Ids : o \in Waiting <=> \E i \in 1..Len(queue) : queue[i] = o
    /\ \A i, j \in 1..Len(queue) : queue[i] = queue[j] => i = j

OrderInv ==
    /\ \A i, j \in 1..Len(queue) : queue[j] \in since[queue[i]] => i < j
    /\ \A o \in Ids : status[o] = "absent" => since[o] = {}

BatchInv ==
    /\ \A i, j \in 1..Len(batch) : batch[i].id = batch[j].id => i = j
    /\ \A i \in 1..Len(batch), q \in Waiting :
          batch[i].id \in since[q] => \E j \in 1..(i - 1) : batch[j].id = q

\* The row in hand is in nobody's history, and is not left in the batch.
AskingInv ==
    asking # Nothing =>
        /\ \A i \in 1..Len(batch) : batch[i].id # asking.row.id
        /\ since[asking.row.id] = {}
        /\ \A q \in Waiting : asking.row.id \notin since[q]

IInv == ShapeInv /\ QueueInv /\ OrderInv /\ BatchInv /\ AskingInv

LEMMA InitInv == Init => IInv
<1> SUFFICES ASSUME Init PROVE IInv
  OBVIOUS
<1>1. queue = <<>> /\ batch = <<>> /\ Len(queue) = 0 /\ Len(batch) = 0 /\ asking = Nothing /\ Waiting = {}
  BY DEF Init, Waiting, Unsettled
<1>2. ShapeInv
  BY <1>1, QueueAssumption DEF Init, ShapeInv
<1>3. QueueInv /\ OrderInv
  BY <1>1 DEF Init, QueueInv, OrderInv
<1>4. BatchInv /\ AskingInv
  BY <1>1 DEF BatchInv, AskingInv
<1> QED
  BY <1>2, <1>3, <1>4 DEF IInv

-----------------------------------------------------------------------------
\* Where the other rows of a queue stand when one row is taken out of it.
LEMMA WithoutRow ==
  ASSUME NEW q \in Seq(Ids), NEW o \in Ids, NEW k \in 1..Len(q), q[k] = o,
         \A i, j \in 1..Len(q) : q[i] = q[j] => i = j
  PROVE  /\ Without(q, o) \in Seq(Ids)
         /\ Len(Without(q, o)) = Len(q) - 1
         /\ \A i \in 1..(Len(q) - 1) : Without(q, o)[i] = q[IF i < k THEN i ELSE i + 1]
<1>1. (CHOOSE i \in DOMAIN q : q[i] = o) = k
  OBVIOUS
<1> DEFINE a == SubSeq(q, 1, k - 1)
           b == SubSeq(q, k + 1, Len(q))
<1>2. Without(q, o) = a \o b
  BY <1>1 DEF Without, RemoveAt
<1>3. /\ a \in Seq(Ids) /\ Len(a) = k - 1
      /\ \A i \in 1..(k - 1) : a[i] = q[i]
  OBVIOUS
<1>4. /\ b \in Seq(Ids) /\ Len(b) = Len(q) - k
      /\ \A i \in 1..(Len(q) - k) : b[i] = q[k + i]
  OBVIOUS
<1> HIDE DEF a, b
<1>5. /\ a \o b \in Seq(Ids) /\ Len(a \o b) = Len(a) + Len(b)
      /\ \A i \in 1..Len(a) + Len(b) :
            (a \o b)[i] = IF i <= Len(a) THEN a[i] ELSE b[i - Len(a)]
  <2>1. a \in Seq(Ids) /\ b \in Seq(Ids)
    BY <1>3, <1>4
  <2> QED
    BY <2>1
<1>6. \A i \in 1..(Len(q) - 1) : (a \o b)[i] = q[IF i < k THEN i ELSE i + 1]
  <2> TAKE i \in 1..(Len(q) - 1)
  <2>1. CASE i < k
    BY <1>3, <1>4, <1>5, <2>1
  <2>2. CASE ~(i < k)
    <3>1. /\ i - (k - 1) \in 1..(Len(q) - k) /\ k + (i - (k - 1)) = i + 1
          /\ i \in 1..(Len(a) + Len(b)) /\ ~(i <= Len(a))
      BY <1>3, <1>4, <2>2
    <3>2. (a \o b)[i] = b[i - (k - 1)]
      BY <1>3, <1>5, <3>1
    <3>3. b[i - (k - 1)] = q[i + 1]
      BY <1>4, <3>1
    <3> QED
      BY <2>2, <3>2, <3>3
  <2> QED
    BY <2>1, <2>2
<1> QED
  BY <1>2, <1>3, <1>4, <1>5, <1>6

\* Order: what OrderInv says of the queue.
Ordered == \A i, j \in 1..Len(queue) : queue[j] \in since[queue[i]] => i < j

\* A row that is served or submitted goes to the back with an empty history.
LEMMA MoveToBack ==
  ASSUME IInv, NEW o \in Waiting, queue' = Append(Without(queue, o), o), Waiting' = Waiting,
         since'[o] = {}, \A q \in Waiting : since'[q] \subseteq since[q] \cup {o}
  PROVE  QueueInv' /\ Ordered'
<1>1. o \in Ids /\ Waiting \subseteq Ids /\ queue \in Seq(Ids)
  BY DEF Waiting, IInv, QueueInv
<1>2. PICK k \in 1..Len(queue) : queue[k] = o
  BY <1>1 DEF IInv, QueueInv
<1> DEFINE w == Without(queue, o)
           n == Len(queue)
           m(i) == IF i < k THEN i ELSE i + 1
<1>3. w \in Seq(Ids) /\ Len(w) = n - 1 /\ \A i \in 1..(n - 1) : w[i] = queue[m(i)]
  BY <1>1, <1>2, WithoutRow DEF IInv, QueueInv
<1>4. n \in Nat /\ k \in 1..n
  BY <1>1, <1>2
<1>5. queue' = Append(w, o)
  OBVIOUS
<1> HIDE DEF w, n
<1>6. /\ queue' \in Seq(Ids) /\ Len(queue') = n /\ queue'[n] = o
      /\ \A i \in 1..(n - 1) : queue'[i] = w[i]
  BY <1>1, <1>3, <1>4, <1>5, AppendProperties
<1>7. \A i \in 1..(n - 1) : m(i) \in 1..n /\ m(i) # k /\ queue'[i] = queue[m(i)]
  BY <1>3, <1>4, <1>6
<1>8. \A i \in 1..n : i # k => \E j \in 1..(n - 1) : m(j) = i
  <2> TAKE i \in 1..n
  <2>1. CASE i < k
    BY <1>4, <2>1
  <2>2. CASE i > k
    <3>1. i - 1 \in 1..(n - 1) /\ m(i - 1) = i
      BY <1>4, <2>2
    <3> QED
      BY <3>1
  <2> QED
    BY <1>4, <2>1, <2>2
<1>9. \A i, j \in 1..n : queue[i] = queue[j] => i = j
  BY DEF IInv, QueueInv, n
<1>10. \A i \in 1..(n - 1) : queue'[i] # o
  <2> TAKE i \in 1..(n - 1)
  <2>1. m(i) \in 1..n /\ m(i) # k /\ queue'[i] = queue[m(i)]
    BY <1>7
  <2>2. queue[m(i)] # queue[k]
    BY <1>4, <1>9, <2>1
  <2> QED
    BY <1>2, <2>1, <2>2
<1>11. \A i, j \in 1..(n - 1) : (m(i) = m(j) => i = j) /\ (m(i) < m(j) => i < j)
  BY <1>4
<1> HIDE DEF m
<1>12. \A p \in Ids : p \in Waiting' <=> \E i \in 1..n : queue'[i] = p
  <2> SUFFICES ASSUME NEW p \in Ids
               PROVE  p \in Waiting <=> \E i \in 1..n : queue'[i] = p
    OBVIOUS
  <2>1. p \in Waiting <=> \E i \in 1..n : queue[i] = p
    BY DEF IInv, QueueInv, n
  <2>2. CASE p = o
    BY <1>4, <1>6, <2>2
  <2>3. CASE p # o
    <3>1. ASSUME NEW i \in 1..n, queue[i] = p PROVE \E j \in 1..n : queue'[j] = p
      <4>1. i # k
        BY <1>2, <2>3, <3>1
      <4>2. PICK j \in 1..(n - 1) : m(j) = i
        BY <1>8, <4>1
      <4>3. queue'[j] = queue[m(j)]
        BY <1>7, <4>2
      <4>4. queue'[j] = p
        BY <3>1, <4>2, <4>3
      <4>5. j \in 1..n
        BY <1>4, <4>2
      <4> QED
        BY <4>4, <4>5
    <3>2. ASSUME NEW i \in 1..n, queue'[i] = p PROVE \E j \in 1..n : queue[j] = p
      <4>1. i # n
        BY <1>6, <2>3, <3>2
      <4>2. i \in 1..(n - 1)
        BY <1>4, <4>1
      <4>3. m(i) \in 1..n /\ queue'[i] = queue[m(i)]
        BY <1>7, <4>2
      <4> QED
        BY <3>2, <4>3
    <3> QED
      BY <2>1, <3>1, <3>2
  <2> QED
    BY <2>2, <2>3
<1>13. \A i, j \in 1..n : queue'[i] = queue'[j] => i = j
  <2> TAKE i, j \in 1..n
  <2>1. CASE i = n \/ j = n
    BY <1>4, <1>6, <1>10, <2>1
  <2>2. CASE i # n /\ j # n
    <3>1. i \in 1..(n - 1) /\ j \in 1..(n - 1)
      BY <1>4, <2>2
    <3>2. /\ queue'[i] = queue[m(i)] /\ queue'[j] = queue[m(j)]
          /\ m(i) \in 1..n /\ m(j) \in 1..n
      BY <1>7, <3>1
    <3>3. queue[m(i)] = queue[m(j)] => m(i) = m(j)
      BY <1>9, <3>2
    <3> QED
      BY <1>11, <3>1, <3>2, <3>3
  <2> QED
    BY <2>1, <2>2
<1>14. \A i, j \in 1..n : queue'[j] \in since'[queue'[i]] => i < j
  <2> SUFFICES ASSUME NEW i \in 1..n, NEW j \in 1..n, queue'[j] \in since'[queue'[i]]
               PROVE  i < j
    OBVIOUS
  <2>1. i # n
    BY <1>6
  <2>2. CASE j = n
    BY <1>4, <2>1, <2>2
  <2>3. CASE j # n
    <3>1. i \in 1..(n - 1) /\ j \in 1..(n - 1)
      BY <1>4, <2>1, <2>3
    <3>2. m(i) \in 1..n /\ m(j) \in 1..n /\ queue'[i] = queue[m(i)] /\ queue'[j] = queue[m(j)]
      BY <1>7, <3>1
    <3>3. queue[m(i)] \in Waiting
      BY <1>1, <3>2 DEF IInv, QueueInv, n
    <3>4. queue[m(j)] \in since[queue[m(i)]]
      BY <1>10, <3>1, <3>2, <3>3
    <3>5. m(i) < m(j)
      BY <3>2, <3>4 DEF IInv, OrderInv, n
    <3> QED
      BY <1>11, <3>1, <3>5
  <2> QED
    BY <2>2, <2>3
<1> QED
  BY <1>6, <1>12, <1>13, <1>14 DEF QueueInv, Ordered

\* A row that is settled leaves the queue.
LEMMA Leave ==
  ASSUME IInv, NEW o \in Waiting, queue' = Without(queue, o), Waiting' = Waiting \ {o},
         since' = since
  PROVE  QueueInv' /\ Ordered'
<1>1. o \in Ids /\ Waiting \subseteq Ids /\ queue \in Seq(Ids)
  BY DEF Waiting, IInv, QueueInv
<1>2. PICK k \in 1..Len(queue) : queue[k] = o
  BY <1>1 DEF IInv, QueueInv
<1> DEFINE n == Len(queue)
           m(i) == IF i < k THEN i ELSE i + 1
<1>3. queue' \in Seq(Ids) /\ Len(queue') = n - 1 /\ \A i \in 1..(n - 1) : queue'[i] = queue[m(i)]
  BY <1>1, <1>2, WithoutRow DEF IInv, QueueInv
<1>4. n \in Nat /\ k \in 1..n
  BY <1>1, <1>2
<1> HIDE DEF n
<1>5. \A i \in 1..(n - 1) : m(i) \in 1..n /\ m(i) # k
  BY <1>4
<1>6. \A i \in 1..n : i # k => \E j \in 1..(n - 1) : m(j) = i
  <2> TAKE i \in 1..n
  <2>1. CASE i < k
    BY <1>4, <2>1
  <2>2. CASE i > k
    <3>1. i - 1 \in 1..(n - 1) /\ m(i - 1) = i
      BY <1>4, <2>2
    <3> QED
      BY <3>1
  <2> QED
    BY <1>4, <2>1, <2>2
<1>7. \A i, j \in 1..n : queue[i] = queue[j] => i = j
  BY DEF IInv, QueueInv, n
<1>8. \A i, j \in 1..(n - 1) : (m(i) = m(j) => i = j) /\ (m(i) < m(j) => i < j)
  BY <1>4
<1> HIDE DEF m
<1>9. \A p \in Ids : p \in Waiting' <=> \E i \in 1..(n - 1) : queue'[i] = p
  <2> SUFFICES ASSUME NEW p \in Ids
               PROVE  p \in Waiting \ {o} <=> \E i \in 1..(n - 1) : queue'[i] = p
    OBVIOUS
  <2>1. p \in Waiting <=> \E i \in 1..n : queue[i] = p
    BY DEF IInv, QueueInv, n
  <2>2. ASSUME NEW i \in 1..n, queue[i] = p, p # o PROVE \E j \in 1..(n - 1) : queue'[j] = p
    BY <1>2, <1>3, <1>6, <2>2
  <2>3. ASSUME NEW i \in 1..(n - 1), queue'[i] = p PROVE p # o /\ \E j \in 1..n : queue[j] = p
    BY <1>2, <1>3, <1>4, <1>5, <1>7, <2>3
  <2> QED
    BY <2>1, <2>2, <2>3
<1>10. \A i, j \in 1..(n - 1) : queue'[i] = queue'[j] => i = j
  BY <1>3, <1>5, <1>7, <1>8
<1>11. \A i, j \in 1..(n - 1) : queue'[j] \in since'[queue'[i]] => i < j
  <2>1. \A i, j \in 1..n : queue[j] \in since[queue[i]] => i < j
    BY DEF IInv, OrderInv, n
  <2> QED
    BY <1>3, <1>5, <1>8, <2>1
<1> QED
  BY <1>3, <1>9, <1>10, <1>11 DEF QueueInv, Ordered

\* A new row enters at the back.
LEMMA Enter ==
  ASSUME IInv, NEW o \in Ids \ Waiting, queue' = Append(queue, o), Waiting' = Waiting \cup {o},
         since' = since, since[o] = {}
  PROVE  QueueInv' /\ Ordered'
<1> DEFINE n == Len(queue)
<1>1. queue \in Seq(Ids) /\ n \in Nat
  BY DEF IInv, QueueInv
<1>2. /\ queue' \in Seq(Ids) /\ Len(queue') = n + 1 /\ queue'[n + 1] = o
      /\ \A i \in 1..n : queue'[i] = queue[i]
  BY <1>1, AppendProperties
<1>3. /\ \A p \in Ids : p \in Waiting <=> \E i \in 1..n : queue[i] = p
      /\ \A i, j \in 1..n : queue[i] = queue[j] => i = j
      /\ \A i, j \in 1..n : queue[j] \in since[queue[i]] => i < j
  BY DEF IInv, QueueInv, OrderInv
<1> HIDE DEF n
<1>4. \A i \in 1..n : queue[i] # o
  BY <1>3
<1>5. \A i \in 1..(n + 1) : i \in 1..n \/ i = n + 1
  BY <1>1
<1>6. 1..n \subseteq 1..(n + 1) /\ n + 1 \in 1..(n + 1) /\ \A i \in 1..n : i < n + 1
  BY <1>1
<1>7. \A p \in Ids : p \in Waiting' <=> \E i \in 1..(n + 1) : queue'[i] = p
  BY <1>2, <1>3, <1>5, <1>6
<1>8. \A i, j \in 1..(n + 1) : queue'[i] = queue'[j] => i = j
  BY <1>2, <1>3, <1>4, <1>5
<1>9. \A i, j \in 1..(n + 1) : queue'[j] \in since'[queue'[i]] => i < j
  BY <1>2, <1>3, <1>5, <1>6
<1> QED
  BY <1>2, <1>7, <1>8, <1>9 DEF QueueInv, Ordered

-----------------------------------------------------------------------------
LEMMA AnsweredRow ==
  ASSUME IInv, asking # Nothing
  PROVE  asking \in Answers /\ asking.row.id \in Ids
BY DEF IInv, ShapeInv, Answers, Snapshots

\* The histories only shrink, or belong to a new row and are empty.
LEMMA HandsKept ==
  ASSUME IInv, UNCHANGED <<batch, asking>>,
         \A q \in Waiting' : since'[q] = {} \/ (q \in Waiting /\ since'[q] = since[q]),
         asking # Nothing => since'[asking.row.id] \subseteq since[asking.row.id]
  PROVE  BatchInv' /\ AskingInv'
<1>1. BatchInv'
  BY DEF IInv, BatchInv
<1>2. AskingInv'
  BY DEF IInv, AskingInv
<1> QED
  BY <1>1, <1>2

LEMMA CreateStep ==
  ASSUME IInv, NEW o \in Ids, NEW s \in Unsettled, Create(o, s)
  PROVE  IInv'
<1>1. /\ status[o] = "absent" /\ since[o] = {} /\ status' = [status EXCEPT ![o] = s]
      /\ status \in [Ids -> {"absent", "settled"} \cup Unsettled]
      /\ queue' = Append(queue, o) /\ UNCHANGED <<decided, batch, asking, since>>
  BY DEF Create, IInv, OrderInv, ShapeInv
<1>2. Waiting' = Waiting \cup {o} /\ o \in Ids \ Waiting
  BY <1>1 DEF Waiting, Unsettled
<1>3. QueueInv' /\ Ordered'
  BY <1>1, <1>2, Enter
<1>4. BatchInv' /\ AskingInv'
  BY <1>1, <1>2, HandsKept
<1>5. ShapeInv'
  BY <1>1 DEF IInv, ShapeInv
<1>6. \A p \in Ids : status'[p] = "absent" => since'[p] = {}
  BY <1>1 DEF IInv, OrderInv, Unsettled
<1> QED
  BY <1>3, <1>4, <1>5, <1>6 DEF IInv, OrderInv, Ordered

LEMMA SubmitStep ==
  ASSUME IInv, NEW o \in Ids, Submit(o)
  PROVE  IInv'
<1>1. /\ status[o] = "prepared" /\ status' = [status EXCEPT ![o] = "pending"]
      /\ status \in [Ids -> {"absent", "settled"} \cup Unsettled]
      /\ since \in [Ids -> SUBSET Ids] /\ since' = [since EXCEPT ![o] = {}]
      /\ queue' = Append(Without(queue, o), o) /\ UNCHANGED <<decided, batch, asking>>
  BY DEF Submit, IInv, ShapeInv
<1>2. Waiting' = Waiting /\ o \in Waiting /\ Waiting \subseteq Ids
  BY <1>1 DEF Waiting, Unsettled
<1>3. \A q \in Ids : since'[q] = {} \/ since'[q] = since[q]
  BY <1>1
<1>4. QueueInv' /\ Ordered'
  BY <1>1, <1>2, <1>3, MoveToBack
<1>5. BatchInv' /\ AskingInv'
  BY <1>1, <1>2, <1>3, AnsweredRow, HandsKept
<1>6. ShapeInv'
  BY <1>1 DEF IInv, ShapeInv, Unsettled
<1>7. \A p \in Ids : status'[p] = "absent" => since'[p] = {}
  BY <1>1, <1>3 DEF IInv, OrderInv
<1> QED
  BY <1>4, <1>5, <1>6, <1>7 DEF IInv, OrderInv, Ordered

LEMMA DecideStep ==
  ASSUME IInv, NEW o \in Ids, Decide(o)
  PROVE  IInv'
BY DEF Decide, Waiting, IInv, ShapeInv, QueueInv, OrderInv, BatchInv, AskingInv

LEMMA ReadBatchStep ==
  ASSUME IInv, ReadBatch
  PROVE  IInv'
<1> DEFINE n == IF Len(queue) < BatchSize THEN Len(queue) ELSE BatchSize
<1>1. /\ queue \in Seq(Ids) /\ BatchSize \in Nat /\ n \in Nat
      /\ n <= Len(queue) /\ n <= BatchSize
      /\ asking = Nothing /\ UNCHANGED <<status, queue, decided, asking, since>>
  BY QueueAssumption DEF IInv, QueueInv, ReadBatch
<1>2. /\ Oldest(queue) \in Seq(Ids) /\ Len(Oldest(queue)) = n
      /\ \A i \in 1..n : Oldest(queue)[i] = queue[i]
  BY <1>1 DEF Oldest
<1> HIDE DEF n
<1>3. DOMAIN Oldest(queue) = 1..n
  BY <1>2
<1>4. \A i \in 1..n : queue[i] \in Ids /\ queue[i] \in Waiting /\ status[queue[i]] \in Unsettled
  BY <1>1 DEF IInv, QueueInv, Waiting
<1>5. batch' = [i \in 1..n |-> [id |-> queue[i], status |-> status[queue[i]]]]
  BY <1>2, <1>3 DEF ReadBatch
<1>6. /\ batch' \in Seq(Snapshots) /\ Len(batch') = n
      /\ \A i \in 1..n : batch'[i].id = queue[i]
  BY <1>1, <1>4, <1>5 DEF Snapshots
<1>7. 1..n \subseteq 1..Len(queue)
  BY <1>1
<1>8. \A i, j \in 1..n : batch'[i].id = batch'[j].id => i = j
  BY <1>6, <1>7 DEF IInv, QueueInv
<1>9. ASSUME NEW i \in 1..n, NEW q \in Waiting, batch'[i].id \in since[q]
      PROVE  \E j \in 1..(i - 1) : batch'[j].id = q
  <2>1. q \in Ids
    BY DEF Waiting
  <2>2. PICK j \in 1..Len(queue) : queue[j] = q
    BY <2>1 DEF IInv, QueueInv
  <2>3. j < i
    BY <1>6, <1>7, <1>9, <2>2 DEF IInv, OrderInv
  <2>4. j \in 1..(i - 1) /\ j \in 1..n
    BY <1>1, <2>3
  <2> QED
    BY <1>6, <2>2, <2>4
<1>10. Waiting' = Waiting
  BY <1>1 DEF Waiting
<1>11. BatchInv'
  BY <1>1, <1>6, <1>8, <1>9, <1>10 DEF BatchInv
<1>12. ShapeInv'
  BY <1>1, <1>6 DEF IInv, ShapeInv
<1>13. QueueInv' /\ OrderInv' /\ AskingInv'
  BY <1>1, <1>10 DEF IInv, QueueInv, OrderInv, AskingInv
<1> QED
  BY <1>11, <1>12, <1>13 DEF IInv

LEMMA AskStep ==
  ASSUME IInv, NEW o \in Ids, NEW answer \in {"error", "pending", "decided"}, Ask(o, answer)
  PROVE  IInv'
<1>1. /\ asking = Nothing /\ batch # <<>> /\ batch \in Seq(Snapshots)
      /\ asking' = [answer |-> answer, row |-> Head(batch)] /\ Head(batch).id = o
      /\ batch' = Tail(batch) /\ since' = [since EXCEPT ![o] = {}]
      /\ since \in [Ids -> SUBSET Ids] /\ UNCHANGED <<status, queue, decided>>
  BY DEF Ask, IInv, ShapeInv
<1> DEFINE n == Len(batch)
<1>2. /\ n \in Nat /\ n >= 1 /\ Head(batch) = batch[1] /\ Head(batch) \in Snapshots
      /\ batch' \in Seq(Snapshots) /\ Len(batch') = n - 1
      /\ \A i \in 1..(n - 1) : batch'[i] = batch[i + 1]
  BY <1>1, HeadTailProperties
<1>3. /\ \A q \in Ids : since'[q] \subseteq since[q]
      /\ since'[o] = {} /\ Waiting' = Waiting /\ Waiting \subseteq Ids
  BY <1>1 DEF Waiting
<1>4. /\ \A i, j \in 1..n : batch[i].id = batch[j].id => i = j
      /\ \A i \in 1..n, q \in Waiting :
            batch[i].id \in since[q] => \E j \in 1..(i - 1) : batch[j].id = q
  BY DEF IInv, BatchInv
<1>5. n <= BatchSize
  BY DEF IInv, ShapeInv
<1> HIDE DEF n
<1>6. ShapeInv'
  <2>1. asking' \in Answers
    BY <1>1, <1>2 DEF Answers
  <2>2. Len(batch') <= BatchSize
    BY <1>2, <1>5, QueueAssumption
  <2>3. since' \in [Ids -> SUBSET Ids]
    BY <1>1
  <2> QED
    BY <1>1, <1>2, <2>1, <2>2, <2>3 DEF IInv, ShapeInv
<1>7. QueueInv' /\ OrderInv'
  <2>1. \A i \in 1..Len(queue) : queue[i] \in Ids
    BY DEF IInv, QueueInv
  <2> QED
    BY <1>1, <1>3, <2>1 DEF IInv, QueueInv, OrderInv
<1>8. \A i \in 1..(n - 1) : i + 1 \in 1..n /\ i + 1 # 1
  BY <1>2
<1>9. \A i, j \in 1..(n - 1) : batch'[i].id = batch'[j].id => i = j
  <2> SUFFICES ASSUME NEW i \in 1..(n - 1), NEW j \in 1..(n - 1), batch'[i].id = batch'[j].id
               PROVE  i = j
    OBVIOUS
  <2>1. /\ batch[i + 1] = batch'[i] /\ batch[j + 1] = batch'[j]
        /\ i + 1 \in 1..n /\ j + 1 \in 1..n
    BY <1>2, <1>8
  <2>2. batch[i + 1].id = batch[j + 1].id
    BY <2>1
  <2>3. i + 1 = j + 1
    BY <1>4, <2>1, <2>2
  <2> QED
    BY <1>2, <2>3
<1>10. ASSUME NEW i \in 1..(n - 1), NEW q \in Waiting, batch'[i].id \in since'[q]
       PROVE  \E j \in 1..(i - 1) : batch'[j].id = q
  <2>1. q # o /\ batch[i + 1].id \in since[q] /\ i + 1 \in 1..n
    BY <1>2, <1>3, <1>8, <1>10
  <2>2. PICK j \in 1..((i + 1) - 1) : batch[j].id = q
    BY <1>4, <2>1
  <2>3. j # 1
    BY <1>1, <1>2, <2>1, <2>2
  <2>4. j - 1 \in 1..(i - 1) /\ j - 1 \in 1..(n - 1) /\ (j - 1) + 1 = j
    BY <1>2, <2>2, <2>3
  <2>5. batch'[j - 1].id = q
    BY <1>2, <2>2, <2>4
  <2> QED
    BY <2>4, <2>5
<1>11. BatchInv'
  BY <1>2, <1>3, <1>9, <1>10 DEF BatchInv
<1>12. AskingInv'
  <2>1. asking'.row.id = o
    BY <1>1
  <2>2. \A i \in 1..(n - 1) : batch'[i].id # o
    BY <1>1, <1>2, <1>4, <1>8
  <2>3. \A q \in Waiting : o \notin since[q]
    <3>1. 1 \in 1..n /\ 1..(1 - 1) = {}
      BY <1>2
    <3> QED
      BY <1>1, <1>2, <1>4, <3>1
  <2> QED
    BY <1>2, <1>3, <2>1, <2>2, <2>3 DEF AskingInv
<1> QED
  BY <1>6, <1>7, <1>11, <1>12 DEF IInv

LEMMA SkipStep ==
  ASSUME IInv, SkipRow
  PROVE  IInv'
<1>1. asking' = Nothing /\ UNCHANGED <<status, queue, decided, batch, since>>
  BY DEF SkipRow
<1> QED
  BY <1>1 DEF Waiting, IInv, ShapeInv, QueueInv, OrderInv, BatchInv, AskingInv

LEMMA InterruptStep ==
  ASSUME IInv, Interrupt
  PROVE  IInv'
<1>1. batch' = <<>> /\ asking' = Nothing /\ UNCHANGED <<status, queue, decided, since>>
  BY DEF Interrupt
<1>2. Len(batch') = 0 /\ batch' \in Seq(Snapshots)
  BY <1>1
<1>3. ShapeInv' /\ BatchInv' /\ AskingInv'
  BY <1>1, <1>2, QueueAssumption DEF IInv, ShapeInv, BatchInv, AskingInv
<1>4. QueueInv' /\ OrderInv'
  BY <1>1 DEF Waiting, IInv, QueueInv, OrderInv
<1> QED
  BY <1>3, <1>4 DEF IInv

LEMMA ServeStep ==
  ASSUME IInv, NEW o \in Ids, Serve(o)
  PROVE  IInv'
<1>1. /\ asking # Nothing /\ asking.row.id = o /\ asking' = Nothing
      /\ queue' = IF o \in Waiting THEN Touched(queue, o) ELSE queue
      /\ since' = [q \in Ids |-> IF q \in Waiting \ {o} THEN since[q] \cup {o} ELSE since[q]]
      /\ UNCHANGED <<status, decided, batch>>
      /\ since \in [Ids -> SUBSET Ids]
  BY DEF Serve, Answered, Nothing, IInv, ShapeInv
<1>2. /\ Waiting' = Waiting /\ Waiting \subseteq Ids
      /\ since[o] = {} /\ since'[o] = {} /\ since' \in [Ids -> SUBSET Ids]
      /\ \A q \in Ids : since'[q] \subseteq since[q] \cup {o}
      /\ \A q \in Ids \ Waiting : since'[q] = since[q]
  BY <1>1 DEF Waiting, IInv, AskingInv
<1>3. QueueInv' /\ Ordered'
  <2>1. CASE o \in Waiting
    BY <1>1, <1>2, <2>1, MoveToBack DEF Touched
  <2>2. CASE o \notin Waiting
    <3>1. queue' = queue /\ \A i \in 1..Len(queue) : queue[i] \in Waiting /\ queue[i] # o
      BY <1>1, <2>2 DEF IInv, QueueInv
    <3>2. Ordered'
      BY <1>2, <3>1 DEF IInv, OrderInv, Ordered
    <3> QED
      BY <1>2, <3>1, <3>2 DEF IInv, QueueInv
  <2> QED
    BY <2>1, <2>2
<1>4. BatchInv'
  <2>1. \A i \in 1..Len(batch) : batch[i].id # o
    BY <1>1 DEF IInv, AskingInv
  <2> QED
    BY <1>1, <1>2, <2>1 DEF IInv, BatchInv
<1>5. ShapeInv' /\ AskingInv'
  BY <1>1, <1>2 DEF IInv, ShapeInv, AskingInv
<1>6. \A p \in Ids : status'[p] = "absent" => since'[p] = {}
  BY <1>1, <1>2 DEF IInv, OrderInv, Waiting, Unsettled
<1> QED
  BY <1>3, <1>4, <1>5, <1>6 DEF IInv, OrderInv, Ordered

LEMMA SettleStep ==
  ASSUME IInv, NEW o \in Ids, Settle(o)
  PROVE  IInv'
<1>1. /\ asking # Nothing /\ asking.row.status \in Unsettled
      /\ asking' = Nothing /\ UNCHANGED <<decided, batch, since>>
      /\ status \in [Ids -> {"absent", "settled"} \cup Unsettled]
  BY DEF Settle, Answered, Nothing, IInv, ShapeInv, Answers, Snapshots
<1>2. CASE Settled(o)
  <2>1. /\ o \in Waiting /\ status' = [status EXCEPT ![o] = "settled"]
        /\ queue' = Without(queue, o)
    BY <1>1, <1>2 DEF Settle, Settled, Waiting
  <2>2. Waiting' = Waiting \ {o}
    BY <1>1, <2>1 DEF Waiting, Unsettled
  <2>3. QueueInv' /\ Ordered'
    BY <1>1, <2>1, <2>2, Leave
  <2>4. BatchInv' /\ AskingInv' /\ ShapeInv'
    BY <1>1, <2>1, <2>2 DEF IInv, BatchInv, AskingInv, ShapeInv
  <2>5. \A p \in Ids : status'[p] = "absent" => since'[p] = {}
    BY <1>1, <2>1 DEF IInv, OrderInv
  <2> QED
    BY <2>3, <2>4, <2>5 DEF IInv, OrderInv, Ordered
<1>3. CASE ~Settled(o)
  <2>1. status' = status /\ queue' = queue
    BY <1>3 DEF Settle
  <2> QED
    BY <1>1, <2>1 DEF Waiting, IInv, ShapeInv, QueueInv, OrderInv, BatchInv, AskingInv
<1> QED
  BY <1>2, <1>3

LEMMA NextInv ==
  ASSUME IInv, [Next]_vars
  PROVE  IInv'
<1>1. CASE \E o \in Ids :
          \/ \E s \in Unsettled : Create(o, s)
          \/ Submit(o) \/ Decide(o) \/ Serve(o) \/ Settle(o)
  BY <1>1, CreateStep, SubmitStep, DecideStep, ServeStep, SettleStep
<1>2. CASE \E o \in Ids, answer \in {"error", "pending", "decided"} : Ask(o, answer)
  BY <1>2, AskStep
<1>3. CASE ReadBatch \/ SkipRow \/ Interrupt
  BY <1>3, ReadBatchStep, SkipStep, InterruptStep
<1>4. CASE UNCHANGED vars
  BY <1>4 DEF vars, Waiting, IInv, ShapeInv, QueueInv, OrderInv, BatchInv, AskingInv
<1> QED
  BY <1>1, <1>2, <1>3, <1>4 DEF Next, Rest

\* The conjunction of named parts is inductive for all rows and batch sizes.
THEOREM Inductive == Spec => []IInv
<1>1. Init => IInv
  BY InitInv
<1>2. IInv /\ [Next]_vars => IInv'
  BY NextInv
<1> QED
  BY <1>1, <1>2, PTL DEF Spec

\* TypeOK: the queue, which is the ORDER BY updated_at of store.go, holds each
\* unsettled row once, and a batch no more rows than its LIMIT.
THEOREM TypesAreKept == Spec => []TypeOK
<1>1. IInv => TypeOK
  <2> SUFFICES ASSUME IInv PROVE TypeOK
    OBVIOUS
  <2>1. DOMAIN queue = 1..Len(queue) /\ DOMAIN batch = 1..Len(batch)
    BY DEF IInv, QueueInv, ShapeInv
  <2>2. ToSet(queue) = Waiting
    <3>1. \A o \in Waiting : o \in ToSet(queue)
      BY <2>1 DEF IInv, QueueInv, ToSet, Waiting
    <3>2. \A i \in DOMAIN queue : queue[i] \in Waiting
      BY <2>1 DEF IInv, QueueInv
    <3> QED
      BY <3>1, <3>2 DEF ToSet
  <2>3. IsInjective(queue)
    BY <2>1 DEF IInv, QueueInv, IsInjective
  <2>4. \A i \in DOMAIN batch : batch[i] \in Snapshots
    BY <2>1 DEF IInv, ShapeInv
  <2> QED
    BY <2>2, <2>3, <2>4 DEF IInv, ShapeInv, TypeOK, Answers, Snapshots
<1> QED
  BY <1>1, Inductive, PTL

\* NoRowIsOvertaken: the touch of worker.go serves the rows in turn, whatever
\* passes end early and calls fail.
THEOREM TheTouchIsFair == Spec => []NoRowIsOvertaken
<1>1. IInv => NoRowIsOvertaken
  BY DEF IInv, AskingInv, NoRowIsOvertaken
<1> QED
  BY <1>1, Inductive, PTL
=============================================================================
