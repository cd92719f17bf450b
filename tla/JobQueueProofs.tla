--------------------------- MODULE JobQueueProofs ---------------------------
(***************************************************************************)
(* Proofs about JobQueue, for any jobs, number of workers, buffer and      *)
(* number of retries.                                                      *)
(***************************************************************************)
EXTENDS JobQueue, SequenceTheorems, FiniteSetTheorems, TLAPS

(***************************************************************************)
(* The inductive invariant.  First, where the copies of jobs are: the four *)
(* kinds of places exclude each other, and none holds a job twice.         *)
(***************************************************************************)
InQueue(j) == \E i \in 1 .. Len(queue) : queue[i].job = j
Held(j)    == \E w \in Workers : held[w] # NoItem /\ held[w].job = j
Waits(j)   == \E x \in waiting : x.job = j
Sends(j)   == \E x \in sending : x.job = j
Somewhere(j) == InQueue(j) \/ Held(j) \/ Waits(j) \/ Sends(j)

Exclusive ==
    /\ \A i, k \in 1 .. Len(queue) : queue[i].job = queue[k].job => i = k
    /\ \A v, w \in Workers :
          held[v] # NoItem /\ held[w] # NoItem /\ held[v].job = held[w].job => v = w
    /\ \A x, y \in waiting : x.job = y.job => x = y
    /\ \A x, y \in sending : x.job = y.job => x = y
    /\ \A j \in Jobs :
          /\ InQueue(j) => ~Held(j) /\ ~Waits(j) /\ ~Sends(j)
          /\ Held(j) => ~Waits(j) /\ ~Sends(j)
          /\ Waits(j) => ~Sends(j)

\* A job is somewhere exactly from the send to its end.
Location ==
    \A j \in Jobs :
        /\ Somewhere(j) <=> enqueue[j] \in {"sent", "accepted"} /\ outcome[j] = "none"
        /\ enqueue[j] \notin {"sent", "accepted"} => outcome[j] = "none"

\* The copy of a job counts the calls of its handler that have failed.
Counting ==
    /\ \A i \in 1 .. Len(queue) : runs[queue[i].job] = queue[i].attempts
    /\ \A x \in waiting \cup sending : runs[x.job] = x.attempts
    /\ \A w \in Workers :
          /\ worker[w] = "received" => runs[held[w].job] = held[w].attempts
          /\ worker[w] \in {"handling", "hung"} => runs[held[w].job] = held[w].attempts + 1
    /\ \A j \in Jobs : runs[j] <= MaxRetries + 1
    /\ \A j \in Jobs : enqueue[j] \in {"new", "full", "refused"} => runs[j] = 0

\* A record that says a job has ended, none before the job is sent, one
\* while it lives.
Records ==
    \A j \in Jobs :
        /\ status[j] \in Final => ~Somewhere(j)
        /\ enqueue[j] = "new" => status[j] = "none"
        /\ enqueue[j] = "accepted" /\ outcome[j] = "none" => status[j] # "none"

IInv == TypeOK /\ Exclusive /\ Location /\ Counting /\ Records

LEMMA InitInv == Init => IInv
<1> SUFFICES ASSUME Init PROVE IInv
  OBVIOUS
<1>1. queue \in Seq(Items) /\ Len(queue) = 0
  BY EmptySeq DEF Init
<1>2. TypeOK
  BY <1>1, JobQueueAssumption DEF Init, TypeOK, Statuses
<1>3. \A j \in Jobs : ~Somewhere(j)
  BY <1>1 DEF Init, Somewhere, InQueue, Held, Waits, Sends
<1>4. Exclusive
  BY <1>1, <1>3 DEF Init, Exclusive, Somewhere
<1>5. Location /\ Records
  BY <1>3 DEF Init, Location, Records
<1>6. Counting
  BY <1>1, JobQueueAssumption DEF Init, Counting
<1> QED
  BY <1>2, <1>4, <1>5, <1>6 DEF IInv

(***************************************************************************)
(* The channel.                                                            *)
(***************************************************************************)
LEMMA AppendFacts ==
  ASSUME NEW q \in Seq(Items), NEW x \in Items
  PROVE  /\ Append(q, x) \in Seq(Items) /\ Len(Append(q, x)) = Len(q) + 1 /\ Len(q) \in Nat
         /\ Append(q, x)[Len(q) + 1] = x
         /\ \A i \in 1 .. Len(q) : Append(q, x)[i] = q[i]
  BY AppendProperties, LenProperties

LEMMA TailFacts ==
  ASSUME NEW q \in Seq(Items), q # <<>>
  PROVE  /\ Tail(q) \in Seq(Items) /\ Len(Tail(q)) = Len(q) - 1 /\ Len(q) \in Nat \ {0}
         /\ Head(q) = q[1] /\ Head(q) \in Items
         /\ \A i \in 1 .. Len(q) - 1 : Tail(q)[i] = q[i + 1]
  BY HeadTailProperties, LenProperties, EmptySeq

(***************************************************************************)
(* Enqueue.                                                                *)
(***************************************************************************)
LEMMA SendKeeps ==
  ASSUME IInv, NEW j \in Jobs, Send(j)
  PROVE  IInv'
<1> DEFINE x == [job |-> j, attempts |-> 0]
           n == Len(queue)
<1>1. /\ enqueue[j] = "new" /\ n < Buffer /\ queue' = Append(queue, x)
      /\ enqueue' = [enqueue EXCEPT ![j] = "sent"]
      /\ UNCHANGED <<status, old, worker, held, waiting, sending, phase, runs, outcome>>
  BY DEF Send, Called, records
<1>2. x \in Items /\ x.job = j /\ x.attempts = 0 /\ queue \in Seq(Items)
  BY JobQueueAssumption DEF Items, IInv, TypeOK
<1> HIDE DEF x
<1>3. /\ queue' \in Seq(Items) /\ Len(queue') = n + 1 /\ n \in Nat /\ queue'[n + 1] = x
      /\ \A i \in 1 .. n : queue'[i] = queue[i]
  BY <1>1, <1>2, AppendFacts
<1>4. TypeOK'
  BY <1>1, <1>3, JobQueueAssumption DEF IInv, TypeOK
<1>5. ~Somewhere(j)
  BY <1>1 DEF IInv, Location
<1>6. \A k \in Jobs : /\ InQueue(k)' <=> (InQueue(k) \/ k = j)
                      /\ (Held(k)' <=> Held(k)) /\ (Waits(k)' <=> Waits(k)) /\ (Sends(k)' <=> Sends(k))
  BY <1>1, <1>2, <1>3 DEF InQueue, Held, Waits, Sends
<1>7. Exclusive'
  <2>1. \A i, k \in 1 .. n + 1 : queue'[i].job = queue'[k].job => i = k
    BY <1>2, <1>3, <1>5 DEF IInv, Exclusive, Somewhere, InQueue
  <2> QED
    BY <1>1, <1>3, <1>5, <1>6, <2>1 DEF IInv, Exclusive, Somewhere
<1>8. Location'
  <2>1. outcome[j] = "none"
    BY <1>1 DEF IInv, Location
  <2> QED
    BY <1>1, <1>6, <2>1 DEF IInv, Location, Somewhere, TypeOK
<1>9. Counting'
  <2>1. runs[j] = 0
    BY <1>1 DEF IInv, Counting
  <2>2. \A i \in 1 .. n : runs[queue[i].job] = queue[i].attempts
    BY DEF IInv, Counting
  <2>3. \A i \in 1 .. n + 1 : runs[queue'[i].job] = queue'[i].attempts
    BY <1>2, <1>3, <2>1, <2>2
  <2> QED
    BY <1>1, <1>3, <2>3 DEF IInv, Counting, TypeOK
<1>10. Records'
  BY <1>1, <1>6 DEF IInv, Records, Somewhere, TypeOK, Final
<1> QED
  BY <1>4, <1>7, <1>8, <1>9, <1>10 DEF IInv

(***************************************************************************)
(* The steps that leave every copy where it is.                            *)
(***************************************************************************)
Stay == UNCHANGED <<queue, held, waiting, sending, outcome>>

LEMMA StayFacts ==
  ASSUME IInv, Stay,
         \A j \in Jobs : enqueue'[j] \in {"sent", "accepted"} <=> enqueue[j] \in {"sent", "accepted"}
  PROVE  Exclusive' /\ Location' /\ \A j \in Jobs : Somewhere(j)' <=> Somewhere(j)
<1>1. \A j \in Jobs : /\ InQueue(j)' <=> InQueue(j)
                      /\ (Held(j)' <=> Held(j)) /\ (Waits(j)' <=> Waits(j)) /\ (Sends(j)' <=> Sends(j))
  BY DEF Stay, InQueue, Held, Waits, Sends
<1>2. Exclusive'
  BY <1>1 DEF Stay, IInv, Exclusive
<1>3. \A j \in Jobs : Somewhere(j)' <=> Somewhere(j)
  BY <1>1 DEF Somewhere
<1>4. Location'
  BY <1>3 DEF Stay, IInv, Location
<1> QED
  BY <1>2, <1>3, <1>4

LEMMA EnqueueReturns ==
  ASSUME IInv, NEW j \in Jobs, SetPending(j) \/ Full(j) \/ SetRefused(j)
  PROVE  IInv'
<1>1. /\ enqueue' \in [Jobs -> {"new", "sent", "accepted", "full", "refused"}]
      /\ \A k \in Jobs : enqueue'[k] \in {"sent", "accepted"} <=> enqueue[k] \in {"sent", "accepted"}
      /\ \A k \in Jobs : enqueue'[k] = "new" => enqueue[k] = "new" /\ k # j
      /\ \A k \in Jobs : k # j => enqueue'[k] = enqueue[k]
      /\ Stay /\ UNCHANGED <<worker, phase, runs>>
  BY DEF SetPending, Full, SetRefused, Called, IInv, TypeOK, Stay, records
<1>2. Exclusive' /\ Location' /\ \A k \in Jobs : Somewhere(k)' <=> Somewhere(k)
  BY <1>1, StayFacts
<1>3. /\ status' \in [Jobs -> Statuses] /\ old' \in [Jobs -> BOOLEAN]
      /\ \A k \in Jobs : k # j => status'[k] = status[k]
  BY DEF SetPending, Full, SetRefused, SetStatus, records, IInv, TypeOK, Statuses
<1>4. TypeOK'
  BY <1>1, <1>3 DEF Stay, IInv, TypeOK
<1>5. Counting'
  BY <1>1 DEF Stay, IInv, TypeOK, Counting
<1>6. /\ status'[j] \in Final => ~Somewhere(j)
      /\ enqueue'[j] = "accepted" /\ outcome'[j] = "none" => status'[j] # "none"
  <2>1. CASE SetPending(j)
    BY <2>1 DEF SetPending, SetStatus, Final, IInv, TypeOK
  <2>2. CASE Full(j)
    BY <2>2 DEF Full, records, IInv, TypeOK, Records
  <2>3. CASE SetRefused(j)
    BY <2>3 DEF SetRefused, IInv, TypeOK, Location
  <2> QED
    BY <2>1, <2>2, <2>3
<1>7. Records'
  BY <1>1, <1>2, <1>3, <1>6 DEF IInv, Records, Stay
<1> QED
  BY <1>2, <1>4, <1>5, <1>7 DEF IInv

LEMMA WorkerStays ==
  ASSUME IInv, NEW w \in Workers, Exit(w) \/ HandlerHangs(w)
  PROVE  IInv'
<1>1. Stay /\ UNCHANGED <<enqueue, status, old, phase, runs>>
  BY DEF Exit, HandlerHangs, Stay, records
<1>2. Exclusive' /\ Location' /\ \A k \in Jobs : Somewhere(k)' <=> Somewhere(k)
  BY <1>1, StayFacts
<1>3. TypeOK'
  BY <1>1 DEF Exit, HandlerHangs, Stay, IInv, TypeOK
<1>4. Counting'
  BY <1>1 DEF Exit, HandlerHangs, Stay, IInv, TypeOK, Counting
<1>5. Records'
  BY <1>1, <1>2 DEF Stay, IInv, Records
<1> QED
  BY <1>2, <1>3, <1>4, <1>5 DEF IInv

LEMMA RecordStays ==
  ASSUME IInv, (\E j \in Jobs : Age(j)) \/ PruneOlderThan \/ Signal \/ Stop
  PROVE  IInv'
<1>1. Stay /\ UNCHANGED <<enqueue, worker, runs>>
  BY DEF Age, PruneOlderThan, Signal, Stop, Stay, records
<1>2. Exclusive' /\ Location' /\ \A k \in Jobs : Somewhere(k)' <=> Somewhere(k)
  BY <1>1, StayFacts
<1>3. /\ status' \in [Jobs -> Statuses] /\ old' \in [Jobs -> BOOLEAN]
      /\ \A k \in Jobs : status'[k] = status[k] \/ (status[k] \in Final /\ status'[k] = "none")
  <2>1. CASE \E j \in Jobs : Age(j)
    BY <2>1 DEF Age, IInv, TypeOK
  <2>2. CASE PruneOlderThan
    <3>1. \A k \in Jobs : status'[k] = status[k] \/ (status[k] \in Final /\ status'[k] = "none")
      BY <2>2 DEF PruneOlderThan, Prunable
    <3>2. status' \in [Jobs -> Statuses]
      BY <2>2 DEF PruneOlderThan, IInv, TypeOK, Statuses
    <3>3. old' = old
      BY <2>2 DEF PruneOlderThan
    <3>4. old' \in [Jobs -> BOOLEAN]
      BY <3>3 DEF IInv, TypeOK
    <3> QED
      BY <3>1, <3>2, <3>4
  <2>3. CASE Signal \/ Stop
    BY <2>3 DEF Signal, Stop, records, IInv, TypeOK
  <2> QED
    BY <2>1, <2>2, <2>3
<1>4. phase' \in {"serving", "draining", "stopping"}
  BY DEF Age, PruneOlderThan, Signal, Stop, IInv, TypeOK
<1>5. TypeOK'
  BY <1>1, <1>3, <1>4 DEF Stay, IInv, TypeOK
<1>6. Counting'
  BY <1>1 DEF Stay, IInv, Counting
<1>7. Records'
  BY <1>1, <1>2, <1>3 DEF Stay, IInv, Records, Location, Final
<1> QED
  BY <1>2, <1>5, <1>6, <1>7 DEF IInv

(***************************************************************************)
(* The worker takes the head of the channel.                               *)
(***************************************************************************)
LEMMA ReceiveKeeps ==
  ASSUME IInv, NEW w \in Workers, Receive(w)
  PROVE  IInv'
<1> DEFINE x == Head(queue)
           n == Len(queue)
<1>1. /\ worker[w] = "select" /\ queue # <<>> /\ queue' = Tail(queue)
      /\ held' = [held EXCEPT ![w] = x] /\ worker' = [worker EXCEPT ![w] = "received"]
      /\ UNCHANGED <<enqueue, status, old, waiting, sending, phase, runs, outcome>>
  BY DEF Receive, records
<1>2. /\ queue' \in Seq(Items) /\ Len(queue') = n - 1 /\ n \in Nat \ {0} /\ x = queue[1] /\ x \in Items
      /\ \A i \in 1 .. n - 1 : queue'[i] = queue[i + 1]
  BY <1>1, TailFacts DEF IInv, TypeOK
<1>3. x # NoItem /\ x.job \in Jobs /\ held[w] = NoItem
  BY <1>1, <1>2, JobQueueAssumption DEF Items, IInv, TypeOK
<1> HIDE DEF x
<1>4. InQueue(x.job) /\ ~Held(x.job) /\ ~Waits(x.job) /\ ~Sends(x.job)
  <2>1. InQueue(x.job)
    BY <1>2 DEF InQueue
  <2> QED
    BY <1>3, <2>1 DEF IInv, Exclusive
<1>5. \A i, k \in 1 .. n - 1 : queue'[i].job = queue'[k].job => i = k
  BY <1>2 DEF IInv, Exclusive
<1>6. \A k \in Jobs : /\ InQueue(k)' <=> (InQueue(k) /\ k # x.job)
                      /\ Held(k)' <=> (Held(k) \/ k = x.job)
                      /\ (Waits(k)' <=> Waits(k)) /\ (Sends(k)' <=> Sends(k))
  <2> SUFFICES ASSUME NEW k \in Jobs
               PROVE  /\ InQueue(k)' <=> (InQueue(k) /\ k # x.job)
                      /\ Held(k)' <=> (Held(k) \/ k = x.job)
                      /\ (Waits(k)' <=> Waits(k)) /\ (Sends(k)' <=> Sends(k))
    OBVIOUS
  <2>1. InQueue(k)' => (InQueue(k) /\ k # x.job)
    BY <1>2 DEF InQueue, IInv, Exclusive
  <2>2. InQueue(k) /\ k # x.job => InQueue(k)'
    <3> SUFFICES ASSUME NEW i \in 1 .. n, queue[i].job = k, k # x.job PROVE InQueue(k)'
      BY DEF InQueue
    <3>1. i # 1 /\ i - 1 \in 1 .. n - 1 /\ (i - 1) + 1 = i
      BY <1>2
    <3>2. queue'[i - 1] = queue[i]
      BY <1>2, <3>1
    <3> QED
      BY <1>2, <3>1, <3>2 DEF InQueue
  <2>3. Held(k)' <=> (Held(k) \/ k = x.job)
    BY <1>1, <1>3 DEF Held, IInv, TypeOK
  <2> QED
    BY <1>1, <2>1, <2>2, <2>3 DEF Waits, Sends
<1>7. TypeOK'
  BY <1>1, <1>2, <1>3, JobQueueAssumption DEF IInv, TypeOK
<1>8. Exclusive'
  <2>1. \A u, v \in Workers :
           held'[u] # NoItem /\ held'[v] # NoItem /\ held'[u].job = held'[v].job => u = v
    BY <1>1, <1>4 DEF Held, IInv, TypeOK, Exclusive
  <2>2. \A y, z \in waiting : y.job = z.job => y = z
    BY DEF IInv, Exclusive
  <2>3. \A y, z \in sending : y.job = z.job => y = z
    BY DEF IInv, Exclusive
  <2>4. \A j \in Jobs : /\ InQueue(j)' => ~Held(j)' /\ ~Waits(j)' /\ ~Sends(j)'
                        /\ Held(j)' => ~Waits(j)' /\ ~Sends(j)'
                        /\ Waits(j)' => ~Sends(j)'
    BY <1>4, <1>6 DEF IInv, Exclusive
  <2> QED
    BY <1>1, <1>2, <1>5, <2>1, <2>2, <2>3, <2>4 DEF Exclusive
<1>9. Location'
  BY <1>1, <1>4, <1>6 DEF IInv, Location, Somewhere
<1>10. Counting'
  <2>1. \A i \in 1 .. n - 1 : runs[queue'[i].job] = queue'[i].attempts
    BY <1>2 DEF IInv, Counting
  <2>2. runs[x.job] = x.attempts
    BY <1>2 DEF IInv, Counting
  <2> QED
    BY <1>1, <1>2, <2>1, <2>2 DEF IInv, Counting, TypeOK
<1>11. Records'
  BY <1>1, <1>4, <1>6 DEF IInv, Records, Somewhere
<1> QED
  BY <1>7, <1>8, <1>9, <1>10, <1>11 DEF IInv

(***************************************************************************)
(* A worker that holds a job: the only copy of it.                         *)
(***************************************************************************)
LEMMA HeldFacts ==
  ASSUME IInv, NEW w \in Workers, worker[w] \in {"received", "handling", "hung"}
  PROVE  /\ held[w] # NoItem /\ held[w] \in Items /\ held[w].job \in Jobs
         /\ held[w].attempts \in 0 .. MaxRetries /\ Held(held[w].job)
         /\ ~InQueue(held[w].job) /\ ~Waits(held[w].job) /\ ~Sends(held[w].job)
         /\ Somewhere(held[w].job)
         /\ enqueue[held[w].job] \in {"sent", "accepted"} /\ outcome[held[w].job] = "none"
<1>1. held[w] # NoItem /\ held[w] \in Items
  BY DEF IInv, TypeOK
<1>2. held[w].job \in Jobs /\ held[w].attempts \in 0 .. MaxRetries
  BY <1>1 DEF Items
<1>3. Held(held[w].job)
  BY <1>1 DEF Held
<1>4. ~InQueue(held[w].job) /\ ~Waits(held[w].job) /\ ~Sends(held[w].job)
  BY <1>2, <1>3 DEF IInv, Exclusive
<1>5. Somewhere(held[w].job)
  BY <1>3 DEF Somewhere
<1>6. enqueue[held[w].job] \in {"sent", "accepted"} /\ outcome[held[w].job] = "none"
  BY <1>2, <1>5 DEF IInv, Location
<1> QED
  BY <1>1, <1>2, <1>3, <1>4, <1>5, <1>6

LEMMA SetRunningKeeps ==
  ASSUME IInv, NEW w \in Workers, SetRunning(w)
  PROVE  IInv'
<1> DEFINE j == held[w].job
<1>1. /\ worker[w] = "received" /\ Stay /\ UNCHANGED <<enqueue, phase>>
      /\ status' = [status EXCEPT ![j] = "running"] /\ old' = [old EXCEPT ![j] = FALSE]
      /\ runs' = [runs EXCEPT ![j] = @ + 1] /\ worker' = [worker EXCEPT ![w] = "handling"]
  BY DEF SetRunning, SetStatus, Stay
<1>2. /\ held[w] # NoItem /\ j \in Jobs /\ held[w].attempts \in 0 .. MaxRetries
      /\ Held(j) /\ ~InQueue(j) /\ ~Waits(j) /\ ~Sends(j)
      /\ enqueue[j] \in {"sent", "accepted"}
  BY <1>1, HeldFacts
<1>3. runs[j] = held[w].attempts
  BY <1>1 DEF IInv, Counting
<1> HIDE DEF j
<1>4. Exclusive' /\ Location' /\ \A k \in Jobs : Somewhere(k)' <=> Somewhere(k)
  BY <1>1, StayFacts
<1>5. TypeOK'
  BY <1>1, <1>2 DEF Stay, IInv, TypeOK, Statuses
<1>6. Counting'
  <2>1. \A i \in 1 .. Len(queue) : queue[i].job # j
    BY <1>2 DEF InQueue
  <2>2. \A x \in waiting \cup sending : x.job # j
    BY <1>2 DEF Waits, Sends
  <2>3. \A v \in Workers : v # w /\ worker[v] \in {"received", "handling", "hung"} => held[v].job # j
    BY <1>2 DEF IInv, TypeOK, Exclusive, j
  <2>4. \A k \in Jobs : runs'[k] = IF k = j THEN held[w].attempts + 1 ELSE runs[k]
    BY <1>1, <1>2, <1>3 DEF IInv, TypeOK
  <2>5. \A i \in 1 .. Len(queue) : queue[i].job \in Jobs
    <3>1. queue \in Seq(Items)
      BY DEF IInv, TypeOK
    <3>2. \A i \in 1 .. Len(queue) : queue[i] \in Items
      BY <3>1, ElementOfSeq
    <3> QED
      BY <3>2 DEF Items
  <2>6. \A x \in waiting \cup sending : x.job \in Jobs
    BY DEF IInv, TypeOK, Items
  <2>7. \A v \in Workers : worker[v] \in {"received", "handling", "hung"} => held[v].job \in Jobs
    BY HeldFacts
  <2>8. \A i \in 1 .. Len(queue') : runs'[queue'[i].job] = queue'[i].attempts
    BY <1>1, <2>1, <2>4, <2>5 DEF IInv, Counting, Stay
  <2>9. \A x \in (waiting \cup sending)' : runs'[x.job] = x.attempts
    BY <1>1, <2>2, <2>4, <2>6 DEF IInv, Counting, Stay
  <2>10. \A v \in Workers :
          /\ worker'[v] = "received" => runs'[held'[v].job] = held'[v].attempts
          /\ worker'[v] \in {"handling", "hung"} => runs'[held'[v].job] = held'[v].attempts + 1
    <3> SUFFICES ASSUME NEW v \in Workers
                 PROVE  /\ worker'[v] = "received" => runs'[held'[v].job] = held'[v].attempts
                        /\ worker'[v] \in {"handling", "hung"} =>
                              runs'[held'[v].job] = held'[v].attempts + 1
      OBVIOUS
    <3>1. CASE v = w
      BY <1>1, <1>2, <2>4, <3>1 DEF IInv, TypeOK, Stay, j
    <3>2. CASE v # w
      BY <1>1, <2>3, <2>4, <2>7, <3>2 DEF IInv, TypeOK, Counting, Stay
    <3> QED
      BY <3>1, <3>2
  <2>11. \A k \in Jobs : runs'[k] <= MaxRetries + 1
    BY <1>2, <2>4, JobQueueAssumption DEF IInv, Counting
  <2>12. \A k \in Jobs : enqueue'[k] \in {"new", "full", "refused"} => runs'[k] = 0
    BY <1>1, <1>2, <2>4 DEF IInv, Counting
  <2> QED
    BY <2>8, <2>9, <2>10, <2>11, <2>12 DEF Counting
<1>7. Records'
  BY <1>1, <1>2, <1>4 DEF Stay, IInv, TypeOK, Records, Final
<1> QED
  BY <1>4, <1>5, <1>6, <1>7 DEF IInv

(***************************************************************************)
(* The handler returns: the job ends, or its next attempt waits.           *)
(***************************************************************************)
LEMMA FinishKeeps ==
  ASSUME IInv, NEW w \in Workers, worker[w] \in {"handling", "hung"}, NEW s \in Final,
         Finish(w, s), Release(w), UNCHANGED <<enqueue, sending, phase, runs>>
  PROVE  IInv'
<1> DEFINE j == held[w].job
<1>1. /\ status' = [status EXCEPT ![j] = s] /\ old' = [old EXCEPT ![j] = FALSE]
      /\ outcome' = [outcome EXCEPT ![j] = s]
      /\ held' = [held EXCEPT ![w] = NoItem] /\ worker' = [worker EXCEPT ![w] = "select"]
      /\ UNCHANGED <<enqueue, queue, waiting, sending, phase, runs>>
  BY DEF Finish, SetStatus, Release
<1>2. /\ held[w] # NoItem /\ j \in Jobs /\ Held(j) /\ ~InQueue(j) /\ ~Waits(j) /\ ~Sends(j)
      /\ enqueue[j] \in {"sent", "accepted"}
  BY HeldFacts
<1>3. \A v \in Workers : v # w /\ held[v] # NoItem => held[v].job # j
  BY <1>2 DEF IInv, Exclusive
<1> HIDE DEF j
<1>4. \A k \in Jobs : /\ Held(k)' <=> (Held(k) /\ k # j)
                      /\ (InQueue(k)' <=> InQueue(k)) /\ (Waits(k)' <=> Waits(k)) /\ (Sends(k)' <=> Sends(k))
  <2> SUFFICES ASSUME NEW k \in Jobs
               PROVE  /\ Held(k)' <=> (Held(k) /\ k # j)
                      /\ (InQueue(k)' <=> InQueue(k)) /\ (Waits(k)' <=> Waits(k)) /\ (Sends(k)' <=> Sends(k))
    OBVIOUS
  <2>1. \A v \in Workers : held'[v] = IF v = w THEN NoItem ELSE held[v]
    BY <1>1 DEF IInv, TypeOK
  <2>2. Held(k)' <=> (Held(k) /\ k # j)
    BY <1>3, <2>1 DEF Held, j
  <2> QED
    BY <1>1, <2>2 DEF InQueue, Waits, Sends
<1>5. TypeOK'
  BY <1>1, <1>2 DEF IInv, TypeOK, Statuses, Final
<1>6. Exclusive'
  <2>1. \A u, v \in Workers :
           held'[u] # NoItem /\ held'[v] # NoItem /\ held'[u].job = held'[v].job => u = v
    BY <1>1 DEF IInv, TypeOK, Exclusive
  <2> QED
    BY <1>1, <1>4, <2>1 DEF IInv, Exclusive
<1>7. Location'
  BY <1>1, <1>2, <1>4 DEF IInv, TypeOK, Location, Somewhere, Final
<1>8. Counting'
  BY <1>1 DEF IInv, TypeOK, Counting
<1>9. Records'
  BY <1>1, <1>2, <1>4 DEF IInv, TypeOK, Records, Somewhere, Final
<1> QED
  BY <1>5, <1>6, <1>7, <1>8, <1>9 DEF IInv

LEMMA ScheduleRetryKeeps ==
  ASSUME IInv, NEW w \in Workers, worker[w] \in {"handling", "hung"},
         held[w].attempts + 1 <= MaxRetries,
         ScheduleRetry(w), Release(w), UNCHANGED <<enqueue, sending, phase, runs>>
  PROVE  IInv'
<1> DEFINE j == held[w].job
           x == NextAttempt(held[w])
<1>1. /\ status' = [status EXCEPT ![j] = "retrying"] /\ old' = [old EXCEPT ![j] = FALSE]
      /\ waiting' = waiting \cup {x}
      /\ held' = [held EXCEPT ![w] = NoItem] /\ worker' = [worker EXCEPT ![w] = "select"]
      /\ UNCHANGED <<enqueue, queue, sending, phase, runs, outcome>>
  BY DEF ScheduleRetry, SetStatus, Release
<1>2. /\ held[w] # NoItem /\ held[w] \in Items /\ j \in Jobs /\ Held(j) /\ ~InQueue(j) /\ ~Waits(j) /\ ~Sends(j)
      /\ enqueue[j] \in {"sent", "accepted"} /\ outcome[j] = "none"
  BY HeldFacts
<1>3. \A v \in Workers : v # w /\ held[v] # NoItem => held[v].job # j
  BY <1>2 DEF IInv, Exclusive
<1>4. x \in Items /\ x.job = j /\ x.attempts = held[w].attempts + 1
  BY <1>2, JobQueueAssumption DEF NextAttempt, Items
<1>5. runs[j] = x.attempts
  BY <1>4 DEF IInv, Counting
<1> HIDE DEF j, x
<1>6. \A k \in Jobs : /\ Held(k)' <=> (Held(k) /\ k # j)
                      /\ Waits(k)' <=> (Waits(k) \/ k = j)
                      /\ (InQueue(k)' <=> InQueue(k)) /\ (Sends(k)' <=> Sends(k))
  <2> SUFFICES ASSUME NEW k \in Jobs
               PROVE  /\ Held(k)' <=> (Held(k) /\ k # j)
                      /\ Waits(k)' <=> (Waits(k) \/ k = j)
                      /\ (InQueue(k)' <=> InQueue(k)) /\ (Sends(k)' <=> Sends(k))
    OBVIOUS
  <2>1. \A v \in Workers : held'[v] = IF v = w THEN NoItem ELSE held[v]
    BY <1>1 DEF IInv, TypeOK
  <2>2. Held(k)' <=> (Held(k) /\ k # j)
    BY <1>3, <2>1 DEF Held, j
  <2>3. Waits(k)' <=> (Waits(k) \/ k = j)
    BY <1>1, <1>4 DEF Waits
  <2> QED
    BY <1>1, <2>2, <2>3 DEF InQueue, Sends
<1>7. TypeOK'
  BY <1>1, <1>2, <1>4 DEF IInv, TypeOK, Statuses
<1>8. Exclusive'
  <2>1. \A u, v \in Workers :
           held'[u] # NoItem /\ held'[v] # NoItem /\ held'[u].job = held'[v].job => u = v
    BY <1>1 DEF IInv, TypeOK, Exclusive
  <2>2. \A y, z \in waiting' : y.job = z.job => y = z
    BY <1>1, <1>2, <1>4 DEF IInv, Exclusive, Waits
  <2>3. \A i, k \in 1 .. Len(queue') : queue'[i].job = queue'[k].job => i = k
    BY <1>1 DEF IInv, Exclusive
  <2>4. \A y, z \in sending' : y.job = z.job => y = z
    BY <1>1 DEF IInv, Exclusive
  <2>5. \A k \in Jobs : /\ InQueue(k)' => ~Held(k)' /\ ~Waits(k)' /\ ~Sends(k)'
                        /\ Held(k)' => ~Waits(k)' /\ ~Sends(k)'
                        /\ Waits(k)' => ~Sends(k)'
    BY <1>2, <1>6 DEF IInv, Exclusive
  <2> QED
    BY <2>1, <2>2, <2>3, <2>4, <2>5 DEF Exclusive
<1>9. Location'
  BY <1>1, <1>2, <1>6 DEF IInv, Location, Somewhere
<1>10. Counting'
  <2>1. \A y \in (waiting \cup sending)' : runs[y.job] = y.attempts
    BY <1>1, <1>4, <1>5 DEF IInv, Counting
  <2> QED
    BY <1>1, <2>1 DEF IInv, TypeOK, Counting
<1>11. Records'
  BY <1>1, <1>2, <1>6 DEF IInv, TypeOK, Records, Somewhere, Final
<1> QED
  BY <1>7, <1>8, <1>9, <1>10, <1>11 DEF IInv

LEMMA HandlerReturns ==
  ASSUME IInv, NEW w \in Workers, HandlerSucceeds(w) \/ HandlerFails(w) \/ HungIsKilled(w)
  PROVE  IInv'
<1>1. CASE HandlerSucceeds(w)
  BY <1>1, FinishKeeps DEF HandlerSucceeds, Final
<1>2. CASE worker[w] \in {"handling", "hung"} /\ HandlerReturnsError(w)
  <2>1. Release(w) /\ UNCHANGED <<enqueue, sending, phase, runs>>
    BY <1>2 DEF HandlerReturnsError
  <2>2. CASE held[w].attempts + 1 > MaxRetries /\ Finish(w, "failed")
    BY <1>2, <2>1, <2>2, FinishKeeps DEF Final
  <2>3. CASE held[w].attempts + 1 <= MaxRetries /\ ScheduleRetry(w)
    BY <1>2, <2>1, <2>3, ScheduleRetryKeeps
  <2> QED
    BY <1>2, <2>2, <2>3 DEF HandlerReturnsError
<1> QED
  BY <1>1, <1>2 DEF HandlerFails, HungIsKilled

(***************************************************************************)
(* The goroutine of a retry.                                               *)
(***************************************************************************)
LEMMA RetryFacts ==
  ASSUME IInv, NEW x \in waiting \cup sending
  PROVE  /\ x \in Items /\ x.job \in Jobs /\ Somewhere(x.job)
         /\ enqueue[x.job] \in {"sent", "accepted"} /\ outcome[x.job] = "none"
         /\ ~InQueue(x.job) /\ ~Held(x.job)
<1>1. x \in Items /\ x.job \in Jobs
  BY DEF IInv, TypeOK, Items
<1>2. Waits(x.job) \/ Sends(x.job)
  BY DEF Waits, Sends
<1> QED
  BY <1>1, <1>2 DEF IInv, Exclusive, Location, Somewhere

LEMMA TimerFiresKeeps ==
  ASSUME IInv, NEW x \in waiting, TimerFires(x)
  PROVE  IInv'
<1> DEFINE j == x.job
<1>1. /\ waiting' = waiting \ {x} /\ sending' = sending \cup {x}
      /\ UNCHANGED <<enqueue, queue, status, old, worker, held, phase, runs, outcome>>
  BY DEF TimerFires, records
<1>2. x \in Items /\ j \in Jobs /\ Somewhere(j) /\ ~InQueue(j) /\ ~Held(j)
  BY RetryFacts
<1>3. Waits(j) /\ ~Sends(j)
  <2>1. Waits(j)
    BY DEF Waits
  <2> QED
    BY <1>2, <2>1 DEF IInv, Exclusive
<1>4. \A y \in waiting : y.job = j => y = x
  BY DEF IInv, Exclusive
<1>5. \A k \in Jobs : /\ Waits(k)' <=> (Waits(k) /\ k # j)
                      /\ Sends(k)' <=> (Sends(k) \/ k = j)
                      /\ (InQueue(k)' <=> InQueue(k)) /\ (Held(k)' <=> Held(k))
  <2> SUFFICES ASSUME NEW k \in Jobs
               PROVE  /\ Waits(k)' <=> (Waits(k) /\ k # j)
                      /\ Sends(k)' <=> (Sends(k) \/ k = j)
                      /\ (InQueue(k)' <=> InQueue(k)) /\ (Held(k)' <=> Held(k))
    OBVIOUS
  <2>1. Waits(k)' <=> (Waits(k) /\ k # j)
    BY <1>1, <1>4 DEF Waits
  <2>2. Sends(k)' <=> (Sends(k) \/ k = j)
    BY <1>1 DEF Sends
  <2> QED
    BY <1>1, <2>1, <2>2 DEF InQueue, Held
<1>6. TypeOK'
  BY <1>1, <1>2 DEF IInv, TypeOK
<1>7. Exclusive'
  <2>1. \A y, z \in sending' : y.job = z.job => y = z
    BY <1>1, <1>3 DEF IInv, Exclusive, Sends
  <2>2. \A y, z \in waiting' : y.job = z.job => y = z
    BY <1>1 DEF IInv, Exclusive
  <2>3. \A k \in Jobs : /\ InQueue(k)' => ~Held(k)' /\ ~Waits(k)' /\ ~Sends(k)'
                        /\ Held(k)' => ~Waits(k)' /\ ~Sends(k)'
                        /\ Waits(k)' => ~Sends(k)'
    BY <1>2, <1>3, <1>5 DEF IInv, Exclusive
  <2> QED
    BY <1>1, <2>1, <2>2, <2>3 DEF IInv, Exclusive
<1>8. \A k \in Jobs : Somewhere(k)' <=> Somewhere(k)
  BY <1>3, <1>5 DEF Somewhere
<1>9. Location'
  BY <1>1, <1>8 DEF IInv, Location
<1>10. Counting'
  BY <1>1 DEF IInv, Counting
<1>11. Records'
  BY <1>1, <1>8 DEF IInv, Records
<1> QED
  BY <1>6, <1>7, <1>9, <1>10, <1>11 DEF IInv

LEMMA ResendKeeps ==
  ASSUME IInv, NEW x \in sending, Resend(x)
  PROVE  IInv'
<1> DEFINE j == x.job
           n == Len(queue)
<1>1. /\ n < Buffer /\ sending' = sending \ {x} /\ queue' = Append(queue, x)
      /\ UNCHANGED <<enqueue, status, old, worker, held, waiting, phase, runs, outcome>>
  BY DEF Resend, records
<1>2. x \in Items /\ j \in Jobs /\ Somewhere(j) /\ ~InQueue(j) /\ ~Held(j)
  BY RetryFacts
<1>3. Sends(j) /\ ~Waits(j)
  <2>1. Sends(j)
    BY DEF Sends
  <2> QED
    BY <1>2, <2>1 DEF IInv, Exclusive
<1>4. \A y \in sending : y.job = j => y = x
  BY DEF IInv, Exclusive
<1>5. /\ queue' \in Seq(Items) /\ Len(queue') = n + 1 /\ n \in Nat /\ queue'[n + 1] = x
      /\ \A i \in 1 .. n : queue'[i] = queue[i]
  BY <1>1, <1>2, AppendFacts DEF IInv, TypeOK
<1>6. \A k \in Jobs : /\ InQueue(k)' <=> (InQueue(k) \/ k = j)
                      /\ Sends(k)' <=> (Sends(k) /\ k # j)
                      /\ (Waits(k)' <=> Waits(k)) /\ (Held(k)' <=> Held(k))
  <2> SUFFICES ASSUME NEW k \in Jobs
               PROVE  /\ InQueue(k)' <=> (InQueue(k) \/ k = j)
                      /\ Sends(k)' <=> (Sends(k) /\ k # j)
                      /\ (Waits(k)' <=> Waits(k)) /\ (Held(k)' <=> Held(k))
    OBVIOUS
  <2>1. InQueue(k)' <=> (InQueue(k) \/ k = j)
    BY <1>5 DEF InQueue
  <2>2. Sends(k)' <=> (Sends(k) /\ k # j)
    BY <1>1, <1>4 DEF Sends
  <2> QED
    BY <1>1, <2>1, <2>2 DEF Waits, Held
<1>7. TypeOK'
  BY <1>1, <1>5, JobQueueAssumption DEF IInv, TypeOK
<1>8. Exclusive'
  <2>1. \A i, k \in 1 .. n + 1 : queue'[i].job = queue'[k].job => i = k
    BY <1>2, <1>5 DEF IInv, Exclusive, InQueue
  <2>2. \A y, z \in sending' : y.job = z.job => y = z
    BY <1>1 DEF IInv, Exclusive
  <2>3. \A k \in Jobs : /\ InQueue(k)' => ~Held(k)' /\ ~Waits(k)' /\ ~Sends(k)'
                        /\ Held(k)' => ~Waits(k)' /\ ~Sends(k)'
                        /\ Waits(k)' => ~Sends(k)'
    BY <1>2, <1>3, <1>6 DEF IInv, Exclusive
  <2> QED
    BY <1>1, <1>5, <2>1, <2>2, <2>3 DEF IInv, Exclusive
<1>9. \A k \in Jobs : Somewhere(k)' <=> Somewhere(k)
  BY <1>3, <1>6 DEF Somewhere
<1>10. Location'
  BY <1>1, <1>9 DEF IInv, Location
<1>11. Counting'
  <2>1. runs[j] = x.attempts
    BY DEF IInv, Counting
  <2>2. \A i \in 1 .. n + 1 : runs[queue'[i].job] = queue'[i].attempts
    BY <1>5, <2>1 DEF IInv, Counting
  <2> QED
    BY <1>1, <1>5, <2>2 DEF IInv, Counting
<1>12. Records'
  BY <1>1, <1>9 DEF IInv, Records
<1> QED
  BY <1>7, <1>8, <1>10, <1>11, <1>12 DEF IInv

LEMMA AbandonKeeps ==
  ASSUME IInv, NEW x \in waiting \cup sending, Abandon(x)
  PROVE  IInv'
<1> DEFINE j == x.job
<1>1. /\ waiting' = waiting \ {x} /\ sending' = sending \ {x}
      /\ outcome' = [outcome EXCEPT ![j] = "abandoned"]
      /\ UNCHANGED <<enqueue, queue, status, old, worker, held, phase, runs>>
  BY DEF Abandon, records
<1>2. /\ x \in Items /\ j \in Jobs /\ ~InQueue(j) /\ ~Held(j)
      /\ enqueue[j] \in {"sent", "accepted"}
  BY RetryFacts
<1>3. /\ \A y \in waiting : y.job = j => y = x
      /\ \A y \in sending : y.job = j => y = x
  BY <1>2 DEF IInv, Exclusive, Waits, Sends
<1>4. \A k \in Jobs : /\ Waits(k)' <=> (Waits(k) /\ k # j)
                      /\ Sends(k)' <=> (Sends(k) /\ k # j)
                      /\ (InQueue(k)' <=> InQueue(k)) /\ (Held(k)' <=> Held(k))
  <2> SUFFICES ASSUME NEW k \in Jobs
               PROVE  /\ Waits(k)' <=> (Waits(k) /\ k # j)
                      /\ Sends(k)' <=> (Sends(k) /\ k # j)
                      /\ (InQueue(k)' <=> InQueue(k)) /\ (Held(k)' <=> Held(k))
    OBVIOUS
  <2>1. Waits(k)' <=> (Waits(k) /\ k # j)
    BY <1>1, <1>3 DEF Waits
  <2>2. Sends(k)' <=> (Sends(k) /\ k # j)
    BY <1>1, <1>3 DEF Sends
  <2> QED
    BY <1>1, <2>1, <2>2 DEF InQueue, Held
<1>5. TypeOK'
  BY <1>1 DEF IInv, TypeOK
<1>6. Exclusive'
  <2>1. \A y, z \in waiting' : y.job = z.job => y = z
    BY <1>1 DEF IInv, Exclusive
  <2>2. \A y, z \in sending' : y.job = z.job => y = z
    BY <1>1 DEF IInv, Exclusive
  <2> QED
    BY <1>1, <1>4, <2>1, <2>2 DEF IInv, Exclusive
<1>7. Location'
  BY <1>1, <1>2, <1>4 DEF IInv, TypeOK, Location, Somewhere
<1>8. Counting'
  BY <1>1 DEF IInv, Counting
<1>9. Records'
  BY <1>1, <1>2, <1>4 DEF IInv, TypeOK, Records, Somewhere
<1> QED
  BY <1>5, <1>6, <1>7, <1>8, <1>9 DEF IInv

-----------------------------------------------------------------------------

LEMMA NextInv == IInv /\ [Next]_vars => IInv'
<1> SUFFICES ASSUME IInv, [Next]_vars PROVE IInv'
  OBVIOUS
<1>1. ASSUME NEW j \in Jobs, EnqueueStep(j) \/ Age(j) PROVE IInv'
  BY <1>1, SendKeeps, EnqueueReturns, RecordStays DEF EnqueueStep
<1>2. ASSUME NEW w \in Workers, WorkerStep(w) \/ HandlerHangs(w) \/ HungIsKilled(w) PROVE IInv'
  BY <1>2, ReceiveKeeps, WorkerStays, SetRunningKeeps, HandlerReturns DEF WorkerStep
<1>3. ASSUME NEW x \in waiting \cup sending, RetryStep(x) PROVE IInv'
  <2>1. CASE TimerFires(x)
    BY <2>1, TimerFiresKeeps DEF TimerFires
  <2>2. CASE Resend(x)
    BY <2>2, ResendKeeps DEF Resend
  <2>3. CASE Abandon(x)
    BY <2>3, AbandonKeeps
  <2> QED
    BY <1>3, <2>1, <2>2, <2>3 DEF RetryStep
<1>4. CASE Signal \/ Stop \/ PruneOlderThan
  BY <1>4, RecordStays
<1>5. CASE UNCHANGED vars
  <2>1. Stay /\ UNCHANGED <<enqueue, status, old, worker, phase, runs>>
    BY <1>5 DEF vars, records, Stay
  <2>2. Exclusive' /\ Location' /\ \A j \in Jobs : Somewhere(j)' <=> Somewhere(j)
    BY <2>1, StayFacts
  <2> QED
    BY <2>1, <2>2 DEF Stay, IInv, TypeOK, Counting, Records
<1> QED
  BY <1>1, <1>2, <1>3, <1>4, <1>5 DEF Next

LEMMA AlwaysInv == Spec => []IInv
  BY InitInv, NextInv, PTL DEF Spec

(***************************************************************************)
(* The copies of a job, counted by Places.                                 *)
(***************************************************************************)
LEMMA NoPlace ==
  ASSUME NEW j \in Jobs PROVE Places(j) # {} <=> Somewhere(j)
<1>1. InQueue(j) <=> {<<"queue", i>> : i \in {i \in 1 .. Len(queue) : queue[i].job = j}} # {}
  BY DEF InQueue
<1>2. Held(j) <=> {<<"worker", w>> : w \in {w \in Workers : held[w] # NoItem /\ held[w].job = j}} # {}
  BY DEF Held
<1>3. Waits(j) <=> {<<"waiting", x>> : x \in {x \in waiting : x.job = j}} # {}
  BY DEF Waits
<1>4. Sends(j) <=> {<<"sending", x>> : x \in {x \in sending : x.job = j}} # {}
  BY DEF Sends
<1> QED
  BY <1>1, <1>2, <1>3, <1>4 DEF Places, Somewhere

LEMMA ExclusivePlaces == IInv => OnePlace
<1> SUFFICES ASSUME IInv, NEW j \in Jobs, NEW p \in Places(j), NEW q \in Places(j) PROVE p = q
  BY DEF OnePlace
<1> DEFINE InQ(r) == \E i \in 1 .. Len(queue) : queue[i].job = j /\ r = <<"queue", i>>
           InW(r) == \E w \in Workers : held[w] # NoItem /\ held[w].job = j /\ r = <<"worker", w>>
           InT(r) == \E x \in waiting : x.job = j /\ r = <<"waiting", x>>
           InS(r) == \E x \in sending : x.job = j /\ r = <<"sending", x>>
<1>1. \A r \in Places(j) : InQ(r) \/ InW(r) \/ InT(r) \/ InS(r)
  BY DEF Places
<1>2. \A r : /\ InQ(r) => InQueue(j)
             /\ (InW(r) => Held(j)) /\ (InT(r) => Waits(j)) /\ (InS(r) => Sends(j))
  BY DEF InQueue, Held, Waits, Sends
<1>3. InQ(p) /\ InQ(q) => p = q
  BY DEF IInv, Exclusive
<1>4. InW(p) /\ InW(q) => p = q
  BY DEF IInv, Exclusive
<1>5. InT(p) /\ InT(q) => p = q
  BY DEF IInv, Exclusive
<1>6. InS(p) /\ InS(q) => p = q
  BY DEF IInv, Exclusive
<1>7. /\ InQueue(j) => ~Held(j) /\ ~Waits(j) /\ ~Sends(j)
      /\ Held(j) => ~Waits(j) /\ ~Sends(j)
      /\ Waits(j) => ~Sends(j)
  BY DEF IInv, Exclusive
<1> HIDE DEF InQ, InW, InT, InS
<1> QED
  BY <1>1, <1>2, <1>3, <1>4, <1>5, <1>6, <1>7

-----------------------------------------------------------------------------
(***************************************************************************)
(* Type correctness, with it that no attempt beyond MaxRetries is queued.  *)
(***************************************************************************)
THEOREM TypeCorrect == Spec => []TypeOK
  BY AlwaysInv, PTL DEF IInv

(***************************************************************************)
(* No job is ever in two places, so no two workers run it together.        *)
(***************************************************************************)
THEOREM JobInOnePlace == Spec => []OnePlace
  BY AlwaysInv, ExclusivePlaces, PTL

(***************************************************************************)
(* An accepted job is somewhere until it has ended, and nowhere after.     *)
(***************************************************************************)
THEOREM NoJobLost == Spec => []NotLost
<1>1. IInv => NotLost
  BY NoPlace DEF IInv, Location, NotLost
<1> QED
  BY <1>1, AlwaysInv, PTL

(***************************************************************************)
(* A handler is called at most MaxRetries + 1 times for one job.           *)
(***************************************************************************)
THEOREM RetriesBounded == Spec => []RunsBounded
<1>1. IInv => RunsBounded
  BY DEF IInv, Counting, RunsBounded
<1> QED
  BY <1>1, AlwaysInv, PTL

(***************************************************************************)
(* A record that says succeeded or failed is about a job nobody touches.   *)
(***************************************************************************)
THEOREM FinalIsFinal == Spec => []FinalRecordIsFinal
<1>1. IInv => FinalRecordIsFinal
  BY NoPlace DEF IInv, Records, FinalRecordIsFinal
<1> QED
  BY <1>1, AlwaysInv, PTL

(***************************************************************************)
(* Pruning never takes the record of a job that has not ended.             *)
(***************************************************************************)
THEOREM LiveJobKeepsRecord == Spec => []LiveJobHasRecord
<1>1. IInv => LiveJobHasRecord
  BY DEF IInv, Records, LiveJobHasRecord
<1> QED
  BY <1>1, AlwaysInv, PTL

-----------------------------------------------------------------------------
(***************************************************************************)
(* The refinement.  By Location the state JobPool sees of a job is a       *)
(* matter of its enqueue, its outcome and whether its handler runs.        *)
(***************************************************************************)
Accepted(j) == enqueue[j] \in {"sent", "accepted"}

Same(j) ==
    /\ Accepted(j)' <=> Accepted(j)
    /\ Running(j)' <=> Running(j)
    /\ outcome'[j] = outcome[j] /\ runs'[j] = runs[j]

StateByFlags ==
    \A j \in Jobs :
        PoolState(j) = IF outcome[j] \in Final THEN outcome[j]
                       ELSE IF outcome[j] = "abandoned" THEN "lost"
                       ELSE IF Running(j) THEN "running"
                       ELSE IF Accepted(j) THEN "waiting" ELSE "none"

LEMMA StateIs == IInv => StateByFlags
<1> SUFFICES ASSUME IInv, NEW j \in Jobs
             PROVE  PoolState(j) = IF outcome[j] \in Final THEN outcome[j]
                                   ELSE IF outcome[j] = "abandoned" THEN "lost"
                                   ELSE IF Running(j) THEN "running"
                                   ELSE IF Accepted(j) THEN "waiting" ELSE "none"
  BY DEF StateByFlags
<1>1. outcome[j] \in {"none", "succeeded", "failed", "abandoned"}
  BY DEF IInv, TypeOK
<1>2. outcome[j] = "none" => (Places(j) # {} <=> Accepted(j))
  BY NoPlace DEF IInv, Location, Accepted
<1> QED
  BY <1>1, <1>2 DEF PoolState, Final

LEMMA StateWas == StateByFlags => \A j \in Jobs : PoolState(j) \in {"none", "waiting", "running", "succeeded", "failed", "lost"}
  BY DEF StateByFlags, Final

LEMMA StateIsThen == IInv' => StateByFlags'
  BY StateIs, PTL

LEMMA SameJob ==
  ASSUME IInv, IInv', NEW j \in Jobs, Same(j)
  PROVE  PoolState(j)' = PoolState(j) /\ PoolTries(j)' = PoolTries(j)
<1>1. StateByFlags /\ StateByFlags'
  BY StateIs, StateIsThen
<1>2. PoolState(j)' = PoolState(j)
  BY <1>1 DEF StateByFlags, Same
<1>3. PoolTries(j)' = PoolTries(j)
  BY DEF PoolTries, Same
<1> QED
  BY <1>2, <1>3

\* A job that runs is held by a busy worker, and it alone holds it.
LEMMA RunningIs ==
  ASSUME IInv, NEW w \in Workers, worker[w] \in {"received", "handling", "hung"}
  PROVE  /\ Running(held[w].job) <=> worker[w] \in {"handling", "hung"}
         /\ \A v \in Workers : worker[v] \in {"handling", "hung"} /\ v # w => held[v].job # held[w].job
<1>1. \A v \in Workers : worker[v] \in {"handling", "hung"} => held[v] # NoItem
  BY DEF IInv, TypeOK
<1>2. held[w] # NoItem
  BY DEF IInv, TypeOK
<1>3. \A v \in Workers : worker[v] \in {"handling", "hung"} /\ v # w => held[v].job # held[w].job
  BY <1>1, <1>2 DEF IInv, Exclusive
<1> QED
  BY <1>3 DEF Running

LEMMA NotRunning ==
  ASSUME IInv, NEW j \in Jobs, ~Held(j)
  PROVE  ~Running(j)
  BY DEF IInv, TypeOK, Running, Held

(***************************************************************************)
(* What JobPool does not see.                                              *)
(***************************************************************************)
LEMMA HiddenStep ==
  ASSUME IInv, IInv', (phase' = "stopping") <=> (phase = "stopping"), \A j \in Jobs : Same(j)
  PROVE  UNCHANGED Pool!vars
<1>1. \A j \in Jobs : PoolState(j)' = PoolState(j) /\ PoolTries(j)' = PoolTries(j)
  BY SameJob
<1> QED
  BY <1>1 DEF Pool!vars

(***************************************************************************)
(* What it sees: one job changes.                                          *)
(***************************************************************************)
LEMMA OneJob ==
  ASSUME IInv, IInv', NEW j \in Jobs, \A k \in Jobs \ {j} : Same(k)
  PROVE  /\ [k \in Jobs |-> PoolState(k)]' = [[k \in Jobs |-> PoolState(k)] EXCEPT ![j] = PoolState(j)']
         /\ [k \in Jobs |-> PoolTries(k)]' = [[k \in Jobs |-> PoolTries(k)] EXCEPT ![j] = PoolTries(j)']
<1>1. \A k \in Jobs \ {j} : PoolState(k)' = PoolState(k) /\ PoolTries(k)' = PoolTries(k)
  BY SameJob
<1> QED
  BY <1>1

LEMMA SendImplements ==
  ASSUME IInv, IInv', NEW j \in Jobs, Send(j)
  PROVE  Pool!Accept(j)
<1>1. /\ enqueue[j] = "new" /\ enqueue' = [enqueue EXCEPT ![j] = "sent"]
      /\ UNCHANGED <<worker, held, phase, runs, outcome>>
  BY DEF Send, Called
<1>2. outcome[j] = "none" /\ ~Held(j) /\ runs[j] = 0
  BY <1>1 DEF IInv, Location, Somewhere, Counting
<1>3. ~Running(j) /\ ~Running(j)'
  BY <1>1, <1>2, NotRunning DEF Running
<1>4. Accepted(j)' /\ ~Accepted(j)
  BY <1>1 DEF Accepted, IInv, TypeOK
<1>5. StateByFlags /\ StateByFlags'
  BY StateIs, StateIsThen
<1>6. PoolState(j) = "none" /\ PoolState(j)' = "waiting"
  BY <1>1, <1>2, <1>3, <1>4, <1>5 DEF StateByFlags, Final
<1>7. PoolTries(j)' = PoolTries(j)
  BY <1>1, <1>3 DEF PoolTries
<1>8. \A k \in Jobs \ {j} : Same(k)
  BY <1>1 DEF Same, Accepted, Running, IInv, TypeOK
<1>9. [k \in Jobs |-> PoolState(k)]' = [[k \in Jobs |-> PoolState(k)] EXCEPT ![j] = "waiting"]
  BY <1>6, <1>8, OneJob
<1>10. [k \in Jobs |-> PoolTries(k)]' = [k \in Jobs |-> PoolTries(k)]
  <2>1. \A k \in Jobs : PoolTries(k)' = PoolTries(k)
    BY <1>7, <1>8, SameJob
  <2> QED
    BY <2>1
<1> QED
  BY <1>1, <1>6, <1>9, <1>10 DEF Pool!Accept

\* Fewer jobs run than there are workers when one of these runs none.
LEMMA RoomForOne ==
  ASSUME IInv, NEW w \in Workers, worker[w] = "received"
  PROVE  Cardinality({k \in Jobs : PoolState(k) = "running"}) < Cardinality(Workers)
<1> DEFINE R == {k \in Jobs : PoolState(k) = "running"}
           V == Workers \ {w}
           I == {held[v].job : v \in V}
<1>1. /\ IsFiniteSet(Workers) /\ IsFiniteSet(V) /\ Cardinality(V) = Cardinality(Workers) - 1
      /\ Cardinality(Workers) \in Nat
  BY JobQueueAssumption, FS_RemoveElement, FS_CardinalityType
<1>2. IsFiniteSet(I) /\ Cardinality(I) <= Cardinality(V)
  <2>1. [v \in V |-> held[v].job] \in Surjection(V, I)
    BY DEF Surjection
  <2> HIDE DEF V, I
  <2> QED
    BY <1>1, <2>1, FS_Surjection
<1>3. R \subseteq I
  <2>1. \A k \in R : Running(k)
    BY StateIs DEF StateByFlags, Final
  <2> QED
    BY <2>1 DEF Running
<1>4. Cardinality(R) <= Cardinality(I)
  BY <1>2, <1>3, FS_Subset
<1>5. Cardinality(R) \in Nat /\ Cardinality(I) \in Nat /\ Cardinality(V) \in Nat
  BY <1>1, <1>2, <1>3, FS_Subset, FS_CardinalityType
<1> QED
  BY <1>1, <1>2, <1>4, <1>5

LEMMA SetRunningImplements ==
  ASSUME IInv, IInv', NEW w \in Workers, NEW j, j = held[w].job, SetRunning(w)
  PROVE  j \in Jobs /\ Pool!Take(j)
<1>1. /\ worker[w] = "received" /\ worker' = [worker EXCEPT ![w] = "handling"]
      /\ runs' = [runs EXCEPT ![j] = @ + 1]
      /\ UNCHANGED <<enqueue, held, phase, outcome>>
  BY DEF SetRunning
<1>2. j \in Jobs /\ outcome[j] = "none" /\ Accepted(j) /\ ~Running(j)
  BY <1>1, HeldFacts, RunningIs DEF Accepted
<1>3. Running(j)' /\ Accepted(j)'
  BY <1>1, <1>2 DEF Running, Accepted, IInv, TypeOK
<1>4. StateByFlags /\ StateByFlags'
  BY StateIs, StateIsThen
<1>5. PoolState(j) = "waiting" /\ PoolState(j)' = "running"
  BY <1>1, <1>2, <1>3, <1>4 DEF StateByFlags, Final
<1>6. runs[j] \in Nat /\ runs'[j] = runs[j] + 1
  BY <1>1, <1>2 DEF IInv, TypeOK
<1>7. PoolTries(j)' = PoolTries(j)
  BY <1>1, <1>2, <1>3, <1>6 DEF PoolTries
<1>8. \A k \in Jobs \ {j} : Same(k)
  <2> SUFFICES ASSUME NEW k \in Jobs \ {j} PROVE Same(k)
    OBVIOUS
  <2>1. Running(k)' <=> Running(k)
    BY <1>1 DEF Running, IInv, TypeOK
  <2> QED
    BY <1>1, <2>1 DEF Same, Accepted, IInv, TypeOK
<1>9. [k \in Jobs |-> PoolState(k)]' = [[k \in Jobs |-> PoolState(k)] EXCEPT ![j] = "running"]
  BY <1>2, <1>5, <1>8, OneJob
<1>10. [k \in Jobs |-> PoolTries(k)]' = [k \in Jobs |-> PoolTries(k)]
  <2>1. \A k \in Jobs : PoolTries(k)' = PoolTries(k)
    BY <1>7, <1>8, SameJob
  <2> QED
    BY <2>1
<1>11. Cardinality({k \in Jobs : PoolState(k) = "running"}) < Cardinality(Workers)
  BY <1>1, RoomForOne
<1>12. {k \in Jobs : [i \in Jobs |-> PoolState(i)][k] = "running"} = {k \in Jobs : PoolState(k) = "running"}
  OBVIOUS
<1>13. Cardinality({k \in Jobs : [i \in Jobs |-> PoolState(i)][k] = "running"}) < Cardinality(Workers)
  BY <1>11, <1>12
<1>14. [i \in Jobs |-> PoolState(i)][j] = "waiting" /\ (phase' = "stopping") = (phase = "stopping")
  BY <1>1, <1>2, <1>5
<1>15. Pool!Cardinality({k \in Jobs : [i \in Jobs |-> PoolState(i)][k] = "running"}) < Cardinality(Workers)
  BY <1>13 DEF Pool!Cardinality, Cardinality
<1> QED
  BY <1>2, <1>9, <1>10, <1>15, <1>14 DEF Pool!Take

\* The handler is left: nobody runs the job any more, the others are as before.
LEMMA ReleaseFacts ==
  ASSUME IInv, NEW w \in Workers, worker[w] \in {"handling", "hung"}, Release(w),
         NEW j, j = held[w].job
  PROVE  /\ Running(j) /\ ~Running(j)'
         /\ \A k \in Jobs \ {j} : Running(k)' <=> Running(k)
<1>1. held' = [held EXCEPT ![w] = NoItem] /\ worker' = [worker EXCEPT ![w] = "select"]
  BY DEF Release
<1>2. /\ Running(j)
      /\ \A v \in Workers : worker[v] \in {"handling", "hung"} /\ v # w => held[v].job # j
  BY RunningIs
<1>3. \A v \in Workers : /\ worker'[v] = IF v = w THEN "select" ELSE worker[v]
                         /\ v # w => held'[v] = held[v]
  BY <1>1 DEF IInv, TypeOK
<1> QED
  BY <1>2, <1>3 DEF Running

LEMMA FinishImplements ==
  ASSUME IInv, IInv', NEW w \in Workers, worker[w] \in {"handling", "hung"}, NEW s \in Final,
         Finish(w, s), Release(w), UNCHANGED <<enqueue, sending, phase, runs>>,
         NEW j, j = held[w].job
  PROVE  PoolState(j) = "running" /\ Pool!End(j, s)
<1>1. outcome' = [outcome EXCEPT ![j] = s]
  BY DEF Finish
<1>2. j \in Jobs /\ outcome[j] = "none" /\ Running(j)
  BY HeldFacts, ReleaseFacts
<1>3. StateByFlags /\ StateByFlags'
  BY StateIs, StateIsThen
<1>4. outcome'[j] = s
  BY <1>1, <1>2 DEF IInv, TypeOK
<1>5. PoolState(j) = "running" /\ PoolState(j)' = s
  BY <1>2, <1>3, <1>4 DEF StateByFlags, Final
<1>6. PoolTries(j)' = 0
  BY <1>4 DEF PoolTries, Final
<1>7. \A k \in Jobs \ {j} : Same(k)
  BY <1>1, ReleaseFacts DEF Same, Accepted, IInv, TypeOK
<1>8. /\ [k \in Jobs |-> PoolState(k)]' = [[k \in Jobs |-> PoolState(k)] EXCEPT ![j] = s]
      /\ [k \in Jobs |-> PoolTries(k)]' = [[k \in Jobs |-> PoolTries(k)] EXCEPT ![j] = 0]
  BY <1>2, <1>5, <1>6, <1>7, OneJob
<1> QED
  BY <1>5, <1>8 DEF Pool!End

LEMMA ScheduleRetryImplements ==
  ASSUME IInv, IInv', NEW w \in Workers, worker[w] \in {"handling", "hung"},
         held[w].attempts + 1 <= MaxRetries,
         ScheduleRetry(w), Release(w), UNCHANGED <<enqueue, sending, phase, runs>>,
         NEW j, j = held[w].job
  PROVE  Pool!Retry(j)
<1>1. outcome' = outcome
  BY DEF ScheduleRetry
<1>2. /\ j \in Jobs /\ outcome[j] = "none" /\ Running(j) /\ ~Running(j)' /\ Accepted(j)
      /\ held[w].attempts \in 0 .. MaxRetries
  BY HeldFacts, ReleaseFacts DEF Accepted
<1>3. runs[j] = held[w].attempts + 1
  BY DEF IInv, Counting
<1>4. StateByFlags /\ StateByFlags'
  BY StateIs, StateIsThen
<1>5. PoolState(j) = "running" /\ PoolState(j)' = "waiting"
  BY <1>1, <1>2, <1>4 DEF StateByFlags, Final, Accepted
<1>6. PoolTries(j) = held[w].attempts /\ PoolTries(j)' = PoolTries(j) + 1
  BY <1>1, <1>2, <1>3 DEF PoolTries
<1>7. \A k \in Jobs \ {j} : Same(k)
  BY <1>1, ReleaseFacts DEF Same, Accepted, IInv, TypeOK
<1>8. /\ [k \in Jobs |-> PoolState(k)]' = [[k \in Jobs |-> PoolState(k)] EXCEPT ![j] = "waiting"]
      /\ [k \in Jobs |-> PoolTries(k)]' = [[k \in Jobs |-> PoolTries(k)] EXCEPT ![j] = PoolTries(j) + 1]
  BY <1>2, <1>5, <1>6, <1>7, OneJob
<1>9. PoolTries(j) < MaxRetries
  BY <1>2, <1>6, JobQueueAssumption
<1> QED
  BY <1>2, <1>5, <1>8, <1>9 DEF Pool!Retry

LEMMA HandlerImplements ==
  ASSUME IInv, IInv', NEW w \in Workers, NEW j, j = held[w].job,
         HandlerSucceeds(w) \/ HandlerFails(w) \/ HungIsKilled(w)
  PROVE  j \in Jobs /\ (Pool!Succeed(j) \/ Pool!GiveUp(j) \/ Pool!Retry(j))
<1>1. /\ worker[w] \in {"handling", "hung"} /\ Release(w) /\ UNCHANGED <<enqueue, sending, phase, runs>>
      /\ \/ Finish(w, "succeeded")
         \/ held[w].attempts + 1 > MaxRetries /\ Finish(w, "failed")
         \/ held[w].attempts + 1 <= MaxRetries /\ ScheduleRetry(w)
  BY DEF HandlerSucceeds, HandlerFails, HungIsKilled, HandlerReturnsError
<1>2. /\ j \in Jobs /\ outcome[j] = "none" /\ Running(j) /\ held[w].attempts \in 0 .. MaxRetries
      /\ [k \in Jobs |-> PoolState(k)][j] = PoolState(j)
      /\ [k \in Jobs |-> PoolTries(k)][j] = PoolTries(j)
  BY <1>1, HeldFacts, ReleaseFacts
<1>3. CASE Finish(w, "succeeded")
  <2>1. PoolState(j) = "running" /\ Pool!End(j, "succeeded")
    BY <1>1, <1>3, FinishImplements DEF Final
  <2> QED
    BY <1>2, <2>1 DEF Pool!Succeed
<1>4. CASE held[w].attempts + 1 > MaxRetries /\ Finish(w, "failed")
  <2>1. PoolState(j) = "running" /\ Pool!End(j, "failed")
    BY <1>1, <1>4, FinishImplements DEF Final
  <2>2. runs[j] = held[w].attempts + 1
    BY <1>1 DEF IInv, Counting
  <2>3. PoolTries(j) = MaxRetries
    BY <1>2, <1>4, <2>2, JobQueueAssumption DEF PoolTries
  <2> QED
    BY <1>2, <2>1, <2>3 DEF Pool!GiveUp
<1>5. CASE held[w].attempts + 1 <= MaxRetries /\ ScheduleRetry(w)
  BY <1>1, <1>2, <1>5, ScheduleRetryImplements
<1> QED
  BY <1>1, <1>2, <1>3, <1>4, <1>5

LEMMA AbandonImplements ==
  ASSUME IInv, IInv', NEW x \in waiting \cup sending, Abandon(x)
  PROVE  x.job \in Jobs /\ Pool!Abandon(x.job)
<1> DEFINE j == x.job
<1>1. /\ phase = "stopping" /\ outcome' = [outcome EXCEPT ![j] = "abandoned"]
      /\ UNCHANGED <<enqueue, worker, held, phase, runs>>
  BY DEF Abandon
<1>2. j \in Jobs /\ outcome[j] = "none" /\ Accepted(j) /\ ~Running(j)
  BY RetryFacts, NotRunning DEF Accepted
<1>3. StateByFlags /\ StateByFlags'
  BY StateIs, StateIsThen
<1>4. outcome'[j] = "abandoned"
  BY <1>1, <1>2 DEF IInv, TypeOK
<1>5. PoolState(j) = "waiting" /\ PoolState(j)' = "lost"
  BY <1>2, <1>3, <1>4 DEF StateByFlags, Final
<1>6. PoolTries(j)' = 0
  BY <1>4 DEF PoolTries
<1>7. \A k \in Jobs \ {j} : Same(k)
  BY <1>1 DEF Same, Accepted, Running, IInv, TypeOK
<1>8. /\ [k \in Jobs |-> PoolState(k)]' = [[k \in Jobs |-> PoolState(k)] EXCEPT ![j] = "lost"]
      /\ [k \in Jobs |-> PoolTries(k)]' = [[k \in Jobs |-> PoolTries(k)] EXCEPT ![j] = 0]
  BY <1>2, <1>5, <1>6, <1>7, OneJob
<1> QED
  BY <1>1, <1>2, <1>5, <1>8 DEF Pool!Abandon, Pool!End

(***************************************************************************)
(* The steps JobPool sees nothing of.                                      *)
(***************************************************************************)
LEMMA UnseenSteps ==
  ASSUME IInv, IInv',
         \/ \E j \in Jobs : SetPending(j) \/ Full(j) \/ SetRefused(j) \/ Age(j)
         \/ \E w \in Workers : Receive(w) \/ Exit(w) \/ HandlerHangs(w)
         \/ \E x \in waiting \cup sending : TimerFires(x) \/ Resend(x)
         \/ Signal \/ PruneOlderThan \/ UNCHANGED vars
  PROVE  UNCHANGED Pool!vars
<1>1. UNCHANGED <<runs, outcome>>
  BY DEF SetPending, Full, SetRefused, Age, Receive, Exit, HandlerHangs, TimerFires, Resend,
         Signal, PruneOlderThan, vars
<1>2. (phase' = "stopping") <=> (phase = "stopping")
  BY DEF SetPending, Full, SetRefused, Age, Receive, Exit, HandlerHangs, TimerFires, Resend,
         Signal, PruneOlderThan, vars
<1>3. \A j \in Jobs : Accepted(j)' <=> Accepted(j)
  BY DEF SetPending, Full, SetRefused, Called, Age, Receive, Exit, HandlerHangs, TimerFires, Resend,
         Signal, PruneOlderThan, vars, Accepted, IInv, TypeOK
<1>4. \A v \in Workers :
         /\ worker'[v] \in {"handling", "hung"} <=> worker[v] \in {"handling", "hung"}
         /\ worker[v] \in {"handling", "hung"} => held'[v] = held[v]
  BY DEF SetPending, Full, SetRefused, Age, Receive, Exit, HandlerHangs, TimerFires, Resend,
         Signal, PruneOlderThan, vars, IInv, TypeOK
<1>5. \A j \in Jobs : Running(j)' <=> Running(j)
  BY <1>4 DEF Running
<1> QED
  BY <1>1, <1>2, <1>3, <1>5, HiddenStep DEF Same

LEMMA StopImplements == Stop => Pool!Close
  BY DEF Stop, Pool!Close, PoolState, PoolTries, Running, Places

LEMMA InitImplements == Init => Pool!Init
<1> SUFFICES ASSUME Init PROVE Pool!Init
  OBVIOUS
<1>1. IInv
  BY InitInv
<1>2. StateByFlags
  BY <1>1, StateIs
<1>3. \A j \in Jobs : ~Running(j)
  BY DEF Init, Running
<1>4. \A j \in Jobs : PoolState(j) = "none" /\ PoolTries(j) = 0
  BY <1>2, <1>3 DEF Init, StateByFlags, Accepted, PoolTries, Final
<1> QED
  BY <1>4 DEF Init, Pool!Init

LEMMA StepImplements == IInv /\ IInv' /\ [Next]_vars => [Pool!Next]_(Pool!vars)
<1> SUFFICES ASSUME IInv, IInv', [Next]_vars PROVE Pool!Next \/ UNCHANGED Pool!vars
  OBVIOUS
<1>1. ASSUME NEW j \in Jobs, EnqueueStep(j) \/ Age(j) PROVE Pool!Next \/ UNCHANGED Pool!vars
  <2>1. CASE Send(j)
    BY <2>1, SendImplements DEF Pool!Next
  <2>2. CASE SetPending(j) \/ Full(j) \/ SetRefused(j) \/ Age(j)
    BY <2>2, UnseenSteps
  <2> QED
    BY <1>1, <2>1, <2>2 DEF EnqueueStep
<1>2. ASSUME NEW w \in Workers, WorkerStep(w) \/ HandlerHangs(w) \/ HungIsKilled(w)
      PROVE  Pool!Next \/ UNCHANGED Pool!vars
  <2>1. CASE SetRunning(w)
    BY <2>1, SetRunningImplements DEF Pool!Next
  <2>2. CASE HandlerSucceeds(w) \/ HandlerFails(w) \/ HungIsKilled(w)
    BY <2>2, HandlerImplements DEF Pool!Next
  <2>3. CASE Receive(w) \/ Exit(w) \/ HandlerHangs(w)
    BY <2>3, UnseenSteps
  <2> QED
    BY <1>2, <2>1, <2>2, <2>3 DEF WorkerStep
<1>3. ASSUME NEW x \in waiting \cup sending, RetryStep(x) PROVE Pool!Next \/ UNCHANGED Pool!vars
  <2>1. CASE Abandon(x)
    BY <2>1, AbandonImplements DEF Pool!Next
  <2>2. CASE TimerFires(x) \/ Resend(x)
    BY <2>2, UnseenSteps
  <2> QED
    BY <1>3, <2>1, <2>2 DEF RetryStep
<1>4. CASE Stop
  BY <1>4, StopImplements DEF Pool!Next
<1>5. CASE Signal \/ PruneOlderThan \/ UNCHANGED vars
  BY <1>5, UnseenSteps
<1> QED
  BY <1>1, <1>2, <1>3, <1>4, <1>5 DEF Next

(***************************************************************************)
(* The queue, its workers and its retry goroutines implement JobPool, so   *)
(* that what MirrorPipeline assumes of its jobs is what they promise.      *)
(***************************************************************************)
THEOREM QueueImplementsPool == Spec => ImplementsJobPool
  BY InitImplements, StepImplements, AlwaysInv, PTL DEF Spec, ImplementsJobPool, Pool!Spec
(***************************************************************************)
(* So no job runs, waits or ends again once it has ended.                  *)
(***************************************************************************)
THEOREM EndsOnce == Spec => JobsEndOnce
<1> DEFINE seen == [j \in Jobs |-> PoolState(j)]
<1>1. [Pool!Next]_(Pool!vars) =>
         [\A j \in Jobs : seen[j] \in {"succeeded", "failed", "lost"} =>
             seen'[j] = seen[j]]_(Pool!vars)
  <2> SUFFICES ASSUME Pool!Next, NEW j \in Jobs, seen[j] \in {"succeeded", "failed", "lost"}
               PROVE  seen'[j] = seen[j]
    OBVIOUS
  <2>1. CASE \E i \in Jobs : \/ Pool!Accept(i) \/ Pool!Take(i) \/ Pool!Succeed(i)
                            \/ Pool!GiveUp(i) \/ Pool!Retry(i) \/ Pool!Abandon(i)
    BY <2>1 DEF Pool!Accept, Pool!Take, Pool!Succeed, Pool!GiveUp, Pool!Retry, Pool!Abandon, Pool!End
  <2>2. CASE Pool!Close \/ Pool!Restart
    BY <2>2 DEF Pool!Close, Pool!Restart
  <2> QED
    BY <2>1, <2>2 DEF Pool!Next
<1> QED
  BY <1>1, QueueImplementsPool, PTL DEF ImplementsJobPool, Pool!Spec, JobsEndOnce, Pool!EndedStays
=============================================================================
