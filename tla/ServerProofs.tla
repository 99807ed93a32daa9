---------------------------- MODULE ServerProofs ----------------------------
(***************************************************************************)
(* Proofs about Server for any connections and requests of any length,     *)
(* whether or not the worker panics.                                       *)
(***************************************************************************)
EXTENDS Server, SequenceTheorems, TLAPS

-----------------------------------------------------------------------------
(* The inductive invariant. *)

HistoryOK ==
    /\ arrived \in Seq(Conns)
    /\ executed \in Seq(Conns \X Nat)

\* A connection queues one request, and waits from then on.
ArrivesOnce ==
    /\ \A i, j \in DOMAIN arrived : arrived[i] = arrived[j] => i = j
    /\ \A i \in DOMAIN arrived : conn[arrived[i]] \notin {"New", "Reading"}

\* How many jobs the worker has taken; while it lives, the rest of them is the
\* queue, and the last one it took is its job.
Taken == Len(arrived) - Len(queue)

QueueIsRest ==
    worker # "Dead" =>
        /\ Taken \in Nat
        /\ \A i \in DOMAIN queue : queue[i] = arrived[Taken + i]
        /\ worker = "Working" =>
              Taken > 0 /\ job = arrived[Taken] /\ next <= request[job] + 1

\* The statements a living worker is done with are the executed ones.
Done(s) ==
    \E i \in DOMAIN arrived :
        /\ s[1] = arrived[i]
        /\ i <= Taken
        /\ i = Taken /\ worker = "Working" => s[2] < next

WorkIsDone ==
    worker # "Dead" =>
        \A s \in Queued : Done(s) <=> \E m \in DOMAIN executed : executed[m] = s

\* A result is in the channel until it is written to the stream.
InQueue(c) == \E i \in DOMAIN queue : queue[i] = c

Due(c) == IF job = c THEN next - 1 ELSE IF InQueue(c) THEN 0 ELSE request[c]

AnswersAddUp ==
    \A c \in Conns :
        /\ conn[c] \in {"New", "Reading"} => replies[c] = <<>> /\ results[c] = <<>>
        /\ conn[c] = "Waiting" =>
              /\ \A i \in DOMAIN results[c] : results[c][i] = <<c, Len(replies[c]) + i>>
              /\ worker # "Dead" => Len(replies[c]) + Len(results[c]) = Due(c)

SafeInv ==
    /\ TypeOK
    /\ HistoryOK
    /\ ArrivesOnce
    /\ QueueIsRest
    /\ WorkIsDone
    /\ AnswersAddUp
    /\ HandledSequentially
    /\ RepliesInOrder
    /\ ServedCompletely

LEMMA InitSafe == Init => SafeInv
<1> SUFFICES ASSUME Init PROVE SafeInv
  OBVIOUS
<1> USE DEF Init
<1>1. \A S : <<>> \in Seq(S) /\ Len(<<>>) = 0 /\ DOMAIN <<>> = {}
  OBVIOUS
<1>2. TypeOK /\ HistoryOK
  BY <1>1, NoneIsNoConn, StatementsAssumption DEF TypeOK, HistoryOK
<1>3. ArrivesOnce /\ QueueIsRest /\ HandledSequentially
  BY <1>1 DEF ArrivesOnce, QueueIsRest, Taken, HandledSequentially
<1>4. Queued = {}
  BY <1>1 DEF Queued
<1>5. WorkIsDone /\ AnswersAddUp /\ RepliesInOrder /\ ServedCompletely
  BY <1>1, <1>4 DEF WorkIsDone, AnswersAddUp, RepliesInOrder, ServedCompletely
<1> QED BY <1>2, <1>3, <1>5 DEF SafeInv

-----------------------------------------------------------------------------
(* Types. *)

LEMMA AnswerTyped ==
    ASSUME NEW N, NEW f \in [Conns -> Seq(N)], NEW c \in Conns, NEW s \in Seq(N)
    PROVE  [f EXCEPT ![c] = s] \in [Conns -> Seq(N)]
  OBVIOUS

LEMMA ThreadTypes ==
    ASSUME SafeInv, NEW c \in Conns,
           \/ Accept(c) \/ Enqueue(c) \/ EnqueueFails(c)
           \/ Reply(c) \/ ReplyFails(c) \/ Finish(c)
    PROVE  TypeOK' /\ HistoryOK'
<1> USE DEF SafeInv, TypeOK, HistoryOK, threadVars, workerVars, history
<1>1. CASE Accept(c) \/ EnqueueFails(c) \/ Finish(c)
  BY <1>1 DEF Accept, EnqueueFails, Finish
<1>2. CASE Enqueue(c)
  <2>1. queue' \in Seq(Conns) /\ arrived' \in Seq(Conns)
    BY <1>2, AppendProperties DEF Enqueue
  <2> QED BY <1>2, <2>1 DEF Enqueue
<1>3. CASE Reply(c)
  <2> DEFINE N == Conns \X (1 .. MaxStatements)
  <2>1. Head(results[c]) \in N /\ Tail(results[c]) \in Seq(N)
    BY <1>3, HeadTailProperties DEF Reply
  <2>2. Append(replies[c], Head(results[c])) \in Seq(N)
    BY <2>1, AppendProperties
  <2>3. results \in [Conns -> Seq(N)] /\ replies \in [Conns -> Seq(N)]
    OBVIOUS
  <2>4. results' \in [Conns -> Seq(N)] /\ replies' \in [Conns -> Seq(N)]
    <3> HIDE DEF N
    <3> QED BY <1>3, <2>1, <2>2, <2>3, AnswerTyped DEF Reply
  <2> QED BY <1>3, <2>4 DEF Reply
<1>4. CASE ReplyFails(c)
  <2> DEFINE N == Conns \X (1 .. MaxStatements)
  <2>1. <<>> \in Seq(N) /\ results \in [Conns -> Seq(N)]
    OBVIOUS
  <2>2. results' \in [Conns -> Seq(N)]
    <3> HIDE DEF N
    <3> QED BY <1>4, <2>1, AnswerTyped DEF ReplyFails
  <2> QED BY <1>4, <2>2 DEF ReplyFails
<1> QED BY <1>1, <1>2, <1>3, <1>4

LEMMA WorkerTypes ==
    ASSUME SafeInv,
           Starts \/ StartFails \/ TakeJob \/ Execute \/ ExecutePanics \/ FinishJob
    PROVE  TypeOK' /\ HistoryOK'
<1> USE DEF SafeInv, TypeOK, HistoryOK, threadVars, workerVars, history
<1>1. CASE Starts \/ FinishJob
  BY <1>1 DEF Starts, FinishJob
<1>2. CASE StartFails \/ ExecutePanics
  <2>1. Dies /\ UNCHANGED <<threadVars, next, results, history>>
    BY <1>2 DEF StartFails, ExecutePanics
  <2>2. queue' \in Seq(Conns)
    BY <2>1 DEF Dies
  <2> QED BY <2>1, <2>2 DEF Dies
<1>3. CASE TakeJob
  <2>1. Head(queue) \in Conns /\ Tail(queue) \in Seq(Conns)
    BY <1>3, HeadTailProperties DEF TakeJob
  <2> QED BY <1>3, <2>1, NoneIsNoConn, StatementsAssumption DEF TakeJob
<1>4. CASE Execute
  <2>1. job \in Conns /\ next \in 1 .. MaxStatements
    BY <1>4, StatementsAssumption DEF Execute
  <2>2. executed' \in Seq(Conns \X Nat)
    BY <1>4, <2>1, AppendProperties DEF Execute
  <2>3. results' \in [Conns -> Seq(Conns \X (1 .. MaxStatements))]
    <3> DEFINE N == Conns \X (1 .. MaxStatements)
               x == <<job, next>>
    <3>1. x \in N /\ results \in [Conns -> Seq(N)]
      BY <2>1
    <3>2. results' = IF conn[job] = "Waiting"
                        THEN [results EXCEPT ![job] = Append(@, x)] ELSE results
      BY <1>4 DEF Execute
    <3> HIDE DEF N, x
    <3>3. Append(results[job], x) \in Seq(N)
      BY <2>1, <3>1, AppendProperties
    <3>4. results' \in [Conns -> Seq(N)]
      BY <2>1, <3>1, <3>2, <3>3
    <3> QED BY <3>4 DEF N
  <2>4. next' \in 1 .. MaxStatements + 1
    BY <1>4, <2>1, StatementsAssumption DEF Execute
  <2> QED BY <1>4, <2>2, <2>3, <2>4 DEF Execute
<1> QED BY <1>1, <1>2, <1>3, <1>4

-----------------------------------------------------------------------------
(* The order of execution. *)

OrderInv == ArrivesOnce /\ QueueIsRest /\ WorkIsDone /\ HandledSequentially

\* What Queued is a union of.
LEMMA QueuedMembers ==
    \A s : s \in Queued <=>
        \E j \in DOMAIN arrived : \E i \in 1 .. request[arrived[j]] : s = <<arrived[j], i>>
  BY DEF Queued

\* A step that leaves the queue, the worker and the history alone.
LEMMA OrderUntouched ==
    ASSUME SafeInv, NEW c \in Conns, NEW state,
           conn' = [conn EXCEPT ![c] = state],
           state \in {"New", "Reading"} => conn[c] \in {"New", "Reading"},
           UNCHANGED <<queue, request, workerVars, history>>
    PROVE  OrderInv'
<1> USE DEF SafeInv, workerVars, history
<1>1. ArrivesOnce'
  BY DEF TypeOK, HistoryOK, ArrivesOnce
<1>2. QueueIsRest'
  BY DEF QueueIsRest, Taken
<1>3. Queued' = Queued /\ Taken' = Taken
  BY DEF Queued, Taken
<1>4. WorkIsDone'
  BY <1>3 DEF WorkIsDone, Done
<1>5. HandledSequentially'
  BY <1>3 DEF HandledSequentially, Precedes
<1> QED BY <1>1, <1>2, <1>4, <1>5 DEF OrderInv

LEMMA ThreadOrder ==
    ASSUME SafeInv, NEW c \in Conns,
           Accept(c) \/ EnqueueFails(c) \/ Reply(c) \/ ReplyFails(c) \/ Finish(c)
    PROVE  OrderInv'
<1>1. CASE Accept(c) \/ EnqueueFails(c) \/ ReplyFails(c) \/ Finish(c)
  BY <1>1, OrderUntouched DEF Accept, EnqueueFails, ReplyFails, Finish, threadVars
<1>2. CASE Reply(c)
  <2>1. conn' = [conn EXCEPT ![c] = conn[c]]
    BY <1>2 DEF Reply, SafeInv, TypeOK
  <2> QED BY <1>2, <2>1, OrderUntouched DEF Reply
<1> QED BY <1>1, <1>2

LEMMA EnqueueOrder ==
    ASSUME SafeInv, NEW c \in Conns, Enqueue(c) PROVE OrderInv'
<1> DEFINE n == Len(arrived)
<1> USE DEF SafeInv
<1>1. /\ n \in Nat /\ DOMAIN arrived = 1 .. n /\ DOMAIN arrived' = 1 .. n + 1
      /\ \A i \in 1 .. n : arrived'[i] = arrived[i] /\ arrived[i] \in Conns
      /\ arrived'[n + 1] = c
  <2>1. arrived' = Append(arrived, c) /\ arrived \in Seq(Conns)
    BY DEF Enqueue, HistoryOK
  <2> QED BY <2>1, AppendProperties, LenProperties, ElementOfSeq
<1>2. \A i \in 1 .. n : arrived[i] # c
  BY <1>1 DEF Enqueue, ArrivesOnce
<1>3. /\ Len(queue) \in Nat /\ DOMAIN queue = 1 .. Len(queue)
      /\ DOMAIN queue' = 1 .. Len(queue) + 1 /\ Len(queue') = Len(queue) + 1
      /\ \A i \in 1 .. Len(queue) : queue'[i] = queue[i]
      /\ queue'[Len(queue) + 1] = c
  <2>1. queue' = Append(queue, c) /\ queue \in Seq(Conns)
    BY DEF Enqueue, TypeOK
  <2> QED BY <2>1, AppendProperties, LenProperties
<1>4. Len(arrived') = n + 1 /\ Taken' = Taken /\ Taken \in Int /\ Taken <= n
  BY <1>1, <1>3, AppendProperties DEF Enqueue, HistoryOK, Taken
<1>5. \A i \in 1 .. n : request'[arrived[i]] = request[arrived[i]]
  BY <1>1, <1>2 DEF Enqueue, TypeOK
<1>6. ArrivesOnce'
  <2>1. \A i, j \in 1 .. n + 1 : arrived'[i] = arrived'[j] => i = j
    BY <1>1, <1>2 DEF ArrivesOnce
  <2>2. \A i \in 1 .. n + 1 : conn'[arrived'[i]] \notin {"New", "Reading"}
    <3>1. conn'[c] = "Waiting" /\ \A d \in Conns \ {c} : conn'[d] = conn[d]
      BY DEF Enqueue, TypeOK
    <3> QED BY <1>1, <1>2, <3>1 DEF ArrivesOnce
  <2> QED BY <1>1, <2>1, <2>2 DEF ArrivesOnce
<1>7. QueueIsRest'
  <2>1. /\ Taken \in Nat
        /\ \A i \in 1 .. Len(queue) : queue[i] = arrived[Taken + i]
        /\ worker = "Working" =>
              Taken > 0 /\ job = arrived[Taken] /\ next <= request[job] + 1
    BY <1>3 DEF QueueIsRest, Enqueue
  <2>2. n = Taken + Len(queue)
    BY <1>1, <1>3 DEF Taken
  <2>3. \A i \in 1 .. Len(queue) + 1 : queue'[i] = arrived'[Taken + i]
    BY <1>1, <1>3, <2>1, <2>2
  <2>4. worker = "Working" =>
           Taken > 0 /\ job = arrived'[Taken] /\ next <= request'[job] + 1
    BY <1>1, <1>4, <1>5, <2>1
  <2> QED BY <1>3, <1>4, <2>1, <2>3, <2>4 DEF QueueIsRest, Enqueue, workerVars
<1>8. \A s \in Queued : s \in Queued' /\ s[1] # c /\ (Done(s) <=> Done(s)')
  <2> SUFFICES ASSUME NEW s \in Queued
               PROVE  s \in Queued' /\ s[1] # c /\ (Done(s) <=> Done(s)')
    OBVIOUS
  <2>1. PICK j \in 1 .. n : \E i \in 1 .. request[arrived[j]] : s = <<arrived[j], i>>
    BY <1>1, QueuedMembers
  <2>2. s \in Queued' /\ s[1] # c
    BY <1>1, <1>2, <1>5, <2>1 DEF Queued
  <2>3. Done(s) <=> Done(s)'
    BY <1>1, <1>4, <2>2 DEF Done, Enqueue, workerVars
  <2> QED BY <2>2, <2>3
<1>9. \A s \in Queued' : s \in Queued \/ (s[1] = c /\ ~ Done(s)')
  <2> SUFFICES ASSUME NEW s \in Queued' PROVE s \in Queued \/ (s[1] = c /\ ~ Done(s)')
    OBVIOUS
  <2>1. PICK j \in 1 .. n + 1 : \E i \in 1 .. request'[arrived'[j]] : s = <<arrived'[j], i>>
    BY <1>1 DEF Queued
  <2>2. CASE j \in 1 .. n
    BY <1>1, <1>5, <2>1, <2>2 DEF Queued
  <2>3. CASE j = n + 1
    BY <1>1, <1>2, <1>4, <2>1, <2>3 DEF Done
  <2> QED BY <1>1, <2>2, <2>3
<1>10. WorkIsDone' /\ HandledSequentially'
  <2>1. \A k \in DOMAIN executed : executed[k] \in Queued
    BY DEF HandledSequentially
  <2>2. WorkIsDone'
    BY <1>8, <1>9, <2>1 DEF WorkIsDone, Enqueue
  <2>3. ASSUME NEW s, NEW t \in Queued, s \in Queued
        PROVE  Precedes(s, t) <=> Precedes(s, t)'
    BY <1>1, <1>8, <2>3 DEF Precedes
  <2>4. ASSUME NEW s, NEW t \in Queued, s[1] = c PROVE ~ Precedes(s, t)'
    BY <1>1, <1>2, <1>8, <2>4 DEF Precedes
  <2>5. DOMAIN executed = 1 .. Len(executed) /\ Len(executed) \in Nat
    BY LenProperties DEF HistoryOK
  <2>6. ASSUME NEW k \in DOMAIN executed, NEW s \in Queued'
        PROVE  Precedes(s, executed[k])' <=> \E m \in 1 .. k - 1 : executed[m] = s
    <3>1. CASE s \in Queued
      BY <2>1, <2>3, <2>6, <3>1 DEF HandledSequentially, Enqueue
    <3>2. CASE s[1] = c
      <4>1. \A m \in 1 .. k - 1 : executed[m] # s
        BY <1>8, <2>1, <2>5, <3>2
      <4> QED BY <2>1, <2>4, <3>2, <4>1 DEF Enqueue
    <3> QED BY <1>9, <3>1, <3>2
  <2>7. HandledSequentially'
    BY <1>8, <2>1, <2>6 DEF HandledSequentially, Enqueue
  <2> QED BY <2>2, <2>7
<1> QED BY <1>6, <1>7, <1>10 DEF OrderInv

LEMMA TakeJobOrder == ASSUME SafeInv, TakeJob PROVE OrderInv'
<1> USE DEF SafeInv
<1>1. /\ Len(queue) \in Nat /\ DOMAIN queue = 1 .. Len(queue) /\ Len(queue) > 0
      /\ Head(queue) = queue[1]
      /\ Len(queue') = Len(queue) - 1 /\ DOMAIN queue' = 1 .. Len(queue) - 1
      /\ \A i \in 1 .. Len(queue) - 1 : queue'[i] = queue[i + 1]
  <2>1. queue \in Seq(Conns) /\ queue # <<>> /\ queue' = Tail(queue)
    BY DEF TakeJob, TypeOK
  <2>2. Len(queue) \in Nat \ {0}
    BY <2>1, EmptySeq
  <2> QED BY <2>1, <2>2, HeadTailProperties, LenProperties
<1>2. /\ Len(arrived) \in Nat /\ DOMAIN arrived = 1 .. Len(arrived)
      /\ UNCHANGED <<arrived, executed, request, conn>>
  BY LenProperties DEF HistoryOK, TakeJob, history, threadVars
<1>3. Taken \in Nat /\ Taken' = Taken + 1 /\ Taken + Len(queue) = Len(arrived)
  BY <1>1, <1>2 DEF Taken, QueueIsRest, TakeJob
<1>4. ArrivesOnce'
  BY <1>2 DEF ArrivesOnce
<1>5. QueueIsRest'
  <2>1. \A i \in DOMAIN queue' : queue'[i] = arrived'[Taken' + i]
    BY <1>1, <1>2, <1>3, SMTT(30) DEF QueueIsRest, TakeJob
  <2>2. job' = arrived'[Taken'] /\ job' \in Conns
    <3>1. queue[1] = arrived[Taken + 1]
      BY <1>1 DEF QueueIsRest, TakeJob
    <3> QED BY <1>1, <1>2, <1>3, <3>1, ElementOfSeq DEF TakeJob, TypeOK
  <2>3. next' <= request'[job'] + 1
    BY <1>2, <2>2 DEF TakeJob, TypeOK
  <2> QED BY <1>3, <2>1, <2>2, <2>3 DEF QueueIsRest
<1>6. Queued' = Queued
  BY <1>2 DEF Queued
<1>7. \A s \in Queued : Done(s)' <=> Done(s)
  <2> SUFFICES ASSUME NEW s \in Queued PROVE Done(s)' <=> Done(s)
    OBVIOUS
  <2>1. s[2] \in Nat /\ s[2] >= 1
    <3>1. PICK j \in DOMAIN arrived : \E i \in 1 .. request[arrived[j]] : s = <<arrived[j], i>>
      BY QueuedMembers
    <3>2. request[arrived[j]] \in Nat
      BY <1>2, ElementOfSeq DEF HistoryOK, TypeOK
    <3> QED BY <3>1, <3>2
  <2>2. Done(s) <=> \E i \in 1 .. Len(arrived) : s[1] = arrived[i] /\ i <= Taken
    BY <1>2 DEF Done, TakeJob
  <2>3. Done(s)' <=> \E i \in 1 .. Len(arrived) :
                        s[1] = arrived[i] /\ i <= Taken + 1 /\ (i = Taken + 1 => s[2] < 1)
    BY <1>2, <1>3 DEF Done, TakeJob
  <2> QED BY <1>3, <2>1, <2>2, <2>3
<1>8. WorkIsDone'
  BY <1>2, <1>6, <1>7 DEF WorkIsDone, TakeJob
<1>9. HandledSequentially'
  BY <1>2, <1>6 DEF HandledSequentially, Precedes
<1> QED BY <1>4, <1>5, <1>8, <1>9 DEF OrderInv

LEMMA ExecuteOrder == ASSUME SafeInv, Execute PROVE OrderInv'
<1> DEFINE n == Len(executed)
           t == <<job, next>>
<1> USE DEF SafeInv
<1>1. /\ n \in Nat /\ DOMAIN executed = 1 .. n /\ DOMAIN executed' = 1 .. n + 1
      /\ \A m \in 1 .. n : executed'[m] = executed[m]
      /\ executed'[n + 1] = t
  <2>1. executed \in Seq(Conns \X Nat) /\ t \in Conns \X Nat /\ executed' = Append(executed, t)
    BY StatementsAssumption DEF Execute, HistoryOK, TypeOK
  <2> QED BY <2>1, AppendProperties, LenProperties
<1>2. /\ Len(arrived) \in Nat /\ DOMAIN arrived = 1 .. Len(arrived)
      /\ UNCHANGED <<arrived, queue, request, conn, worker, job>>
      /\ worker = "Working" /\ next' = next + 1 /\ next <= request[job]
      /\ next \in Nat \ {0} /\ job \in Conns /\ request[job] \in Nat
  BY StatementsAssumption, LenProperties DEF HistoryOK, TypeOK, Execute, history, threadVars
<1>3. /\ Taken' = Taken /\ Queued' = Queued
      /\ Taken \in 1 .. Len(arrived) /\ job = arrived[Taken]
  BY <1>2, LenProperties DEF Taken, Queued, QueueIsRest, TypeOK
<1>4. ArrivesOnce' /\ QueueIsRest'
  BY <1>2, <1>3 DEF ArrivesOnce, QueueIsRest
<1>5. t \in Queued
  BY <1>2, <1>3 DEF Queued
<1>6. ASSUME NEW s \in Queued
      PROVE  /\ Precedes(s, t) <=> Done(s)
             /\ Done(s)' <=> Done(s) \/ s = t
  <2>1. PICK j \in 1 .. Len(arrived) : \E i \in 1 .. request[arrived[j]] : s = <<arrived[j], i>>
    BY <1>2, QueuedMembers
  <2>2. s[1] = arrived[j] /\ s[2] \in Nat /\ s = <<s[1], s[2]>>
    <3>1. request[arrived[j]] \in Nat
      BY <1>2, ElementOfSeq DEF HistoryOK, TypeOK
    <3> QED BY <2>1, <3>1
  <2>3. \A i \in 1 .. Len(arrived) : arrived[i] = arrived[j] => i = j
    BY <1>2 DEF ArrivesOnce
  <2>4. Done(s) <=> j <= Taken /\ (j = Taken => s[2] < next)
    BY <1>2, <2>2, <2>3 DEF Done
  <2>5. Done(s)' <=> j <= Taken /\ (j = Taken => s[2] < next + 1)
    BY <1>2, <1>3, <2>2, <2>3 DEF Done
  <2>6. s = t <=> j = Taken /\ s[2] = next
    BY <1>2, <1>3, <2>2, <2>3
  <2>7. Precedes(s, t) <=> j < Taken \/ (j = Taken /\ s[2] < next)
    <3>1. s[1] = t[1] <=> j = Taken
      BY <1>3, <2>2, <2>3
    <3>2. (\E i, k \in DOMAIN arrived : i < k /\ arrived[i] = s[1] /\ arrived[k] = t[1])
             <=> j < Taken
      BY <1>2, <1>3, <2>2, <2>3 DEF ArrivesOnce
    <3> QED BY <3>1, <3>2 DEF Precedes
  <2> QED BY <1>2, <1>3, <2>2, <2>4, <2>5, <2>6, <2>7
<1>7. WorkIsDone'
  <2>1. ASSUME NEW s \in Queued
        PROVE  Done(s)' <=> \E m \in 1 .. n + 1 : executed'[m] = s
    <3>1. Done(s) <=> \E m \in 1 .. n : executed[m] = s
      BY <1>1, <1>2 DEF WorkIsDone
    <3>2. (\E m \in 1 .. n + 1 : executed'[m] = s)
             <=> (\E m \in 1 .. n : executed[m] = s) \/ s = t
      <4>1. 1 .. n + 1 = (1 .. n) \cup {n + 1}
        BY <1>1
      <4> QED BY <1>1, <4>1
    <3> QED BY <1>6, <3>1, <3>2
  <2> QED BY <1>1, <1>3, <2>1 DEF WorkIsDone
<1>8. HandledSequentially'
  <2>1. ASSUME NEW k \in 1 .. n
        PROVE  /\ executed'[k] \in Queued
               /\ \A s \in Queued :
                     Precedes(s, executed[k])' <=> \E m \in 1 .. k - 1 : executed'[m] = s
    <3>1. executed'[k] = executed[k]
      BY <1>1
    <3>2. \A s : Precedes(s, executed[k])' <=> Precedes(s, executed[k])
      BY <1>2, <3>1 DEF Precedes
    <3>3. \A s : (\E m \in 1 .. k - 1 : executed'[m] = s)
                    <=> (\E m \in 1 .. k - 1 : executed[m] = s)
      BY <1>1
    <3> QED BY <1>1, <3>1, <3>2, <3>3 DEF HandledSequentially
  <2>2. ASSUME NEW k \in 1 .. n + 1, k = n + 1, NEW s \in Queued
        PROVE  Precedes(s, executed[k])' <=> \E m \in 1 .. k - 1 : executed'[m] = s
    <3>1. Precedes(s, executed[k])' <=> Precedes(s, t)
      BY <1>1, <1>2, <2>2 DEF Precedes
    <3>2. Done(s) <=> \E m \in 1 .. n : executed[m] = s
      BY <1>1, <1>2 DEF WorkIsDone
    <3> QED BY <1>1, <1>6, <2>2, <3>1, <3>2
  <2>3. \A k \in 1 .. n + 1 :
            /\ executed'[k] \in Queued
            /\ \A s \in Queued :
                  Precedes(s, executed[k])' <=> \E m \in 1 .. k - 1 : executed'[m] = s
    BY <1>1, <1>5, <2>1, <2>2
  <2> QED BY <1>1, <1>3, <2>3 DEF HandledSequentially
<1> QED BY <1>4, <1>7, <1>8 DEF OrderInv

LEMMA WorkerOrder ==
    ASSUME SafeInv, Starts \/ StartFails \/ ExecutePanics \/ FinishJob
    PROVE  OrderInv'
<1> USE DEF SafeInv
<1>1. UNCHANGED <<conn, request, arrived, executed>>
  BY DEF Starts, StartFails, ExecutePanics, FinishJob, threadVars, history
<1>2. ArrivesOnce' /\ HandledSequentially' /\ Queued' = Queued
  BY <1>1 DEF ArrivesOnce, HandledSequentially, Precedes, Queued
<1>3. CASE StartFails \/ ExecutePanics
  BY <1>2, <1>3 DEF StartFails, ExecutePanics, Dies, QueueIsRest, WorkIsDone, OrderInv
<1>4. CASE Starts \/ FinishJob
  <2>1. /\ UNCHANGED <<queue, next>> /\ Taken' = Taken
        /\ worker # "Dead" /\ worker' = "Idle"
    BY <1>1, <1>4 DEF Starts, FinishJob, Taken
  <2>2. QueueIsRest'
    BY <1>1, <2>1 DEF QueueIsRest
  <2>3. ASSUME NEW s \in Queued PROVE Done(s)' <=> Done(s)
    <3>1. PICK j \in DOMAIN arrived : \E i \in 1 .. request[arrived[j]] : s = <<arrived[j], i>>
      BY QueuedMembers
    <3>2. arrived[j] \in Conns /\ request[arrived[j]] \in Nat
      BY ElementOfSeq, LenProperties DEF HistoryOK, TypeOK
    <3>3. \A i \in DOMAIN arrived : arrived[i] = arrived[j] => i = j
      BY DEF ArrivesOnce
    <3>4. Done(s)' <=> j <= Taken
      BY <1>1, <2>1, <3>1, <3>3 DEF Done
    <3>5. Done(s) <=> j <= Taken /\ (j = Taken /\ worker = "Working" => s[2] < next)
      BY <3>1, <3>3 DEF Done
    <3>6. CASE Starts
      BY <3>4, <3>5, <3>6 DEF Starts
    <3>7. CASE FinishJob
      <4>1. job = arrived[Taken] /\ next > request[job] /\ next \in Nat
        BY <3>7, StatementsAssumption DEF FinishJob, QueueIsRest, TypeOK
      <4>2. j = Taken => s[2] < next
        BY <3>1, <3>2, <4>1
      <4> QED BY <3>4, <3>5, <4>2
    <3> QED BY <1>4, <3>6, <3>7
  <2>4. WorkIsDone'
    BY <1>1, <1>2, <2>1, <2>3 DEF WorkIsDone
  <2> QED BY <1>2, <2>2, <2>4 DEF OrderInv
<1> QED BY <1>3, <1>4

-----------------------------------------------------------------------------
(* The answers. *)

\* The same for one connection.
Answers(c) ==
    /\ conn[c] \in {"New", "Reading"} => replies[c] = <<>> /\ results[c] = <<>>
    /\ conn[c] = "Waiting" =>
          /\ \A i \in DOMAIN results[c] : results[c][i] = <<c, Len(replies[c]) + i>>
          /\ worker # "Dead" => Len(replies[c]) + Len(results[c]) = Due(c)
    /\ \A i \in DOMAIN replies[c] : replies[c][i] = <<c, i>>
    /\ conn[c] = "Served" /\ worker # "Dead" => Len(replies[c]) = request[c]

AnswersInv == \A c \in Conns : Answers(c)

LEMMA AnswersAreSafe ==
    AnswersInv <=> AnswersAddUp /\ RepliesInOrder /\ ServedCompletely
  BY DEF AnswersInv, Answers, AnswersAddUp, RepliesInOrder, ServedCompletely

\* A connection that takes no part in a step.
LEMMA AnswersUntouched ==
    ASSUME AnswersInv, NEW c \in Conns,
           UNCHANGED <<conn[c], replies[c], results[c], request[c]>>,
           worker' # "Dead" => worker # "Dead" /\ Due(c)' = Due(c)
    PROVE  Answers(c)'
  BY DEF AnswersInv, Answers

\* `s' holds the results of c's statements in their order, from the first one on
\* or behind the first k.
FromFirst(c, s) == \A i \in DOMAIN s : s[i] = <<c, i>>
Behind(c, k, s) == \A i \in DOMAIN s : s[i] = <<c, k + i>>

\* A result goes from the channel to the stream.
LEMMA AnswerMoves ==
    ASSUME NEW c, NEW N, NEW p \in Seq(N), NEW r \in Seq(N), r # <<>>,
           FromFirst(c, p), Behind(c, Len(p), r)
    PROVE  /\ FromFirst(c, Append(p, Head(r)))
           /\ Behind(c, Len(Append(p, Head(r))), Tail(r))
           /\ Len(Append(p, Head(r))) + Len(Tail(r)) = Len(p) + Len(r)
<1>1. /\ Len(p) \in Nat /\ DOMAIN p = 1 .. Len(p)
      /\ Len(r) \in Nat \ {0} /\ DOMAIN r = 1 .. Len(r) /\ Head(r) = r[1]
  BY LenProperties, EmptySeq
<1>2. /\ Len(Tail(r)) = Len(r) - 1 /\ DOMAIN Tail(r) = 1 .. Len(r) - 1
      /\ \A i \in 1 .. Len(r) - 1 : Tail(r)[i] = r[i + 1]
      /\ Head(r) \in N
  <2>1. /\ Head(r) \in N /\ Tail(r) \in Seq(N) /\ Len(Tail(r)) = Len(r) - 1
        /\ \A i \in 1 .. Len(Tail(r)) : Tail(r)[i] = r[i + 1]
    BY HeadTailProperties
  <2>2. DOMAIN Tail(r) = 1 .. Len(Tail(r))
    BY <2>1, LenProperties
  <2> QED BY <2>1, <2>2
<1>3. Head(r) = <<c, Len(p) + 1>>
  BY <1>1 DEF Behind
<1>4. /\ Len(Append(p, Head(r))) = Len(p) + 1
      /\ DOMAIN Append(p, Head(r)) = 1 .. Len(p) + 1
      /\ \A i \in 1 .. Len(p) : Append(p, Head(r))[i] = p[i]
      /\ Append(p, Head(r))[Len(p) + 1] = Head(r)
  <2>1. /\ Append(p, Head(r)) \in Seq(N) /\ Len(Append(p, Head(r))) = Len(p) + 1
        /\ \A i \in 1 .. Len(p) : Append(p, Head(r))[i] = p[i]
        /\ Append(p, Head(r))[Len(p) + 1] = Head(r)
    BY <1>2, AppendProperties
  <2>2. DOMAIN Append(p, Head(r)) = 1 .. Len(Append(p, Head(r)))
    BY <2>1, LenProperties
  <2> QED BY <2>1, <2>2
<1>5. \A i \in 1 .. Len(p) + 1 : Append(p, Head(r))[i] = <<c, i>>
  <2>1. 1 .. Len(p) + 1 = (1 .. Len(p)) \cup {Len(p) + 1}
    BY <1>1
  <2> QED BY <1>1, <1>3, <1>4, <2>1 DEF FromFirst
<1>6. \A i \in 1 .. Len(r) - 1 : Tail(r)[i] = <<c, (Len(p) + 1) + i>>
  <2> SUFFICES ASSUME NEW i \in 1 .. Len(r) - 1 PROVE Tail(r)[i] = <<c, (Len(p) + 1) + i>>
    OBVIOUS
  <2>1. i + 1 \in DOMAIN r
    BY <1>1
  <2>2. r[i + 1] = <<c, Len(p) + (i + 1)>>
    BY <2>1 DEF Behind
  <2> QED BY <1>1, <1>2, <2>2
<1> QED BY <1>1, <1>2, <1>4, <1>5, <1>6 DEF FromFirst, Behind

\* A result is added to the channel.
LEMMA AnswerAdded ==
    ASSUME NEW c, NEW N, NEW r \in Seq(N), NEW k \in Nat,
           NEW x \in N, x = <<c, k + Len(r) + 1>>,
           Behind(c, k, r)
    PROVE  /\ Behind(c, k, Append(r, x))
           /\ Len(Append(r, x)) = Len(r) + 1
<1>1. /\ Append(r, x) \in Seq(N) /\ Len(Append(r, x)) = Len(r) + 1
      /\ \A i \in 1 .. Len(r) : Append(r, x)[i] = r[i]
      /\ Append(r, x)[Len(r) + 1] = x
  BY AppendProperties
<1>2. /\ Len(r) \in Nat /\ DOMAIN r = 1 .. Len(r)
      /\ DOMAIN Append(r, x) = (1 .. Len(r)) \cup {Len(r) + 1}
  <2>1. Len(r) \in Nat /\ DOMAIN r = 1 .. Len(r)
    BY LenProperties
  <2>2. DOMAIN Append(r, x) = 1 .. Len(r) + 1
    BY <1>1, LenProperties
  <2> QED BY <2>1, <2>2
<1>3. Append(r, x)[Len(r) + 1] = <<c, k + (Len(r) + 1)>>
  BY <1>1, <1>2
<1> QED BY <1>1, <1>2, <1>3 DEF Behind

LEMMA ThreadAnswers ==
    ASSUME SafeInv, NEW c \in Conns,
           Accept(c) \/ EnqueueFails(c) \/ Reply(c) \/ ReplyFails(c) \/ Finish(c)
    PROVE  AnswersInv'
<1> USE AnswersAreSafe DEF SafeInv
<1>1. UNCHANGED <<request, queue, worker, job, next>>
  BY DEF Accept, EnqueueFails, Reply, ReplyFails, Finish, threadVars, workerVars
<1>2. \A d \in Conns : Due(d)' = Due(d)
  BY <1>1 DEF Due, InQueue
<1>3. \A d \in Conns \ {c} : UNCHANGED <<conn[d], replies[d], results[d], request[d]>>
  BY DEF Accept, EnqueueFails, Reply, ReplyFails, Finish, threadVars, workerVars, TypeOK
<1>4. \A d \in Conns \ {c} : Answers(d)'
  BY <1>1, <1>2, <1>3, AnswersUntouched
<1>5. Answers(c) /\ conn[c] \in {"New", "Reading", "Waiting", "Served", "Broken"}
  BY DEF AnswersInv, TypeOK
<1>6. CASE Accept(c) \/ EnqueueFails(c)
  <2>1. conn'[c] \in {"Reading", "Broken"} /\ UNCHANGED <<replies, results>>
    BY <1>6 DEF Accept, EnqueueFails, TypeOK, threadVars
  <2>2. conn[c] \in {"New", "Reading"}
    BY <1>6 DEF Accept, EnqueueFails
  <2> QED BY <1>4, <1>5, <2>1, <2>2 DEF Answers, AnswersInv
<1>7. CASE ReplyFails(c)
  <2>1. conn'[c] = "Broken" /\ UNCHANGED replies
    BY <1>7 DEF ReplyFails, TypeOK, threadVars
  <2> QED BY <1>4, <1>5, <2>1 DEF Answers, AnswersInv
<1>8. CASE Finish(c)
  <2>1. conn[c] = "Waiting" /\ results[c] = <<>> /\ ~ Pending(c)
    BY <1>8 DEF Finish
  <2>2. conn'[c] = "Served" /\ UNCHANGED <<replies, results>>
    BY <1>8 DEF Finish, TypeOK, threadVars
  <2>3. Due(c) = request[c]
    BY <2>1 DEF Due, InQueue, Pending
  <2>4. worker # "Dead" => Len(replies[c]) = request[c]
    <3>1. Len(replies[c]) \in Nat /\ Len(results[c]) = 0
      BY <2>1, LenProperties, EmptySeq DEF TypeOK
    <3> QED BY <1>5, <2>1, <2>3, <3>1 DEF Answers
  <2> QED BY <1>1, <1>4, <1>5, <2>2, <2>4 DEF Answers, AnswersInv
<1>9. CASE Reply(c)
  <2> DEFINE N == Conns \X (1 .. MaxStatements)
             r == results[c]
             p == replies[c]
  <2>1. /\ conn[c] = "Waiting" /\ conn' = conn
        /\ r \in Seq(N) /\ r # <<>> /\ p \in Seq(N)
        /\ results'[c] = Tail(r) /\ replies'[c] = Append(p, Head(r))
    BY <1>9 DEF Reply, TypeOK
  <2>2. FromFirst(c, p) /\ Behind(c, Len(p), r)
    BY <1>5, <2>1 DEF Answers, FromFirst, Behind
  <2>3. /\ FromFirst(c, Append(p, Head(r)))
        /\ Behind(c, Len(Append(p, Head(r))), Tail(r))
        /\ Len(Append(p, Head(r))) + Len(Tail(r)) = Len(p) + Len(r)
    <3> HIDE AnswersAreSafe DEF SafeInv, N, r, p
    <3> QED BY <2>1, <2>2, AnswerMoves, SMTT(30)
  <2>4. Answers(c)'
    BY <1>1, <1>2, <1>5, <2>1, <2>3 DEF Answers, FromFirst, Behind
  <2> QED BY <1>4, <2>4 DEF AnswersInv
<1> QED BY <1>6, <1>7, <1>8, <1>9

LEMMA EnqueueAnswers ==
    ASSUME SafeInv, NEW c \in Conns, Enqueue(c) PROVE AnswersInv'
<1> USE AnswersAreSafe DEF SafeInv
<1>1. /\ UNCHANGED <<worker, job, next, replies, results>> /\ worker # "Dead"
      /\ conn[c] = "Reading" /\ conn'[c] = "Waiting"
      /\ \A d \in Conns \ {c} : UNCHANGED <<conn[d], request[d]>>
  BY DEF Enqueue, workerVars, TypeOK
<1>2. /\ Len(queue) \in Nat /\ DOMAIN queue = 1 .. Len(queue)
      /\ DOMAIN queue' = 1 .. Len(queue) + 1
      /\ \A i \in 1 .. Len(queue) : queue'[i] = queue[i]
      /\ queue'[Len(queue) + 1] = c
  <2>1. queue' = Append(queue, c) /\ queue \in Seq(Conns)
    BY DEF Enqueue, TypeOK
  <2> QED BY <2>1, AppendProperties, LenProperties
<1>3. \A d \in Conns : InQueue(d)' <=> InQueue(d) \/ d = c
  <2>1. 1 .. Len(queue) + 1 = (1 .. Len(queue)) \cup {Len(queue) + 1}
    BY <1>2
  <2> QED BY <1>2, <2>1 DEF InQueue
<1>4. job # c
  <2>1. worker = "Working" => Taken \in DOMAIN arrived
    BY <1>1, LenProperties DEF QueueIsRest, Taken, HistoryOK, TypeOK
  <2> QED BY <1>1, <2>1, NoneIsNoConn DEF QueueIsRest, ArrivesOnce, TypeOK
<1>5. \A d \in Conns \ {c} : Answers(d)'
  <2>1. \A d \in Conns \ {c} : Due(d)' = Due(d)
    BY <1>1, <1>3 DEF Due
  <2> QED BY <1>1, <2>1, AnswersUntouched
<1>6. Answers(c)'
  <2>1. replies[c] = <<>> /\ results[c] = <<>>
    BY <1>1 DEF AnswersInv, Answers
  <2>2. Due(c)' = 0
    BY <1>1, <1>3, <1>4 DEF Due
  <2> QED BY <1>1, <2>1, <2>2, EmptySeq DEF Answers
<1> QED BY <1>5, <1>6 DEF AnswersInv

LEMMA ExecuteAnswers == ASSUME SafeInv, Execute PROVE AnswersInv'
<1> USE AnswersAreSafe DEF SafeInv
<1>1. /\ UNCHANGED <<conn, request, replies, queue, worker, job>>
      /\ worker = "Working" /\ next' = next + 1
      /\ next \in 1 .. MaxStatements /\ next \in Nat /\ job \in Conns
      /\ \A d \in Conns \ {job} : results'[d] = results[d]
  BY StatementsAssumption DEF Execute, threadVars, TypeOK
<1>2. \A d \in Conns \ {job} : Answers(d)'
  <2>1. \A d \in Conns \ {job} : Due(d)' = Due(d)
    BY <1>1 DEF Due, InQueue
  <2> QED BY <1>1, <2>1, AnswersUntouched
<1>3. ASSUME NEW c \in Conns, c = job PROVE Answers(c)'
  <2>1. Answers(c) /\ Due(c) = next - 1 /\ Due(c)' = next
    BY <1>1, <1>3 DEF AnswersInv, Due
  <2>2. CASE conn[c] # "Waiting"
    BY <1>1, <1>3, <2>1, <2>2 DEF Answers, Execute
  <2>3. CASE conn[c] = "Waiting"
    <3> DEFINE r == results[c]
               p == replies[c]
               x == <<c, next>>
               N == Conns \X (1 .. MaxStatements)
               k == Len(p)
    <3>1. r \in Seq(N) /\ k \in Nat /\ x \in N /\ results'[c] = Append(r, x)
      BY <1>1, <1>3, <2>3, LenProperties DEF Execute, TypeOK
    <3>2. k + Len(r) = next - 1 /\ Behind(c, k, r)
      BY <1>1, <2>1, <2>3 DEF Answers, Behind
    <3>3. Len(r) \in Nat /\ next \in Nat
      BY <1>1, <3>1, LenProperties
    <3> HIDE DEF r, p, N, k
    <3>4. next = k + Len(r) + 1
      BY <3>1, <3>2, <3>3
    <3>5. /\ Behind(c, k, Append(r, x))
          /\ Len(Append(r, x)) = Len(r) + 1
      <4>1. x = <<c, k + Len(r) + 1>>
        BY <3>4
      <4> HIDE DEF x
      <4> QED BY <3>1, <3>2, <4>1, AnswerAdded, ZenonT(40)
    <3>6. k + Len(Append(r, x)) = next
      BY <3>1, <3>3, <3>4, <3>5
    <3>7. results'[c] = Append(r, x) /\ replies'[c] = p
      BY <1>1, <3>1 DEF p
    <3> QED BY <1>1, <2>1, <2>3, <3>5, <3>6, <3>7 DEF Answers, Behind, k, p
  <2> QED BY <2>2, <2>3
<1> QED BY <1>2, <1>3 DEF AnswersInv

LEMMA WorkerAnswers ==
    ASSUME SafeInv, Starts \/ StartFails \/ TakeJob \/ ExecutePanics \/ FinishJob
    PROVE  AnswersInv'
<1> USE AnswersAreSafe DEF SafeInv
<1>1. UNCHANGED <<conn, request, replies, results>>
  BY DEF Starts, StartFails, TakeJob, ExecutePanics, FinishJob, threadVars
<1>2. CASE StartFails \/ ExecutePanics
  BY <1>1, <1>2, AnswersUntouched DEF StartFails, ExecutePanics, Dies, AnswersInv
<1>3. CASE Starts
  BY <1>1, <1>3, AnswersUntouched DEF Starts, Due, InQueue, AnswersInv
<1>4. CASE TakeJob
  <2>1. /\ worker = "Idle" /\ worker' = "Working" /\ job = None
        /\ job' = queue[1] /\ next' = 1
    BY <1>4 DEF TakeJob, TypeOK
  <2>2. /\ Len(queue) \in Nat \ {0} /\ DOMAIN queue = 1 .. Len(queue)
        /\ DOMAIN queue' = 1 .. Len(queue) - 1
        /\ \A i \in 1 .. Len(queue) - 1 : queue'[i] = queue[i + 1]
    BY <1>4, LenProperties, EmptySeq, HeadTailProperties DEF TakeJob, TypeOK
  <2>3. \A d \in Conns : InQueue(d) <=> d = job' \/ InQueue(d)'
    <3> SUFFICES ASSUME NEW d \in Conns PROVE InQueue(d) <=> d = job' \/ InQueue(d)'
      OBVIOUS
    <3>1. InQueue(d) => d = job' \/ InQueue(d)'
      <4>1. ASSUME NEW i \in 1 .. Len(queue), queue[i] = d, i # 1 PROVE InQueue(d)'
        <5>1. i - 1 \in 1 .. Len(queue) - 1 /\ queue'[i - 1] = queue[i]
          BY <2>2, <4>1
        <5> QED BY <2>2, <4>1, <5>1 DEF InQueue
      <4> QED BY <2>1, <2>2, <4>1 DEF InQueue
    <3>2. d = job' \/ InQueue(d)' => InQueue(d)
      <4>1. ASSUME NEW i \in 1 .. Len(queue) - 1, queue'[i] = d PROVE InQueue(d)
        <5>1. i + 1 \in DOMAIN queue /\ queue[i + 1] = d
          BY <2>2, <4>1
        <5> QED BY <5>1 DEF InQueue
      <4> QED BY <2>1, <2>2, <4>1 DEF InQueue
    <3> QED BY <3>1, <3>2
  <2>4. \A d \in Conns : Due(d)' = Due(d)
    BY <1>1, <2>1, <2>3, NoneIsNoConn DEF Due
  <2> QED BY <1>1, <2>1, <2>4, AnswersUntouched DEF AnswersInv
<1>5. CASE FinishJob
  <2>1. /\ worker = "Working" /\ job' = None /\ job \in Conns
        /\ next > request[job] /\ UNCHANGED <<queue, next>>
    BY <1>5 DEF FinishJob, TypeOK
  <2>2. next - 1 = request[job]
    <3>1. next <= request[job] + 1
      BY <2>1 DEF QueueIsRest
    <3>2. next \in Nat /\ request[job] \in Nat
      BY <2>1, StatementsAssumption DEF TypeOK
    <3> QED BY <2>1, <3>1, <3>2
  <2>3. ~ InQueue(job)
    <3>1. /\ Taken > 0 /\ job = arrived[Taken]
          /\ \A i \in DOMAIN queue : queue[i] = arrived[Taken + i]
      BY <2>1 DEF QueueIsRest
    <3>2. /\ Len(arrived) \in Nat /\ DOMAIN arrived = 1 .. Len(arrived)
          /\ Len(queue) \in Nat /\ DOMAIN queue = 1 .. Len(queue)
      BY LenProperties DEF TypeOK, HistoryOK
    <3> QED BY <3>1, <3>2 DEF InQueue, ArrivesOnce, Taken
  <2>4. \A d \in Conns : Due(d)' = Due(d)
    BY <1>1, <2>1, <2>2, <2>3, NoneIsNoConn DEF Due, InQueue
  <2> QED BY <1>1, <2>1, <2>4, AnswersUntouched DEF AnswersInv
<1> QED BY <1>2, <1>3, <1>4, <1>5

-----------------------------------------------------------------------------
LEMMA NextSafe == ASSUME SafeInv, [Next]_vars PROVE SafeInv'
<1>1. TypeOK' /\ HistoryOK' /\ OrderInv' /\ AnswersInv' => SafeInv'
  BY AnswersAreSafe, PTL DEF SafeInv, OrderInv
<1>2. ASSUME NEW c \in Conns,
             \/ Accept(c) \/ Enqueue(c) \/ EnqueueFails(c)
             \/ Reply(c) \/ ReplyFails(c) \/ Finish(c)
      PROVE  SafeInv'
  BY <1>1, <1>2, ThreadTypes, ThreadOrder, EnqueueOrder, ThreadAnswers, EnqueueAnswers
<1>3. CASE Starts \/ StartFails \/ TakeJob \/ Execute \/ ExecutePanics \/ FinishJob
  <2>1. TypeOK' /\ HistoryOK'
    BY <1>3, WorkerTypes
  <2>2. OrderInv'
    BY <1>3, WorkerOrder, TakeJobOrder, ExecuteOrder
  <2>3. AnswersInv'
    BY <1>3, WorkerAnswers, ExecuteAnswers
  <2> QED BY <1>1, <2>1, <2>2, <2>3
<1>4. CASE UNCHANGED vars
  <2>1. UNCHANGED <<conn, request, queue, worker, job, next, results, replies, arrived, executed>>
    BY <1>4 DEF vars, threadVars, workerVars, history
  <2>2. TypeOK' /\ HistoryOK'
    BY <2>1 DEF SafeInv, TypeOK, HistoryOK
  <2>3. OrderInv'
    <3>1. Queued' = Queued /\ \A s : Done(s)' <=> Done(s)
      BY <2>1 DEF Queued, Done, Taken
    <3>2. ArrivesOnce' /\ QueueIsRest'
      BY <2>1 DEF SafeInv, ArrivesOnce, QueueIsRest, Taken
    <3>3. WorkIsDone' /\ HandledSequentially'
      BY <2>1, <3>1 DEF SafeInv, WorkIsDone, HandledSequentially, Precedes
    <3> QED BY <3>2, <3>3 DEF OrderInv
  <2>4. AnswersInv'
    <3>1. \A c \in Conns : Due(c)' = Due(c)
      BY <2>1 DEF Due, InQueue
    <3> QED BY <2>1, <3>1, AnswersAreSafe, AnswersUntouched DEF SafeInv, AnswersInv
  <2> QED BY <1>1, <2>2, <2>3, <2>4
<1> QED BY <1>2, <1>3, <1>4 DEF Next

\* Whatever the threads, the clients and the worker do, the server keeps its
\* invariant: the queue is what is left of the requests in their order, and what
\* was executed is answered or waits in a channel.
THEOREM ServerIsSafe == Spec => []SafeInv
BY InitSafe, NextSafe, PTL DEF Spec

\* Every variable of the server stays in its type, and a worker has a job just
\* while it works (DbWorker::run).
THEOREM ServerIsWellTyped == Spec => []TypeOK
<1>1. SafeInv => TypeOK
  BY DEF SafeInv
<1> QED BY <1>1, ServerIsSafe, PTL

\* One job queue and one worker: whatever the threads race for, requests are
\* executed one after the other in the order of the queue, without a gap.
THEOREM RequestsAreSequential == Spec => []HandledSequentially
<1>1. SafeInv => HandledSequentially
  BY DEF SafeInv
<1> QED BY <1>1, ServerIsSafe, PTL

\* A client is never given another client's results, nor its own out of order
\* or twice (handle_conn writes what comes through its own channel).
THEOREM RepliesComeInOrder == Spec => []RepliesInOrder
<1>1. SafeInv => RepliesInOrder
  BY DEF SafeInv
<1> QED BY <1>1, ServerIsSafe, PTL

\* While the worker lives, the channel of a request closes only behind the last
\* result: no connection ends short of an answer.
THEOREM ServiceIsComplete == Spec => []ServedCompletely
<1>1. SafeInv => ServedCompletely
  BY DEF SafeInv
<1> QED BY <1>1, ServerIsSafe, PTL
=============================================================================
