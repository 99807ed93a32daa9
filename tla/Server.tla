------------------------------- MODULE Server -------------------------------
(***************************************************************************)
(* The TCP server (src/src/server.rs).  Every connection has a thread that *)
(* reads one request, queues it as a job and writes the results it gets    *)
(* back to the client; one worker thread owns the database and executes    *)
(* the statements of one job after the other.  A job carries the only      *)
(* sender of its result channel, so that the connection ends when the job  *)
(* is dropped.  A panic while a statement executes unwinds the worker and  *)
(* drops its job, the job queue and the database.                          *)
(***************************************************************************)
EXTENDS Integers, Sequences, SequencesExt

CONSTANTS
    Conns,           \* connections
    MaxStatements,   \* bound: statements in a request
    Stalled,         \* connections whose client neither reads nor hangs up
    StartFaults,     \* TRUE: the database may fail to open
    Panics,          \* TRUE: execute_sql may panic
    None             \* no job

ASSUME StatementsAssumption == MaxStatements \in Nat
ASSUME StalledAssumption    == Stalled \subseteq Conns
ASSUME FaultsAssumption     == {StartFaults, Panics} \subseteq BOOLEAN
ASSUME NoneIsNoConn         == None \notin Conns

VARIABLES
    conn,        \* what the thread of a connection is doing
    request,     \* statements in the request of a connection, once it is read
    queue,       \* the jobs in the channel job_queue, oldest first
    worker,      \* what the worker thread is doing
    job,         \* the job it works on
    next,        \* the statement of that job to execute next
    results,     \* the results in the channel of each job
    replies,     \* what was written to the stream of each connection
    arrived,     \* history: the jobs in the order they were queued
    executed     \* history: the statements in the order they were executed

threadVars == <<conn, request, replies>>
workerVars == <<worker, job, next>>
history    == <<arrived, executed>>
vars == <<threadVars, queue, workerVars, results, history>>

Init ==
    /\ conn     = [c \in Conns |-> "New"]
    /\ request  = [c \in Conns |-> 0]
    /\ queue    = <<>>
    /\ worker   = "Starting"
    /\ job      = None
    /\ next     = 1
    /\ results  = [c \in Conns |-> <<>>]
    /\ replies  = [c \in Conns |-> <<>>]
    /\ arrived  = <<>>
    /\ executed = <<>>

\* The job of c has not been dropped: its sender is alive.
Pending(c) == job = c \/ \E i \in DOMAIN queue : queue[i] = c

-----------------------------------------------------------------------------
(* run and handle_conn *)

Accept(c) ==
    /\ conn[c] = "New"
    /\ conn' = [conn EXCEPT ![c] = "Reading"]
    /\ UNCHANGED <<request, replies, queue, workerVars, results, history>>

Enqueue(c) ==
    /\ conn[c] = "Reading"
    /\ worker # "Dead"
    /\ \E n \in 0 .. MaxStatements : request' = [request EXCEPT ![c] = n]
    /\ queue' = Append(queue, c)
    /\ conn' = [conn EXCEPT ![c] = "Waiting"]
    /\ arrived' = Append(arrived, c)
    /\ UNCHANGED <<replies, workerVars, results, executed>>

\* The job queue has no receiver any more, or the stream cannot be read.
EnqueueFails(c) ==
    /\ conn[c] = "Reading"
    /\ conn' = [conn EXCEPT ![c] = "Broken"]
    /\ UNCHANGED <<request, replies, queue, workerVars, results, history>>

Reply(c) ==
    /\ conn[c] = "Waiting"
    /\ results[c] # <<>>
    /\ replies' = [replies EXCEPT ![c] = Append(@, Head(results[c]))]
    /\ results' = [results EXCEPT ![c] = Tail(@)]
    /\ UNCHANGED <<conn, request, queue, workerVars, history>>

\* The client has hung up: the thread ends and drops its receiver.
ReplyFails(c) ==
    /\ conn[c] = "Waiting"
    /\ results[c] # <<>>
    /\ conn' = [conn EXCEPT ![c] = "Broken"]
    /\ results' = [results EXCEPT ![c] = <<>>]
    /\ UNCHANGED <<request, replies, queue, workerVars, history>>

\* Mutant: the thread ends as soon as it finds the channel empty.
Finish_Early(c) ==
    /\ conn[c] = "Waiting"
    /\ results[c] = <<>>
    /\ conn' = [conn EXCEPT ![c] = "Served"]
    /\ UNCHANGED <<request, replies, queue, workerVars, results, history>>

\* The loop over the channel ends when it is empty and has no sender.
Finish(c) ==
    /\ conn[c] = "Waiting"
    /\ results[c] = <<>>
    /\ ~ Pending(c)
    /\ conn' = [conn EXCEPT ![c] = "Served"]
    /\ UNCHANGED <<request, replies, queue, workerVars, results, history>>

-----------------------------------------------------------------------------
(* The worker thread *)

Starts ==
    /\ worker = "Starting"
    /\ worker' = "Idle"
    /\ UNCHANGED <<threadVars, queue, job, next, results, history>>

\* Mutant: the dead worker's queue keeps its jobs.
Dies_KeepsQueue ==
    /\ worker' = "Dead"
    /\ job' = None
    /\ UNCHANGED queue

\* The worker is gone, and with it the job and the queue it owned.
Dies ==
    /\ worker' = "Dead"
    /\ job' = None
    /\ queue' = <<>>

\* DbWorker::new fails.
StartFails ==
    /\ StartFaults
    /\ worker = "Starting"
    /\ Dies
    /\ UNCHANGED <<threadVars, next, results, history>>

\* Mutant: the newest job is taken.
TakeJob_Newest ==
    /\ worker = "Idle"
    /\ queue # <<>>
    /\ worker' = "Working"
    /\ job' = Last(queue)
    /\ queue' = Front(queue)
    /\ next' = 1
    /\ UNCHANGED <<threadVars, results, history>>

TakeJob ==
    /\ worker = "Idle"
    /\ queue # <<>>
    /\ worker' = "Working"
    /\ job' = Head(queue)
    /\ queue' = Tail(queue)
    /\ next' = 1
    /\ UNCHANGED <<threadVars, results, history>>

\* Mutant: the results go to the connection that was queued last.
Execute_Misroutes ==
    /\ worker = "Working"
    /\ next <= request[job]
    /\ executed' = Append(executed, <<job, next>>)
    /\ results' = IF conn[Last(arrived)] = "Waiting"
                     THEN [results EXCEPT ![Last(arrived)] = Append(@, <<job, next>>)]
                     ELSE results
    /\ next' = next + 1
    /\ UNCHANGED <<threadVars, queue, worker, job, arrived>>

\* A statement that succeeds or fails has one result, which here is known by its
\* connection and its place; nobody may be there to receive it.
Execute ==
    /\ worker = "Working"
    /\ next <= request[job]
    /\ executed' = Append(executed, <<job, next>>)
    /\ results' = IF conn[job] = "Waiting"
                     THEN [results EXCEPT ![job] = Append(@, <<job, next>>)] ELSE results
    /\ next' = next + 1
    /\ UNCHANGED <<threadVars, queue, worker, job, arrived>>

ExecutePanics ==
    /\ Panics
    /\ worker = "Working"
    /\ next <= request[job]
    /\ Dies
    /\ UNCHANGED <<threadVars, next, results, history>>

\* Mutant: the job lives on while the worker waits for the next one.
FinishJob_KeepsJob ==
    /\ worker = "Working"
    /\ next > request[job]
    /\ worker' = "Idle"
    /\ UNCHANGED <<threadVars, queue, job, next, results, history>>

FinishJob ==
    /\ worker = "Working"
    /\ next > request[job]
    /\ worker' = "Idle"
    /\ job' = None
    /\ UNCHANGED <<threadVars, queue, next, results, history>>

-----------------------------------------------------------------------------
Next ==
    \/ \E c \in Conns :
          \/ Accept(c) \/ Enqueue(c) \/ EnqueueFails(c)
          \/ Reply(c) \/ ReplyFails(c) \/ Finish(c)
    \/ Starts \/ StartFails
    \/ TakeJob \/ Execute \/ ExecutePanics \/ FinishJob

Spec == Init /\ [][Next]_vars

\* The threads run: the worker waits for nothing but jobs, and a thread that
\* waits for its results goes on when there is one.  A client may take for
\* ever to send its request, and a stalled one to take its replies.
Worker == Starts \/ TakeJob \/ Execute \/ FinishJob

FairSpec ==
    /\ Spec
    /\ WF_vars(Worker)
    /\ \A c \in Conns \ Stalled : WF_vars(Reply(c)) /\ WF_vars(Finish(c))
-----------------------------------------------------------------------------
(* Properties. *)

\* The variables stay in their ranges; a worker has a job just while it works.
TypeOK ==
    /\ conn \in [Conns -> {"New", "Reading", "Waiting", "Served", "Broken"}]
    /\ request \in [Conns -> 0 .. MaxStatements]
    /\ queue \in Seq(Conns)
    /\ worker \in {"Starting", "Idle", "Working", "Dead"}
    /\ job \in Conns \cup {None} /\ (job # None <=> worker = "Working")
    /\ next \in 1 .. MaxStatements + 1
    /\ {results, replies} \subseteq [Conns -> Seq(Conns \X (1 .. MaxStatements))]

\* The statements of the requests that were queued, and the order of the queue.
Queued == UNION {{<<arrived[j], i>> : i \in 1 .. request[arrived[j]]} : j \in DOMAIN arrived}

Precedes(s, t) ==
    \/ s[1] = t[1] /\ s[2] < t[2]
    \/ \E i, j \in DOMAIN arrived : i < j /\ arrived[i] = s[1] /\ arrived[j] = t[1]

\* `query requests are handled sequentially': the statements are executed one
\* request after the other, in the order in which the requests were queued.
\* What is executed before a statement is all that precedes it, and no more.
HandledSequentially ==
    \A k \in DOMAIN executed :
        /\ executed[k] \in Queued
        /\ \A s \in Queued :
              Precedes(s, executed[k]) <=> \E m \in 1 .. k - 1 : executed[m] = s

\* A client reads the results of its own statements, in their order, however
\* the threads interleave.
RepliesInOrder ==
    \A c \in Conns : \A i \in DOMAIN replies[c] : replies[c][i] = <<c, i>>

\* As long as the worker lives, a connection whose client stays is not closed
\* before every statement of its request is answered.
ServedCompletely ==
    \A c \in Conns :
        conn[c] = "Served" /\ worker # "Dead" => Len(replies[c]) = request[c]

\* `query_error_does_not_prevent_later_queries': when a request has gone wrong,
\* the requests queued behind it get an answer to every statement as ever.
Answered(c) == Len(replies[c]) = request[c]

LaterQueriesAnswered ==
    \A i, j \in DOMAIN arrived :
        /\ i < j
        /\ conn[arrived[i]] = "Served" /\ ~ Answered(arrived[i])
        /\ conn[arrived[j]] = "Served"
        => Answered(arrived[j])

\* A queued request is not waited for forever, also when the worker dies, and
\* also when other clients do not take their replies.
EveryRequestEnds ==
    \A c \in Conns \ Stalled : conn[c] = "Waiting" ~> conn[c] \in {"Served", "Broken"}
=============================================================================
