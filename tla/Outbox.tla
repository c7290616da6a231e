------------------------------- MODULE Outbox -------------------------------
(***************************************************************************)
(* Delivery of outbox records.  Worker processes claim batches of records, *)
(* run each record through its consumers in a goroutine of its own, and    *)
(* settle it: processed, retried later, or failed for good.  The first     *)
(* goroutine of a batch that returns an error cancels the context of the   *)
(* others.  A claim is only a timestamp: when it is older than             *)
(* claimTimeout any worker may claim the record again, although the first  *)
(* one may still be at it, and nothing checks who settles it.              *)
(***************************************************************************)
EXTENDS Naturals, Sequences, FiniteSets

CONSTANTS
    Records,        \* outbox records of one destination
    Workers,        \* worker processes
    Consumers,      \* the consumers of the destination, in order
    Poison,         \* records whose payload cannot be decoded
    MaxAttempts,    \* maxAttempts
    BatchSize,      \* batchSize
    MaxFaults,      \* bound: failed statements and crashes
    MaxSlow         \* bound: claims that expire while their worker is at it

ASSUME ConfigurationValid ==
    /\ Poison \subseteq Records
    /\ MaxAttempts \in Nat \ {0} /\ BatchSize \in Nat \ {0}
    /\ MaxFaults \in Nat /\ MaxSlow \in Nat
ASSUME ConsumersDistinct ==
    /\ Consumers \in Seq(STRING)
    /\ \A i, j \in DOMAIN Consumers : Consumers[i] = Consumers[j] => i = j

VARIABLES
    records,    \* outbox_records
    waiting,    \* pending records in backoff, processing ones whose claim holds
    consumed,   \* consumer_event_records: status by consumer and record
    delivered,  \* how often each consumer handled each record (history)
    job,        \* the goroutine of each worker for each record
    cancelled,  \* workers whose batch has been cancelled
    faults, slow

vars == <<records, waiting, consumed, delivered, job, cancelled, faults, slow>>

ConsumerNames == {Consumers[i] : i \in DOMAIN Consumers}

-----------------------------------------------------------------------------
(* Rows and goroutines                                                     *)

RecordRow == [status : {"pending", "processing", "processed", "failed"}, attempts : Nat]
Job == [stage : {"none", "begin", "handle", "ack", "nack", "retry", "fail", "done"}, at : Nat, attempts : Nat]
NoJob == [stage |-> "none", at |-> 0, attempts |-> 0]

Init ==
    /\ records = [r \in Records |-> [status |-> "pending", attempts |-> 0]]
    /\ waiting = {}
    /\ consumed = [c \in ConsumerNames |-> [r \in Records |-> "none"]]
    /\ delivered = [c \in ConsumerNames |-> [r \in Records |-> 0]]
    /\ job = [w \in Workers |-> [r \in Records |-> NoJob]]
    /\ cancelled = {}
    /\ faults = 0
    /\ slow = 0

Consumer(w, r) == Consumers[job[w][r].at]
Live(r) == \E w \in Workers : job[w][r] # NoJob
Idle(w) == \A r \in Records : job[w][r] = NoJob

\* The goroutine goes on, with the next consumer or to the end of the list.
Become(w, r, j) == job' = [job EXCEPT ![w][r] = j]
Stage(w, r, stage) == Become(w, r, [stage |-> stage, at |-> job[w][r].at, attempts |-> job[w][r].attempts])
NextConsumer(at) == IF at <= Len(Consumers) THEN "begin" ELSE "done"
Advance(w, r) ==
    Become(w, r, [stage |-> NextConsumer(job[w][r].at + 1), at |-> job[w][r].at + 1,
                  attempts |-> job[w][r].attempts])

\* The goroutine returns nil, or an error that cancels its batch.
Return(w, r) == Become(w, r, NoJob) /\ UNCHANGED cancelled
ReturnError(w, r) == Become(w, r, NoJob) /\ cancelled' = cancelled \cup {w}

-----------------------------------------------------------------------------
(* One batch                                                               *)

\* Mutant: the age of a claim is not looked at.
MutantClaimAnyway == {r \in Records : records[r].status \in {"pending", "processing"}}
\* Mutant: only pending records are looked for.
MutantClaimPending == {r \in Records \ waiting : records[r].status = "pending"}

Claimable == {r \in Records \ waiting : records[r].status \in {"pending", "processing"}}

\* FOR UPDATE SKIP LOCKED passes over rows other transactions are working
\* on, so any part of the claimable records may come; none is an empty poll.
claim(w) ==
    /\ Idle(w)
    /\ \E batch \in SUBSET Claimable :
         /\ Cardinality(batch) <= BatchSize
         /\ records' = [r \in Records |->
                          IF r \in batch
                            THEN [status |-> "processing", attempts |-> records[r].attempts + 1]
                            ELSE records[r]]
         /\ waiting' = waiting \cup batch
         /\ job' = [job EXCEPT ![w] =
                      [r \in Records |->
                         IF r \in batch
                           THEN [stage |-> IF r \in Poison THEN "fail" ELSE NextConsumer(1),
                                 at |-> 1, attempts |-> records[r].attempts + 1]
                           ELSE NoJob]]
    /\ cancelled' = cancelled \ {w}
    /\ UNCHANGED <<consumed, delivered, faults, slow>>

\* Mutant: any earlier record of the consumer counts as handled.
MutantSkipSeen(w, r) ==
    /\ job[w][r].stage = "begin" /\ w \notin cancelled
    /\ IF consumed[Consumer(w, r)][r] # "none"
         THEN Advance(w, r) /\ UNCHANGED consumed
         ELSE /\ consumed' = [consumed EXCEPT ![Consumer(w, r)][r] = "processing"]
              /\ Stage(w, r, "handle")
    /\ UNCHANGED <<records, waiting, delivered, cancelled, faults, slow>>

\* Mutant: the status of an earlier record is not looked at.
MutantHandleAgain(w, r) ==
    /\ job[w][r].stage = "begin" /\ w \notin cancelled
    /\ consumed' = [consumed EXCEPT ![Consumer(w, r)][r] = IF @ = "none" THEN "processing" ELSE @]
    /\ Stage(w, r, "handle")
    /\ UNCHANGED <<records, waiting, delivered, cancelled, faults, slow>>

\* The first transaction of handleConsumer: the consumer's record of the
\* event is inserted, or says that the event was handled before.
beginConsumer(w, r) ==
    LET c == Consumer(w, r)
    IN  /\ job[w][r].stage = "begin"
        /\ w \notin cancelled
        /\ \/ /\ consumed[c][r] = "processed"
              /\ Advance(w, r)
              /\ UNCHANGED consumed
           \/ /\ consumed[c][r] # "processed"
              /\ consumed' = [consumed EXCEPT ![c][r] = IF @ = "none" THEN "processing" ELSE @]
              /\ Stage(w, r, "handle")
        /\ UNCHANGED <<records, waiting, delivered, cancelled, faults, slow>>

\* The consumer runs outside any transaction, cancelled or not.
Handle(w, r) ==
    LET c == Consumer(w, r)
    IN  /\ job[w][r].stage = "handle"
        /\ \/ delivered' = [delivered EXCEPT ![c][r] = @ + 1] /\ Stage(w, r, "ack")
           \/ Stage(w, r, "nack") /\ UNCHANGED delivered
        /\ UNCHANGED <<records, waiting, consumed, cancelled, faults, slow>>

markConsumerProcessed(w, r) ==
    /\ job[w][r].stage = "ack"
    /\ w \notin cancelled
    /\ consumed' = [consumed EXCEPT ![Consumer(w, r)][r] = "processed"]
    /\ Advance(w, r)
    /\ UNCHANGED <<records, waiting, delivered, cancelled, faults, slow>>

\* Mutant: the loop goes on after a consumer has failed.
MutantKeepGoing(w, r) ==
    /\ job[w][r].stage = "nack" /\ w \notin cancelled
    /\ consumed' = [consumed EXCEPT ![Consumer(w, r)][r] = "failed"]
    /\ Advance(w, r)
    /\ UNCHANGED <<records, waiting, delivered, cancelled, faults, slow>>

\* Mutant: the status is that of a record to retry.
MutantConsumerPending(w, r) ==
    /\ job[w][r].stage = "nack" /\ w \notin cancelled
    /\ consumed' = [consumed EXCEPT ![Consumer(w, r)][r] = "pending"]
    /\ Stage(w, r, "retry")
    /\ UNCHANGED <<records, waiting, delivered, cancelled, faults, slow>>

markConsumerFailed(w, r) ==
    /\ job[w][r].stage = "nack"
    /\ w \notin cancelled
    /\ consumed' = [consumed EXCEPT ![Consumer(w, r)][r] = "failed"]
    /\ Stage(w, r, "retry")
    /\ UNCHANGED <<records, waiting, delivered, cancelled, faults, slow>>

\* The three ways to settle a record.  Each UPDATE goes by the record's id
\* alone: neither its status nor who has claimed it matters.
Settle(r, status) ==
    /\ records' = [records EXCEPT ![r] = [status |-> status, attempts |-> @.attempts]]
    /\ waiting' = waiting \cup {r}

markProcessed(w, r) ==
    /\ job[w][r].stage = "done"
    /\ w \notin cancelled
    /\ Settle(r, "processed")
    /\ Return(w, r)
    /\ UNCHANGED <<consumed, delivered, faults, slow>>

markFailed(w, r) ==
    /\ job[w][r].stage = "fail"
    /\ w \notin cancelled
    /\ Settle(r, "failed")
    /\ ReturnError(w, r)
    /\ UNCHANGED <<consumed, delivered, faults, slow>>

\* Mutant: the last attempt is not made.
MutantOneAttemptLess(w, r) ==
    /\ job[w][r].stage = "retry" /\ w \notin cancelled
    /\ Settle(r, IF job[w][r].attempts + 1 >= MaxAttempts THEN "failed" ELSE "pending")
    /\ ReturnError(w, r)
    /\ UNCHANGED <<consumed, delivered, faults, slow>>

retryOrFail(w, r) ==
    /\ job[w][r].stage = "retry"
    /\ w \notin cancelled
    /\ Settle(r, IF job[w][r].attempts >= MaxAttempts THEN "failed" ELSE "pending")
    /\ ReturnError(w, r)
    /\ UNCHANGED <<consumed, delivered, faults, slow>>

-----------------------------------------------------------------------------
(* What goes wrong                                                         *)

\* A statement fails, as every one does under a cancelled context.  An error
\* before the record is settled leads to retryOrFail; one there ends the
\* goroutine and leaves the record processing.
statementFails(w, r) ==
    /\ job[w][r].stage \notin {"none", "handle"}
    /\ \/ w \in cancelled /\ UNCHANGED faults
       \/ faults < MaxFaults /\ faults' = faults + 1
    /\ \/ /\ job[w][r].stage \in {"begin", "ack", "nack"}
          /\ Stage(w, r, "retry")
          /\ UNCHANGED cancelled
       \/ /\ job[w][r].stage \in {"retry", "fail", "done"}
          /\ ReturnError(w, r)
    /\ UNCHANGED <<records, waiting, consumed, delivered, slow>>

\* A worker process dies, and another takes its place.
crash(w) ==
    /\ ~Idle(w)
    /\ faults < MaxFaults
    /\ faults' = faults + 1
    /\ job' = [job EXCEPT ![w] = [r \in Records |-> NoJob]]
    /\ UNCHANGED <<records, waiting, consumed, delivered, cancelled, slow>>

-----------------------------------------------------------------------------
(* Time passes                                                             *)

BackoffElapses(r) ==
    /\ records[r].status = "pending" /\ r \in waiting
    /\ waiting' = waiting \ {r}
    /\ UNCHANGED <<records, consumed, delivered, job, cancelled, faults, slow>>

\* claimTimeout is over, for a claim nobody works on or for one whose worker
\* is slow.
ClaimExpires(r) ==
    /\ records[r].status = "processing" /\ r \in waiting
    /\ \/ ~Live(r) /\ UNCHANGED slow
       \/ Live(r) /\ slow < MaxSlow /\ slow' = slow + 1
    /\ waiting' = waiting \ {r}
    /\ UNCHANGED <<records, consumed, delivered, job, cancelled, faults>>

-----------------------------------------------------------------------------
\* The next step of a goroutine.
processRecord(w, r) ==
    \/ beginConsumer(w, r) \/ Handle(w, r)
    \/ markConsumerProcessed(w, r) \/ markConsumerFailed(w, r)
    \/ markProcessed(w, r) \/ markFailed(w, r) \/ retryOrFail(w, r)
    \/ statementFails(w, r)

Next ==
    \/ \E w \in Workers : claim(w) \/ crash(w)
    \/ \E w \in Workers, r \in Records : processRecord(w, r)
    \/ \E r \in Records : BackoffElapses(r) \/ ClaimExpires(r)

Spec == Init /\ [][Next]_vars

\* Run polls for ever, goroutines run, and time passes.  Nothing has to go
\* wrong, and no worker has to be slow.
FairSpec ==
    /\ Spec
    /\ \A w \in Workers : WF_vars(claim(w))
    /\ \A w \in Workers, r \in Records : WF_vars(processRecord(w, r))
    /\ \A r \in Records : WF_vars(BackoffElapses(r)) /\ WF_vars(ClaimExpires(r) /\ UNCHANGED slow)

-----------------------------------------------------------------------------
(* Properties                                                              *)

\* Every variable holds rows and goroutines of the declared shapes.
TypeOK ==
    /\ records \in [Records -> RecordRow]
    /\ waiting \subseteq Records
    /\ consumed \in [ConsumerNames -> [Records -> {"none", "processing", "processed", "failed"}]]
    /\ delivered \in [ConsumerNames -> [Records -> Nat]]
    /\ job \in [Workers -> [Records -> Job]]
    /\ cancelled \subseteq Workers
    /\ faults \in 0..MaxFaults
    /\ slow \in 0..MaxSlow

\* A record is marked processed only after every consumer has handled it,
\* whatever crashed, failed, was cancelled or ran twice before.
ProcessedWasDelivered ==
    \A r \in Records : records[r].status = "processed" =>
        \A c \in ConsumerNames : delivered[c][r] > 0

\* A consumer never handles a record its predecessors in the list have not.
DeliveredInOrder ==
    \A r \in Records : \A i, j \in DOMAIN Consumers :
        i < j /\ delivered[Consumers[j]][r] > 0 => delivered[Consumers[i]][r] > 0

\* A record is given up only when its attempts are used up, or at once when
\* its payload cannot be decoded.
FailedWasExhausted ==
    \A r \in Records : records[r].status = "failed" =>
        r \in Poison \/ records[r].attempts >= MaxAttempts

OneGoroutineEach ==
    \A r \in Records : \A v, w \in Workers :
        job[v][r] # NoJob /\ job[w][r] # NoJob => v = w

\* As long as no claim has outlived claimTimeout with its worker still at it,
\* a record has one goroutine in all workers, ...
ClaimsExclusive == slow = 0 => OneGoroutineEach

\* ... what is settled stays settled, ...
SettledStays ==
    [][slow = 0 => \A r \in Records :
          records[r].status \in {"processed", "failed"} => records'[r] = records[r]]_vars

\* ... and a consumer that has recorded a record as processed is not called
\* for it again.
NotHandledAgain ==
    [][slow = 0 => \A c \in ConsumerNames, r \in Records :
          consumed[c][r] = "processed" => delivered'[c][r] = delivered[c][r]]_vars

\* No record is forgotten: each is processed or failed in the end and stays
\* so, although workers crash, are slow and are cancelled.
RecordsSettle ==
    \A r \in Records : <>[](records[r].status \in {"processed", "failed"})
=============================================================================
