--------------------------- MODULE Outbox_proofs ----------------------------
(***************************************************************************)
(* Proofs about Outbox for any number of records, workers and consumers    *)
(* and any configuration.                                                  *)
(*                                                                         *)
(* A goroutine knows little about its record, which others may have taken  *)
(* over, but what it has seen cannot be undone: consumers before the one   *)
(* it is at have handled the record, and attempts only grow (JobInv).  If  *)
(* no claim expires under its worker more is known: the goroutine is the   *)
(* only one (PromptInv).                                                   *)
(***************************************************************************)
EXTENDS Outbox, TLAPS

N == Len(Consumers)

Handled(r, n) == \A i \in 1..N : i < n => delivered[Consumers[i]][r] > 0

JobInv(w, r) ==
    /\ job[w][r].stage = "none" => job[w][r] = NoJob
    /\ job[w][r].stage # "none" => job[w][r].at >= 1 /\ job[w][r].attempts <= records[r].attempts
    /\ job[w][r].stage \in {"begin", "handle", "ack", "nack"} => job[w][r].at <= N
    /\ Handled(r, job[w][r].at)
    /\ job[w][r].stage = "ack" => delivered[Consumers[job[w][r].at]][r] > 0
    /\ job[w][r].stage = "done" => job[w][r].at > N
    /\ job[w][r].stage = "fail" => r \in Poison

RecordedWasDelivered ==
    \A c \in ConsumerNames, r \in Records : consumed[c][r] = "processed" => delivered[c][r] > 0

Inv ==
    /\ TypeOK
    /\ \A w \in Workers, r \in Records : JobInv(w, r)
    /\ RecordedWasDelivered
    /\ ProcessedWasDelivered
    /\ DeliveredInOrder
    /\ FailedWasExhausted

-----------------------------------------------------------------------------
LEMMA ConsumersAt ==
    /\ N \in Nat /\ DOMAIN Consumers = 1..N
    /\ \A i \in 1..N : Consumers[i] \in ConsumerNames
    /\ \A c \in ConsumerNames : \E i \in 1..N : c = Consumers[i]
    /\ \A i, j \in 1..N : Consumers[i] = Consumers[j] => i = j
  <1>1. N \in Nat /\ DOMAIN Consumers = 1..N
    BY ConsumersDistinct DEF N
  <1> QED BY <1>1, ConsumersDistinct DEF ConsumerNames

LEMMA InitInv == Init => Inv
  <1> SUFFICES ASSUME Init PROVE Inv
    OBVIOUS
  <1> USE ConfigurationValid DEF Init
  <1>1. TypeOK
    BY DEF TypeOK, RecordRow, Job, NoJob
  <1>2. ASSUME NEW w \in Workers, NEW r \in Records PROVE JobInv(w, r)
    <2>1. job[w][r] = NoJob
      OBVIOUS
    <2>2. NoJob.stage = "none" /\ NoJob.at = 0
      BY DEF NoJob
    <2> QED BY <2>1, <2>2, ConsumersAt DEF JobInv, Handled
  <1>3. RecordedWasDelivered /\ ProcessedWasDelivered /\ FailedWasExhausted
    BY DEF RecordedWasDelivered, ProcessedWasDelivered, FailedWasExhausted
  <1>4. DeliveredInOrder
    BY ConsumersAt DEF DeliveredInOrder
  <1> QED BY <1>1, <1>2, <1>3, <1>4 DEF Inv

\* What becomes of the goroutines when one of them moves.
LEMMA BecomeEffect ==
    ASSUME TypeOK, NEW w \in Workers, NEW r \in Records, NEW j \in Job, Become(w, r, j)
    PROVE  /\ job' \in [Workers -> [Records -> Job]]
           /\ job'[w][r] = j
           /\ \A v \in Workers, q \in Records : v # w \/ q # r => job'[v][q] = job[v][q]
  BY DEF TypeOK, Become

\* A goroutine that stands still knows no less when deliveries and attempts
\* only grow.
LEMMA JobInvKept ==
    ASSUME TypeOK, TypeOK', NEW w \in Workers, NEW r \in Records, JobInv(w, r), job'[w][r] = job[w][r],
           \A c \in ConsumerNames : delivered[c][r] > 0 => delivered'[c][r] > 0,
           records'[r].attempts >= records[r].attempts
    PROVE  JobInv(w, r)'
  <1>1. /\ job[w][r].attempts \in Nat /\ records[r].attempts \in Nat /\ records'[r].attempts \in Nat
        /\ job[w][r].at \in Nat
    BY DEF TypeOK, Job, RecordRow
  <1>2. Handled(r, job[w][r].at)'
    BY ConsumersAt DEF JobInv, Handled
  <1>3. job[w][r].stage = "ack" => delivered'[Consumers[job[w][r].at]][r] > 0
    BY <1>1, ConsumersAt DEF JobInv
  <1> QED BY <1>1, <1>2, <1>3 DEF JobInv

\* A step of one goroutine.
LEMMA OneGoroutine ==
    ASSUME Inv, TypeOK', NEW w \in Workers, NEW r \in Records, JobInv(w, r)',
           \A v \in Workers, q \in Records : v # w \/ q # r => job'[v][q] = job[v][q],
           \A c \in ConsumerNames, q \in Records : delivered[c][q] > 0 => delivered'[c][q] > 0,
           \A q \in Records : records'[q].attempts >= records[q].attempts,
           RecordedWasDelivered', ProcessedWasDelivered', DeliveredInOrder', FailedWasExhausted'
    PROVE  Inv'
  <1>1. ASSUME NEW v \in Workers, NEW q \in Records PROVE JobInv(v, q)'
    <2>1. CASE v = w /\ q = r
      BY <2>1
    <2>2. CASE v # w \/ q # r
      BY <2>2, JobInvKept DEF Inv
    <2> QED BY <2>1, <2>2
  <1> QED BY <1>1 DEF Inv

\* A step that leaves the records and the consumers' rows alone.
LEMMA QuietStep ==
    ASSUME Inv, NEW w \in Workers, NEW r \in Records, NEW j \in Job, Become(w, r, j),
           JobInv(w, r)', cancelled' \subseteq Workers, faults' \in 0..MaxFaults,
           UNCHANGED <<records, waiting, consumed, delivered, slow>>
    PROVE  Inv'
  <1>1. TypeOK'
    BY BecomeEffect DEF Inv, TypeOK
  <1>2. \A q \in Records : records[q].attempts \in Nat
    BY DEF Inv, TypeOK, RecordRow
  <1>3. RecordedWasDelivered' /\ ProcessedWasDelivered' /\ DeliveredInOrder' /\ FailedWasExhausted'
    BY DEF Inv, RecordedWasDelivered, ProcessedWasDelivered, DeliveredInOrder, FailedWasExhausted
  <1> QED BY <1>1, <1>2, <1>3, BecomeEffect, OneGoroutine DEF Inv

\* The goroutine's own record, whatever it is at.
LEMMA JobFields ==
    ASSUME Inv, NEW w \in Workers, NEW r \in Records
    PROVE  /\ job[w][r] \in Job /\ job[w][r].at \in Nat /\ job[w][r].attempts \in Nat
           /\ records[r].attempts \in Nat /\ JobInv(w, r)
  BY DEF Inv, TypeOK, Job, RecordRow

\* What a goroutine that stays at its consumer knows.
LEMMA StageInv ==
    ASSUME Inv, NEW w \in Workers, NEW r \in Records, job[w][r].stage # "none",
           NEW stage \in {"handle", "ack", "nack", "retry"}, Stage(w, r, stage), UNCHANGED records,
           stage # "retry" => job[w][r].at <= N,
           \A c \in ConsumerNames : delivered[c][r] > 0 => delivered'[c][r] > 0,
           stage = "ack" => delivered'[Consumers[job[w][r].at]][r] > 0
    PROVE  \E j \in Job : /\ Become(w, r, j) /\ job'[w][r] = j /\ JobInv(w, r)'
                          /\ j.stage = stage /\ j.at = job[w][r].at
  <1>a. PICK j \in Job : j = [stage |-> stage, at |-> job[w][r].at, attempts |-> job[w][r].attempts]
    BY JobFields DEF Job
  <1>1. j.stage = stage /\ j.at = job[w][r].at /\ j.attempts = job[w][r].attempts
    BY <1>a
  <1>2. Become(w, r, j)
    BY <1>a DEF Stage
  <1>3. job'[w][r] = j
    BY <1>1, <1>2, BecomeEffect DEF Inv
  <1>4. Handled(r, j.at)'
    BY <1>1, JobFields, ConsumersAt DEF JobInv, Handled
  <1>5. JobInv(w, r)'
    BY <1>1, <1>3, <1>4, JobFields DEF JobInv
  <1> QED BY <1>1, <1>2, <1>3, <1>5

\* A goroutine is done with a consumer that has handled its record.
LEMMA AdvanceInv ==
    ASSUME Inv, NEW w \in Workers, NEW r \in Records, job[w][r].stage \in {"begin", "ack"}, Advance(w, r),
           UNCHANGED <<records, delivered>>, delivered[Consumers[job[w][r].at]][r] > 0
    PROVE  \E j \in Job : /\ Become(w, r, j) /\ job'[w][r] = j /\ JobInv(w, r)'
                          /\ j.stage \in {"begin", "done"}
  <1> DEFINE at == job[w][r].at
  <1>1. NextConsumer(at + 1) \in {"begin", "done"} /\ (NextConsumer(at + 1) = "begin" <=> at + 1 <= N)
    BY DEF NextConsumer, N
  <1>b. at + 1 \in Nat
    BY JobFields
  <1>c. [stage |-> NextConsumer(at + 1), at |-> at + 1, attempts |-> job[w][r].attempts] \in Job
    BY <1>1, <1>b, JobFields DEF Job
  <1>a. PICK j \in Job : j = [stage |-> NextConsumer(at + 1), at |-> at + 1, attempts |-> job[w][r].attempts]
    BY <1>c
  <1>2. j.stage = NextConsumer(at + 1) /\ j.at = at + 1 /\ j.attempts = job[w][r].attempts
    BY <1>a
  <1>3. Become(w, r, j)
    BY <1>a DEF Advance
  <1>4. job'[w][r] = j
    BY <1>2, <1>3, BecomeEffect DEF Inv
  <1>5. Handled(r, j.at)'
    BY <1>2, JobFields, ConsumersAt DEF JobInv, Handled
  <1>6. JobInv(w, r)'
    BY <1>1, <1>2, <1>4, <1>5, JobFields, ConsumersAt DEF JobInv
  <1> QED BY <1>1, <1>2, <1>3, <1>4, <1>6

-----------------------------------------------------------------------------
(* One lemma per action of a goroutine                                     *)

\* The consumer a goroutine is at.
LEMMA AtConsumer ==
    ASSUME Inv, NEW w \in Workers, NEW r \in Records, job[w][r].stage \in {"begin", "handle", "ack", "nack"}
    PROVE  /\ job[w][r].at \in 1..N /\ Consumer(w, r) = Consumers[job[w][r].at]
           /\ Consumer(w, r) \in ConsumerNames
  BY JobFields, ConsumersAt DEF JobInv, Consumer

\* Only the status of one consumer's row changes, and to a true one.
LEMMA ConsumerStep ==
    ASSUME Inv, NEW w \in Workers, NEW r \in Records, NEW j \in Job, Become(w, r, j), JobInv(w, r)',
           NEW c \in ConsumerNames, NEW status \in {"none", "processing", "processed", "failed"},
           status = "processed" => delivered[c][r] > 0,
           consumed' = [consumed EXCEPT ![c][r] = status],
           UNCHANGED <<records, waiting, delivered, cancelled, faults, slow>>
    PROVE  Inv'
  <1>1. TypeOK'
    BY BecomeEffect DEF Inv, TypeOK
  <1>2. \A q \in Records : records[q].attempts \in Nat
    BY DEF Inv, TypeOK, RecordRow
  <1>3. ProcessedWasDelivered' /\ DeliveredInOrder' /\ FailedWasExhausted'
    BY DEF Inv, ProcessedWasDelivered, DeliveredInOrder, FailedWasExhausted
  <1>4. RecordedWasDelivered'
    BY DEF Inv, TypeOK, RecordedWasDelivered
  <1> QED BY <1>1, <1>2, <1>3, <1>4, BecomeEffect, OneGoroutine DEF Inv

LEMMA BeginStep ==
    ASSUME Inv, NEW w \in Workers, NEW r \in Records, beginConsumer(w, r)
    PROVE  Inv'
  <1> DEFINE c == Consumer(w, r)
  <1>1. /\ job[w][r].stage = "begin" /\ c = Consumers[job[w][r].at] /\ c \in ConsumerNames
        /\ job[w][r].at <= N /\ job[w][r].stage # "none"
        /\ UNCHANGED <<records, waiting, delivered, cancelled, faults, slow>>
    BY AtConsumer, ConsumersAt DEF beginConsumer
  <1>2. CASE consumed[c][r] = "processed" /\ Advance(w, r) /\ UNCHANGED consumed
    <2>1. delivered[c][r] > 0
      BY <1>1, <1>2 DEF Inv, RecordedWasDelivered
    <2>2. PICK j \in Job : Become(w, r, j) /\ JobInv(w, r)'
      BY <1>1, <1>2, <2>1, AdvanceInv
    <2> QED BY <1>1, <1>2, <2>2, QuietStep DEF Inv, TypeOK
  <1>3. CASE /\ consumed[c][r] # "processed" /\ Stage(w, r, "handle")
             /\ consumed' = [consumed EXCEPT ![c][r] = IF @ = "none" THEN "processing" ELSE @]
    <2>1. PICK j \in Job : Become(w, r, j) /\ JobInv(w, r)'
      BY <1>1, <1>3, StageInv
    <2>2. PICK status \in {"none", "processing", "failed"} :
            status = IF consumed[c][r] = "none" THEN "processing" ELSE consumed[c][r]
      BY <1>1, <1>3 DEF Inv, TypeOK
    <2>3. consumed' = [consumed EXCEPT ![c][r] = status]
      BY <1>3, <2>2
    <2> QED BY <1>1, <2>1, <2>2, <2>3, ConsumerStep
  <1> QED BY <1>1, <1>2, <1>3 DEF beginConsumer

LEMMA HandleStep ==
    ASSUME Inv, NEW w \in Workers, NEW r \in Records, Handle(w, r)
    PROVE  Inv'
  <1> DEFINE c == Consumer(w, r)
             at == job[w][r].at
  <1>1. /\ job[w][r].stage = "handle" /\ at \in 1..N /\ c = Consumers[at] /\ c \in ConsumerNames
        /\ at <= N /\ job[w][r].stage # "none"
        /\ UNCHANGED <<records, waiting, consumed, cancelled, faults, slow>>
    BY AtConsumer, ConsumersAt DEF Handle
  <1>2. CASE Stage(w, r, "nack") /\ UNCHANGED delivered
    <2>1. PICK j \in Job : Become(w, r, j) /\ JobInv(w, r)'
      BY <1>1, <1>2, StageInv
    <2> QED BY <1>1, <1>2, <2>1, QuietStep DEF Inv, TypeOK
  <1>3. CASE delivered' = [delivered EXCEPT ![c][r] = @ + 1] /\ Stage(w, r, "ack")
    <2>1. /\ delivered' \in [ConsumerNames -> [Records -> Nat]] /\ delivered'[c][r] > 0
          /\ \A d \in ConsumerNames, q \in Records : d # c \/ q # r => delivered'[d][q] = delivered[d][q]
      BY <1>1, <1>3 DEF Inv, TypeOK
    <2>2. \A d \in ConsumerNames, q \in Records : delivered[d][q] > 0 => delivered'[d][q] > 0
      BY <2>1
    <2>3. PICK j \in Job : Become(w, r, j) /\ JobInv(w, r)'
      BY <1>1, <1>3, <2>1, <2>2, StageInv
    <2>4. TypeOK'
      BY <1>1, <2>1, <2>3, BecomeEffect DEF Inv, TypeOK
    <2>5. RecordedWasDelivered' /\ ProcessedWasDelivered' /\ FailedWasExhausted'
      BY <1>1, <2>2 DEF Inv, RecordedWasDelivered, ProcessedWasDelivered, FailedWasExhausted
    <2>6. DeliveredInOrder'
      <3> SUFFICES ASSUME NEW q \in Records, NEW i \in 1..N, NEW k \in 1..N, i < k,
                          delivered'[Consumers[k]][q] > 0
                   PROVE  delivered'[Consumers[i]][q] > 0
        BY ConsumersAt DEF DeliveredInOrder
      <3>1. CASE k = at /\ q = r
        BY <1>1, <2>2, <3>1, JobFields, ConsumersAt DEF JobInv, Handled
      <3>2. CASE k # at \/ q # r
        BY <1>1, <2>1, <2>2, <3>2, ConsumersAt DEF Inv, DeliveredInOrder
      <3> QED BY <3>1, <3>2
    <2>7. \A q \in Records : records'[q].attempts >= records[q].attempts
      BY <1>1 DEF Inv, TypeOK, RecordRow
    <2> QED BY <2>2, <2>3, <2>4, <2>5, <2>6, <2>7, BecomeEffect, OneGoroutine DEF Inv
  <1> QED BY <1>2, <1>3 DEF Handle

LEMMA ConsumerProcessedStep ==
    ASSUME Inv, NEW w \in Workers, NEW r \in Records, markConsumerProcessed(w, r)
    PROVE  Inv'
  <1>1. /\ job[w][r].stage = "ack" /\ Consumer(w, r) = Consumers[job[w][r].at] /\ Consumer(w, r) \in ConsumerNames
        /\ UNCHANGED <<records, waiting, delivered, cancelled, faults, slow>>
    BY AtConsumer DEF markConsumerProcessed
  <1>2. delivered[Consumer(w, r)][r] > 0
    BY <1>1, JobFields DEF JobInv
  <1>3. PICK j \in Job : Become(w, r, j) /\ JobInv(w, r)'
    BY <1>1, <1>2, AdvanceInv DEF markConsumerProcessed
  <1> QED BY <1>1, <1>2, <1>3, ConsumerStep DEF markConsumerProcessed

LEMMA ConsumerFailedStep ==
    ASSUME Inv, NEW w \in Workers, NEW r \in Records, markConsumerFailed(w, r)
    PROVE  Inv'
  <1>1. /\ job[w][r].stage = "nack" /\ Consumer(w, r) \in ConsumerNames
        /\ UNCHANGED <<records, waiting, delivered, cancelled, faults, slow>>
    BY AtConsumer DEF markConsumerFailed
  <1>2. PICK j \in Job : Become(w, r, j) /\ JobInv(w, r)'
    BY <1>1, StageInv DEF markConsumerFailed
  <1> QED BY <1>1, <1>2, ConsumerStep DEF markConsumerFailed

LEMMA NoJobInv ==
    ASSUME NEW w \in Workers, NEW r \in Records, job'[w][r] = NoJob
    PROVE  JobInv(w, r)' /\ NoJob \in Job
  <1>1. NoJob.stage = "none" /\ NoJob.at = 0 /\ NoJob \in Job
    BY DEF NoJob, Job
  <1> QED BY <1>1, ConsumersAt DEF JobInv, Handled

\* A goroutine settles its record and ends.
LEMMA SettleStep ==
    ASSUME Inv, NEW w \in Workers, NEW r \in Records, Become(w, r, NoJob), cancelled' \subseteq Workers,
           NEW status \in {"pending", "processed", "failed"}, Settle(r, status),
           status = "processed" => \A c \in ConsumerNames : delivered[c][r] > 0,
           status = "failed" => r \in Poison \/ records[r].attempts >= MaxAttempts,
           UNCHANGED <<consumed, delivered, faults, slow>>
    PROVE  Inv'
  <1>1. NoJob \in Job
    BY DEF NoJob, Job
  <1>2. /\ records' \in [Records -> RecordRow] /\ records'[r].status = status
        /\ records'[r].attempts = records[r].attempts /\ waiting' \subseteq Records
        /\ \A q \in Records \ {r} : records'[q] = records[q]
    BY DEF Settle, Inv, TypeOK, RecordRow
  <1>3. TypeOK'
    BY <1>1, <1>2, BecomeEffect DEF Inv, TypeOK
  <1>4. JobInv(w, r)'
    BY <1>1, BecomeEffect, NoJobInv DEF Inv
  <1>5. RecordedWasDelivered' /\ DeliveredInOrder'
    BY DEF Inv, RecordedWasDelivered, DeliveredInOrder
  <1>6. ProcessedWasDelivered' /\ FailedWasExhausted'
    BY <1>2 DEF Inv, ProcessedWasDelivered, FailedWasExhausted
  <1>7. \A q \in Records : records'[q].attempts >= records[q].attempts
    BY <1>2 DEF Inv, TypeOK, RecordRow
  <1> QED BY <1>1, <1>3, <1>4, <1>5, <1>6, <1>7, BecomeEffect, OneGoroutine DEF Inv

LEMMA MarkProcessedStep ==
    ASSUME Inv, NEW w \in Workers, NEW r \in Records, markProcessed(w, r)
    PROVE  Inv'
  <1>1. \A c \in ConsumerNames : delivered[c][r] > 0
    BY JobFields, ConsumersAt DEF markProcessed, JobInv, Handled
  <1> QED BY <1>1, SettleStep DEF markProcessed, Return, Inv, TypeOK

LEMMA MarkFailedStep ==
    ASSUME Inv, NEW w \in Workers, NEW r \in Records, markFailed(w, r)
    PROVE  Inv'
  BY JobFields, SettleStep DEF markFailed, ReturnError, JobInv, Inv, TypeOK

LEMMA RetryStep ==
    ASSUME Inv, NEW w \in Workers, NEW r \in Records, retryOrFail(w, r)
    PROVE  Inv'
  <1>1. job[w][r].attempts >= MaxAttempts => records[r].attempts >= MaxAttempts
    BY JobFields, ConfigurationValid DEF retryOrFail, JobInv
  <1>2. Become(w, r, NoJob) /\ cancelled' \subseteq Workers /\ UNCHANGED <<consumed, delivered, faults, slow>>
    BY DEF retryOrFail, ReturnError, Inv, TypeOK
  <1>3. CASE job[w][r].attempts >= MaxAttempts
    BY <1>1, <1>2, <1>3, SettleStep DEF retryOrFail
  <1>4. CASE ~(job[w][r].attempts >= MaxAttempts)
    BY <1>2, <1>4, SettleStep DEF retryOrFail
  <1> QED BY <1>3, <1>4

LEMMA StatementFailsStep ==
    ASSUME Inv, NEW w \in Workers, NEW r \in Records, statementFails(w, r)
    PROVE  Inv'
  <1>1. /\ faults' \in 0..MaxFaults /\ UNCHANGED <<records, waiting, consumed, delivered, slow>>
        /\ job[w][r].stage # "none"
    BY ConfigurationValid DEF statementFails, Inv, TypeOK
  <1>2. CASE Stage(w, r, "retry") /\ UNCHANGED cancelled
    <2>1. PICK j \in Job : Become(w, r, j) /\ JobInv(w, r)'
      BY <1>1, <1>2, StageInv
    <2> QED BY <1>1, <1>2, <2>1, QuietStep DEF Inv, TypeOK
  <1>3. CASE ReturnError(w, r)
    <2>1. Become(w, r, NoJob) /\ cancelled' \subseteq Workers /\ NoJob \in Job
      BY <1>3 DEF ReturnError, Inv, TypeOK, NoJob, Job
    <2>2. JobInv(w, r)'
      BY <2>1, BecomeEffect, NoJobInv DEF Inv
    <2> QED BY <1>1, <2>1, <2>2, QuietStep
  <1> QED BY <1>2, <1>3 DEF statementFails

-----------------------------------------------------------------------------
(* The steps of a worker, and time                                         *)

LEMMA ClaimStep ==
    ASSUME Inv, NEW w \in Workers, claim(w)
    PROVE  Inv'
  <1>1. PICK batch \in SUBSET Claimable :
          /\ records' = [r \in Records |->
                           IF r \in batch THEN [status |-> "processing", attempts |-> records[r].attempts + 1]
                                          ELSE records[r]]
          /\ waiting' = waiting \cup batch
          /\ job' = [job EXCEPT ![w] =
                       [r \in Records |->
                          IF r \in batch
                            THEN [stage |-> IF r \in Poison THEN "fail" ELSE NextConsumer(1),
                                  at |-> 1, attempts |-> records[r].attempts + 1]
                            ELSE NoJob]]
    BY DEF claim
  <1>2. batch \subseteq Records /\ UNCHANGED <<consumed, delivered, faults, slow>> /\ cancelled' \subseteq Workers
    BY DEF claim, Claimable, Inv, TypeOK
  <1>3. \A r \in Records : records[r].attempts \in Nat
    BY DEF Inv, TypeOK, RecordRow
  <1>4. ASSUME NEW r \in batch
        PROVE  /\ records'[r] \in RecordRow /\ records'[r].status = "processing"
               /\ records'[r].attempts = records[r].attempts + 1
    BY <1>1, <1>2, <1>3 DEF RecordRow
  <1>5. ASSUME NEW r \in Records \ batch PROVE records'[r] = records[r] /\ records'[r] \in RecordRow
    BY <1>1 DEF Inv, TypeOK
  <1>6. ASSUME NEW r \in batch
        PROVE  /\ job'[w][r] \in Job
               /\ job'[w][r].stage = IF r \in Poison THEN "fail" ELSE NextConsumer(1)
               /\ job'[w][r].at = 1 /\ job'[w][r].attempts = records[r].attempts + 1
    <2>1. job'[w][r] = [stage |-> IF r \in Poison THEN "fail" ELSE NextConsumer(1),
                        at |-> 1, attempts |-> records[r].attempts + 1]
      BY <1>1, <1>2 DEF Inv, TypeOK
    <2> QED BY <1>2, <1>3, <2>1 DEF Job, NextConsumer
  <1>7. \A r \in Records \ batch : job'[w][r] = NoJob
    BY <1>1 DEF Inv, TypeOK
  <1>8. \A v \in Workers \ {w} : job'[v] = job[v]
    BY <1>1 DEF Inv, TypeOK
  <1>9. TypeOK'
    <2>1. records' \in [Records -> RecordRow] /\ waiting' \subseteq Records
      BY <1>1, <1>2, <1>4, <1>5 DEF Inv, TypeOK
    <2>2. \A r \in Records : job'[w][r] \in Job
      BY <1>6, <1>7 DEF NoJob, Job
    <2>3. job' \in [Workers -> [Records -> Job]]
      BY <1>1, <1>8, <2>2 DEF Inv, TypeOK
    <2> QED BY <1>2, <2>1, <2>3 DEF Inv, TypeOK
  <1>10. \A r \in Records : records'[r].attempts >= records[r].attempts
    BY <1>3, <1>4, <1>5
  <1>11. ASSUME NEW v \in Workers, NEW r \in Records PROVE JobInv(v, r)'
    <2>1. CASE v # w
      BY <1>2, <1>8, <1>9, <1>10, <2>1, JobInvKept DEF Inv
    <2>2. CASE v = w /\ r \notin batch
      BY <1>7, <2>2, NoJobInv
    <2>3. CASE v = w /\ r \in batch
      <3>1. Handled(r, job[w][r].at)'
        BY <1>6, <2>3, ConsumersAt DEF Handled
      <3>2. job'[w][r].stage \in {"fail", "begin", "done"}
            /\ (job'[w][r].stage = "begin" => 1 <= N) /\ (job'[w][r].stage = "done" => 1 > N)
            /\ (job'[w][r].stage = "fail" => r \in Poison)
        BY <1>6, <2>3, ConsumersAt DEF NextConsumer, N
      <3> QED BY <1>3, <1>4, <1>6, <2>3, <3>1, <3>2 DEF JobInv
    <2> QED BY <2>1, <2>2, <2>3
  <1>12. RecordedWasDelivered' /\ DeliveredInOrder'
    BY <1>2 DEF Inv, RecordedWasDelivered, DeliveredInOrder
  <1>13. ProcessedWasDelivered' /\ FailedWasExhausted'
    BY <1>2, <1>4, <1>5 DEF Inv, ProcessedWasDelivered, FailedWasExhausted
  <1> QED BY <1>9, <1>11, <1>12, <1>13 DEF Inv

\* Steps that touch neither the rows nor a goroutine other than to end it.
LEMMA RowsKept ==
    ASSUME Inv, TypeOK', UNCHANGED <<records, consumed, delivered>>,
           \A w \in Workers, r \in Records : job'[w][r] \in {job[w][r], NoJob}
    PROVE  Inv'
  <1>1. ASSUME NEW w \in Workers, NEW r \in Records PROVE JobInv(w, r)'
    <2>1. records[r].attempts \in Nat
      BY DEF Inv, TypeOK, RecordRow
    <2>2. CASE job'[w][r] = job[w][r]
      BY <2>1, <2>2, JobInvKept DEF Inv
    <2>3. CASE job'[w][r] = NoJob
      BY <2>3, NoJobInv
    <2> QED BY <2>2, <2>3
  <1>2. RecordedWasDelivered' /\ ProcessedWasDelivered' /\ DeliveredInOrder' /\ FailedWasExhausted'
    BY DEF Inv, RecordedWasDelivered, ProcessedWasDelivered, DeliveredInOrder, FailedWasExhausted
  <1> QED BY <1>1, <1>2 DEF Inv

LEMMA CrashStep ==
    ASSUME Inv, NEW w \in Workers, crash(w)
    PROVE  Inv'
  <1>1. /\ job' \in [Workers -> [Records -> Job]]
        /\ \A v \in Workers, r \in Records : job'[v][r] \in {job[v][r], NoJob}
    BY DEF crash, Inv, TypeOK, NoJob, Job
  <1>2. TypeOK'
    BY <1>1, ConfigurationValid DEF crash, Inv, TypeOK
  <1> QED BY <1>1, <1>2, RowsKept DEF crash

LEMMA TimeStep ==
    ASSUME Inv, NEW r \in Records, BackoffElapses(r) \/ ClaimExpires(r)
    PROVE  Inv'
  <1>1. TypeOK' /\ UNCHANGED <<records, consumed, delivered, job>>
    BY ConfigurationValid DEF BackoffElapses, ClaimExpires, Inv, TypeOK
  <1> QED BY <1>1, RowsKept

LEMMA NextInv == Inv /\ [Next]_vars => Inv'
  <1> SUFFICES ASSUME Inv, [Next]_vars PROVE Inv'
    OBVIOUS
  <1>1. ASSUME NEW w \in Workers, NEW r \in Records, processRecord(w, r) PROVE Inv'
    BY <1>1, BeginStep, HandleStep, ConsumerProcessedStep, ConsumerFailedStep, MarkProcessedStep, MarkFailedStep,
       RetryStep, StatementFailsStep DEF processRecord
  <1>2. CASE UNCHANGED vars
    BY <1>2, RowsKept DEF vars, Inv, TypeOK
  <1> QED BY <1>1, <1>2, ClaimStep, CrashStep, TimeStep DEF Next

\* The strengthened invariant holds in every reachable state.
THEOREM Invariance == Spec => []Inv
  BY InitInv, NextInv, PTL DEF Spec

\* Rows and goroutines keep their shapes.
THEOREM TypeCorrect == Spec => []TypeOK
  <1>1. Inv => TypeOK
    BY DEF Inv
  <1> QED BY <1>1, Invariance, PTL

\* No consumer is skipped: a processed record was handled by all of them,
\* whatever failed, crashed, was cancelled or was claimed twice.
THEOREM NothingSkipped == Spec => []ProcessedWasDelivered
  <1>1. Inv => ProcessedWasDelivered
    BY DEF Inv
  <1> QED BY <1>1, Invariance, PTL

\* Consumers get a record in the order of their list.
THEOREM InOrder == Spec => []DeliveredInOrder
  <1>1. Inv => DeliveredInOrder
    BY DEF Inv
  <1> QED BY <1>1, Invariance, PTL

\* A record is given up only after maxAttempts claims, or if it cannot be
\* decoded.
THEOREM Exhausted == Spec => []FailedWasExhausted
  <1>1. Inv => FailedWasExhausted
    BY DEF Inv
  <1> QED BY <1>1, Invariance, PTL

-----------------------------------------------------------------------------
(* Until a claim outlives its timeout                                      *)

\* A goroutine's record is claimed and still waits for the timeout, and what
\* it was told about its consumer is still so.
PromptInv ==
    /\ OneGoroutineEach
    /\ \A w \in Workers, r \in Records :
         /\ job[w][r] # NoJob => records[r].status = "processing" /\ r \in waiting
         /\ job[w][r].stage = "handle" => consumed[Consumer(w, r)][r] # "processed"

LEMMA PromptInit == Init => PromptInv
  BY DEF Init, PromptInv, OneGoroutineEach, NoJob

\* Only a goroutine that exists takes steps.
LEMMA Exists ==
    ASSUME NEW w \in Workers, NEW r \in Records, processRecord(w, r)
    PROVE  job[w][r] # NoJob
  <1>1. NoJob.stage = "none"
    BY DEF NoJob
  <1> QED BY <1>1 DEF processRecord, beginConsumer, Handle, markConsumerProcessed, markConsumerFailed,
                      markProcessed, markFailed, retryOrFail, statementFails

\* A step of the only goroutine of a record.
LEMMA PromptGoroutine ==
    ASSUME Inv, PromptInv, NEW w \in Workers, NEW r \in Records, job[w][r] # NoJob,
           \A v \in Workers, q \in Records : v # w \/ q # r => job'[v][q] = job[v][q],
           \A q \in Records \ {r} : records'[q] = records[q] /\ (q \in waiting => q \in waiting'),
           \A c \in ConsumerNames, q \in Records \ {r} : consumed'[c][q] = consumed[c][q],
           job'[w][r] # NoJob => records'[r] = records[r] /\ r \in waiting',
           job'[w][r].stage = "handle" => consumed'[Consumers[job'[w][r].at]][r] # "processed"
    PROVE  PromptInv'
  <1>1. \A v \in Workers \ {w} : job[v][r] = NoJob
    BY DEF PromptInv, OneGoroutineEach
  <1>2. OneGoroutineEach'
    BY <1>1 DEF PromptInv, OneGoroutineEach
  <1>3. ASSUME NEW v \in Workers, NEW q \in Records
        PROVE  /\ job'[v][q] # NoJob => records'[q].status = "processing" /\ q \in waiting'
               /\ job'[v][q].stage = "handle" => consumed'[Consumer(v, q)'][q] # "processed"
    <2>1. CASE v = w /\ q = r
      BY <2>1 DEF PromptInv, Consumer
    <2>2. CASE v # w /\ q = r
      BY <1>1, <2>2 DEF NoJob
    <2>3. CASE q # r
      <3>1. job[v][q].stage = "handle" => Consumer(v, q) \in ConsumerNames
        BY AtConsumer
      <3> QED BY <2>3, <3>1 DEF PromptInv, Consumer
    <2> QED BY <2>1, <2>2, <2>3
  <1> QED BY <1>2, <1>3 DEF PromptInv

\* No step takes a slow worker back.
LEMMA SlowStays ==
    Inv /\ [Next]_vars => (slow' = 0 => slow = 0)
  BY DEF Inv, TypeOK, Next, vars, claim, crash, processRecord, beginConsumer, Handle,
         markConsumerProcessed, markConsumerFailed, markProcessed, markFailed, retryOrFail,
         statementFails, BackoffElapses, ClaimExpires

LEMMA PromptNext ==
    Inv /\ (slow = 0 => PromptInv) /\ [Next]_vars => (slow' = 0 => PromptInv')
  <1> SUFFICES ASSUME Inv, PromptInv, [Next]_vars, slow = 0, slow' = 0 PROVE PromptInv'
    BY SlowStays
  <1>none. NoJob \in Job /\ NoJob.stage = "none"
    BY DEF NoJob, Job
  <1>1. ASSUME NEW w \in Workers, NEW r \in Records, processRecord(w, r) PROVE PromptInv'
    <2> DEFINE Others == \A v \in Workers, q \in Records : v # w \/ q # r => job'[v][q] = job[v][q]
    <2>1. job[w][r] # NoJob /\ r \in waiting
      BY <1>1, Exists DEF PromptInv
    <2>2. ASSUME NEW stage \in {"handle", "ack", "nack", "retry"}, Stage(w, r, stage)
          PROVE  Others /\ job'[w][r].stage = stage /\ job'[w][r].at = job[w][r].at
      <3>1. [stage |-> stage, at |-> job[w][r].at, attempts |-> job[w][r].attempts] \in Job
        BY JobFields DEF Job
      <3> QED BY <2>2, <3>1, BecomeEffect DEF Stage, Inv
    <2>3. ASSUME Advance(w, r) PROVE Others /\ job'[w][r].stage \in {"begin", "done"}
      <3>1. [stage |-> NextConsumer(job[w][r].at + 1), at |-> job[w][r].at + 1,
             attempts |-> job[w][r].attempts] \in Job
        BY JobFields DEF Job, NextConsumer
      <3>2. NextConsumer(job[w][r].at + 1) \in {"begin", "done"}
        BY DEF NextConsumer
      <3> QED BY <2>3, <3>1, <3>2, BecomeEffect DEF Advance, Inv
    <2>4. ASSUME Become(w, r, NoJob) PROVE Others /\ job'[w][r] = NoJob
      BY <1>none, <2>4, BecomeEffect DEF Inv
    <2>5. CASE beginConsumer(w, r)
      <3>1. Consumer(w, r) = Consumers[job[w][r].at] /\ Consumer(w, r) \in ConsumerNames
        BY <2>5, AtConsumer DEF beginConsumer
      <3>2. CASE Advance(w, r) /\ UNCHANGED consumed
        BY <2>1, <2>3, <2>5, <3>2, PromptGoroutine DEF beginConsumer
      <3>3. CASE /\ consumed[Consumer(w, r)][r] # "processed" /\ Stage(w, r, "handle")
                 /\ consumed' = [consumed EXCEPT ![Consumer(w, r)][r] = IF @ = "none" THEN "processing" ELSE @]
        <4>1. /\ consumed'[Consumer(w, r)][r] # "processed"
              /\ \A c \in ConsumerNames, q \in Records \ {r} : consumed'[c][q] = consumed[c][q]
          BY <3>1, <3>3 DEF Inv, TypeOK
        <4>2. job'[w][r].at = job[w][r].at /\ Others
          BY <2>2, <3>3
        <4>3. consumed'[Consumers[job'[w][r].at]][r] # "processed" /\ UNCHANGED <<records, waiting>>
          BY <2>5, <3>1, <4>1, <4>2 DEF beginConsumer
        <4> QED BY <2>1, <4>1, <4>2, <4>3, PromptGoroutine
      <3> QED BY <2>5, <3>2, <3>3 DEF beginConsumer
    <2>6. CASE Handle(w, r)
      BY <2>1, <2>2, <2>6, PromptGoroutine DEF Handle
    <2>7. CASE markConsumerProcessed(w, r)
      <3>1. \A c \in ConsumerNames, q \in Records \ {r} : consumed'[c][q] = consumed[c][q]
        BY <2>7, AtConsumer DEF markConsumerProcessed, Inv, TypeOK
      <3> QED BY <2>1, <2>3, <2>7, <3>1, PromptGoroutine DEF markConsumerProcessed
    <2>8. CASE markConsumerFailed(w, r)
      <3>1. \A c \in ConsumerNames, q \in Records \ {r} : consumed'[c][q] = consumed[c][q]
        BY <2>8, AtConsumer DEF markConsumerFailed, Inv, TypeOK
      <3> QED BY <2>1, <2>2, <2>8, <3>1, PromptGoroutine DEF markConsumerFailed
    <2>9. CASE markProcessed(w, r) \/ markFailed(w, r) \/ retryOrFail(w, r)
      <3>1. Become(w, r, NoJob) /\ UNCHANGED consumed /\ \E status : Settle(r, status)
        BY <2>9 DEF markProcessed, markFailed, retryOrFail, Return, ReturnError
      <3>2. \A q \in Records \ {r} : records'[q] = records[q] /\ (q \in waiting => q \in waiting')
        BY <3>1 DEF Settle, Inv, TypeOK
      <3> QED BY <1>none, <2>1, <2>4, <3>1, <3>2, PromptGoroutine
    <2>10. CASE statementFails(w, r)
      BY <1>none, <2>1, <2>2, <2>4, <2>10, PromptGoroutine DEF statementFails, ReturnError
    <2> QED BY <1>1, <2>5, <2>6, <2>7, <2>8, <2>9, <2>10 DEF processRecord
  <1>2. ASSUME NEW w \in Workers, claim(w) PROVE PromptInv'
    <2>1. PICK batch \in SUBSET Claimable :
            /\ records' = [r \in Records |->
                             IF r \in batch THEN [status |-> "processing", attempts |-> records[r].attempts + 1]
                                            ELSE records[r]]
            /\ waiting' = waiting \cup batch
            /\ job' = [job EXCEPT ![w] =
                         [r \in Records |->
                            IF r \in batch
                              THEN [stage |-> IF r \in Poison THEN "fail" ELSE NextConsumer(1),
                                    at |-> 1, attempts |-> records[r].attempts + 1]
                              ELSE NoJob]]
      BY <1>2 DEF claim
    <2>2. batch \subseteq Records /\ \A v \in Workers, r \in batch : job[v][r] = NoJob
      BY <2>1 DEF Claimable, PromptInv
    <2>3. UNCHANGED consumed
      BY <1>2 DEF claim
    <2>4. /\ \A v \in Workers \ {w} : job'[v] = job[v]
          /\ \A r \in Records \ batch : job'[w][r] = NoJob
          /\ \A r \in batch : job'[w][r].stage # "handle"
      BY <2>1, <2>2 DEF Inv, TypeOK, NextConsumer
    <2>5. /\ \A r \in batch : records'[r].status = "processing" /\ r \in waiting'
          /\ \A r \in Records \ batch : records'[r] = records[r] /\ (r \in waiting => r \in waiting')
      BY <2>1, <2>2
    <2>6. OneGoroutineEach'
      BY <2>2, <2>4 DEF PromptInv, OneGoroutineEach
    <2> QED BY <1>none, <2>2, <2>3, <2>4, <2>5, <2>6 DEF PromptInv, Consumer
  <1>3. ASSUME NEW w \in Workers, crash(w) PROVE PromptInv'
    <2>1. UNCHANGED <<records, waiting, consumed>>
          /\ \A v \in Workers, r \in Records : job'[v][r] \in {job[v][r], NoJob}
      BY <1>3 DEF crash, Inv, TypeOK
    <2> QED BY <1>none, <2>1 DEF PromptInv, OneGoroutineEach, Consumer
  <1>4. ASSUME NEW r \in Records, BackoffElapses(r) \/ ClaimExpires(r) PROVE PromptInv'
    <2>1. /\ UNCHANGED <<records, consumed, job>> /\ waiting' = waiting \ {r}
          /\ \A w \in Workers : job[w][r] = NoJob
      BY <1>4 DEF BackoffElapses, ClaimExpires, Live, PromptInv, Inv, TypeOK
    <2> QED BY <2>1 DEF PromptInv, OneGoroutineEach, Consumer
  <1>5. CASE UNCHANGED vars
    BY <1>5 DEF vars, PromptInv, OneGoroutineEach, Consumer
  <1> QED BY <1>1, <1>2, <1>3, <1>4, <1>5 DEF Next

LEMMA Prompt == Spec => [](Inv /\ (slow = 0 => PromptInv))
  <1>1. Inv /\ (slow = 0 => PromptInv) /\ [Next]_vars => (slow = 0 => PromptInv)'
    BY PromptNext
  <1> QED BY <1>1, InitInv, NextInv, PromptInit, PTL DEF Spec

\* Until a worker outlives its claim, a record is never processed by two
\* goroutines at a time, crashes and cancelled batches included.
THEOREM PromptExclusive == Spec => []ClaimsExclusive
  <1>1. (slow = 0 => PromptInv) => ClaimsExclusive
    BY DEF PromptInv, ClaimsExclusive
  <1> QED BY <1>1, Prompt, PTL

\* Until a worker outlives its claim, a settled record stays as it is.
THEOREM PromptSettled == Spec => SettledStays
  <1> DEFINE Stays == slow = 0 => \A r \in Records :
               records[r].status \in {"processed", "failed"} => records'[r] = records[r]
  <1>1. Inv /\ (slow = 0 => PromptInv) /\ [Next]_vars => [Stays]_vars
    <2> SUFFICES ASSUME Inv, PromptInv, [Next]_vars, slow = 0, NEW r \in Records,
                        records[r].status \in {"processed", "failed"}
                 PROVE  records'[r] = records[r]
      OBVIOUS
    <2>1. ASSUME NEW w \in Workers, claim(w) PROVE records'[r] = records[r]
      BY <2>1 DEF claim, Claimable
    <2>2. ASSUME NEW w \in Workers, NEW q \in Records, processRecord(w, q) PROVE records'[r] = records[r]
      <3>1. q # r
        BY <2>2, Exists DEF PromptInv
      <3>2. UNCHANGED records \/ \E status : Settle(q, status)
        BY <2>2 DEF processRecord, beginConsumer, Handle, markConsumerProcessed, markConsumerFailed,
                    markProcessed, markFailed, retryOrFail, statementFails
      <3> QED BY <3>1, <3>2 DEF Settle, Inv, TypeOK
    <2>3. ASSUME NEW w \in Workers, crash(w) PROVE records'[r] = records[r]
      BY <2>3 DEF crash
    <2> QED BY <2>1, <2>2, <2>3 DEF Next, vars, BackoffElapses, ClaimExpires
  <1> QED BY <1>1, Prompt, PTL DEF Spec, SettledStays

\* Until a worker outlives its claim, a consumer is not called again for a
\* record it has recorded as processed.
THEOREM PromptOnce == Spec => NotHandledAgain
  <1> DEFINE Once == slow = 0 => \A c \in ConsumerNames, r \in Records :
               consumed[c][r] = "processed" => delivered'[c][r] = delivered[c][r]
  <1>1. Inv /\ (slow = 0 => PromptInv) /\ [Next]_vars => [Once]_vars
    <2> SUFFICES ASSUME Inv, PromptInv, [Next]_vars, slow = 0, NEW c \in ConsumerNames, NEW r \in Records,
                        consumed[c][r] = "processed"
                 PROVE  delivered'[c][r] = delivered[c][r]
      OBVIOUS
    <2>1. ASSUME NEW w \in Workers, NEW q \in Records, Handle(w, q) PROVE delivered'[c][r] = delivered[c][r]
      <3>1. Consumer(w, q) \in ConsumerNames /\ consumed[Consumer(w, q)][q] # "processed"
        BY <2>1, AtConsumer DEF Handle, PromptInv
      <3>2. Consumer(w, q) # c \/ q # r
        BY <3>1
      <3> QED BY <2>1, <3>1, <3>2 DEF Handle, Inv, TypeOK
    <2>2. ASSUME NEW w \in Workers, NEW q \in Records, processRecord(w, q), ~Handle(w, q)
          PROVE  UNCHANGED delivered
      BY <2>2 DEF processRecord, beginConsumer, markConsumerProcessed, markConsumerFailed,
                  markProcessed, markFailed, retryOrFail, statementFails
    <2>3. ASSUME NEW w \in Workers, claim(w) \/ crash(w) PROVE UNCHANGED delivered
      BY <2>3 DEF claim, crash
    <2> QED BY <2>1, <2>2, <2>3 DEF Next, vars, BackoffElapses, ClaimExpires
  <1> QED BY <1>1, Prompt, PTL DEF Spec, NotHandledAgain
=============================================================================
