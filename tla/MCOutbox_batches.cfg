\* Batches of two, one fault, one slow worker, a record that cannot be decoded.
SPECIFICATION FairSpec
CONSTANTS
    Records = {r1, r2}
    Workers = {w1, w2}
    Consumers <- TwoConsumers
    Poison = {r2}
    MaxAttempts = 2
    BatchSize = 2
    MaxFaults = 1
    MaxSlow = 1
INVARIANTS TypeOK ProcessedWasDelivered DeliveredInOrder FailedWasExhausted ClaimsExclusive
PROPERTIES SettledStays NotHandledAgain RecordsSettle
