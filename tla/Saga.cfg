SPECIFICATION MCSpec
CONSTANTS
    QueueName = {requests, replies}
    Requests = requests
    Replies = replies
    Sub = {srv, cli}
    Server = srv
    Client = cli
    QueueOf <- MCQueueOf
    Call <- MCCall
    Steps = 2
    Undoable = {1}
    MaxAttempts = 2
    MaxTrouble = 1
INVARIANTS RepliesTrue SagaReportsTruly
PROPERTY EverythingReturns
CHECK_DEADLOCK FALSE
