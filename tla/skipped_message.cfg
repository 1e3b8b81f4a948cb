\* The worker's INSERT fails once.
SPECIFICATION Spec
CONSTANTS
    Rows = {1, 2, 3}
    Tickets = {"a", "b"}
    Topics <- MCTopics
    Partitions = {0}
    TicketOf <- CancelTicketOf
    TopicOf <- CancelTopicOf
    HashOf <- OnePartition
    Relays = {r1}
    BatchSize = 2
    Faults = {"handle"}
    MaxFaults = 1
INVARIANTS NothingSkipped
