\* Two relays and every fault, one of them in a run.
SPECIFICATION Spec
CONSTANTS
    Rows = {1, 2, 3}
    Tickets = {"a", "b"}
    Topics <- MCTopics
    Partitions = {0}
    TicketOf <- CancelTicketOf
    TopicOf <- CancelTopicOf
    HashOf <- OnePartition
    Relays = {r1, r2}
    BatchSize = 2
    Faults = {"topics", "exit", "broker", "ack", "mark", "relay", "handle", "offset", "worker"}
    MaxFaults = 1
SYMMETRY Symmetry
INVARIANTS TypeOK PublishedIsInLog
PROPERTIES DeliversEvents
