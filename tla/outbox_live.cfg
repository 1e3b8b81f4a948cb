\* One relay, two partitions, and two of the faults that the design is to absorb.
SPECIFICATION FairSpec
CONSTANTS
    Rows = {1, 2, 3}
    Tickets = {"a", "b"}
    Topics = {"ticket.purchased"}
    Partitions = {0, 1}
    TicketOf <- RebuyTicketOf
    TopicOf <- RebuyTopicOf
    HashOf <- TwoPartitions
    Relays = {r1}
    BatchSize = 2
    Faults = {"topics", "broker", "ack", "mark", "relay", "offset", "worker"}
    MaxFaults = 2
INVARIANTS NothingSkipped InOrderWithinTopic
PROPERTIES EventuallyNotified
