SPECIFICATION FairSpec
CONSTANTS
    Instances = {i1}
    Hooks = {h1, h2}
    Patient = {h2}
    QueueMax = 1
    Tries = 2
    MaxOutside = 3
INVARIANTS TypeOK LastWordDue
PROPERTIES OnlyWhatHeldIsAnnounced KeepsDeliveryPromise QueueDrains LastWordIsTrue
