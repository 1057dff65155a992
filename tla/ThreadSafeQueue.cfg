CONSTANTS
    Producers = {p1, p2}
    Consumers = {c1, c2}
    Sizes <- MCSizes
    MaxPushes = 2
SPECIFICATION Spec
INVARIANTS
    Bounded
    ExactlyOnce
    
PROPERTIES
    ElementsArrive
    PushesReturn
