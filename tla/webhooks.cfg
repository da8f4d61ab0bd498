SPECIFICATION FairSpec
CONSTANTS
    e1 = e1  h1 = h1  w1 = w1  w2 = w2
    Workers = {w1, w2}
    Events = {e1}
    Hooks = {h1}
    MaxAttempts = 2
    DisableAfter = 2
    MaxReplays = 1
    MaxFails = 1
INVARIANTS DeliveriesAddUp DisabledByStreak
PROPERTIES EventIsSettled
