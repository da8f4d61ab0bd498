SPECIFICATION FairSpec
CONSTANTS
    f1 = f1  f2 = f2  s1 = s1  s2 = s2
    Files = {f1, f2}
    Submits = {s1, s2}
    Erases = TRUE
    MaxFails = 2
INVARIANTS AttachmentsStay BytesHaveRows
PROPERTY AbandonedIsSwept
