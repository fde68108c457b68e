SPECIFICATION Spec
CONSTANTS
    Vocab = 4
    Logits <- MCLogits
    Pad = 2
    Slack = 1
    MaxLen = 6
    Blocks = 2
    Frame = {1, 2, 3}
    NoToken = 4
    World <- MCWorld
INVARIANTS
    Complete
    RowsOnce
PROPERTY
    Greedy
CHECK_DEADLOCK FALSE
