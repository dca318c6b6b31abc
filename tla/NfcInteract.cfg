SPECIFICATION InteractFairSpec
CONSTANTS
    Interaction = {i1, i2}
    Post = {p1, p2}
    None = None
INVARIANTS
    ResponseFitsCommand
PROPERTIES
    OneTargetAtATime
    PostsAnswered
    ReplacedEnd
CHECK_DEADLOCK FALSE
