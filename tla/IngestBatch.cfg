SPECIFICATION Spec
CONSTANTS
    Requests = {r1, r2}
    Refs = {"known", "shared", "unknown"}
    Posts = {"p1", "p2", "p3"}
    PostsOf <- MCPostsOf
    Ids = {"c1", "c2"}
    Rows <- MCRows
    MaxRows = 2
    ChunkRows = 1
SYMMETRY Symmetry
INVARIANTS
    TypeOK
    InsertedOnce
    NothingLost
    CountsAddUp
PROPERTIES
    ImplementsPipeline
CHECK_DEADLOCK FALSE
