SPECIFICATION HSpec
CONSTANTS
    Reqs = {r1, r2}
    UserIds = {u1}
    PostIds = {1, 2, 3}
    CommentIds = {1, 2, 3, 4}
    Titles = {"Foo", "???"}
    NoTitle = ""
    Slugify <- MCSlugify
    MaxPostsPerUser = 1
    MaxCommentsPerPost = 3
    MaxDepth = 1
    Ops = {"createPost", "createComment", "removeComment"}
    OtherSessions = TRUE
SYMMETRY Symmetry
INVARIANTS
    TypeOK
    DepthBounded
    RepliesStayOnPost
    PostSlotsBounded
PROPERTIES
    CommentsCapped
    DeletionOrphansNothing
CHECK_DEADLOCK FALSE
