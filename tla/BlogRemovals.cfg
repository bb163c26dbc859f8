SPECIFICATION HFairSpec
CONSTANTS
    Reqs = {r1, r2}
    UserIds = {u1}
    PostIds = {1, 2}
    CommentIds = {1}
    Titles = {"Foo"}
    NoTitle = ""
    Slugify <- MCSlugify
    MaxPostsPerUser = 1
    MaxCommentsPerPost = 1
    MaxDepth = 0
    Ops = {"createPost", "removePost", "like", "unlike", "createComment", "updateComment", "removeUser"}
    OtherSessions = TRUE
INVARIANTS
    NothingOutlivesPost
    ErasedLeaveNothing
PROPERTIES
    RequestsAnswered
CHECK_DEADLOCK FALSE
