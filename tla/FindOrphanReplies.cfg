SPECIFICATION HSpec
CONSTANTS
    Reqs = {r1}
    UserIds = {u1, u2}
    PostIds = {1}
    CommentIds = {1, 2}
    Titles = {"Foo"}
    NoTitle = ""
    Slugify <- MCSlugify
    MaxPostsPerUser = 2
    MaxCommentsPerPost = 3
    MaxDepth = 1
    Ops = {"createPost", "createComment", "removeComment", "removeUser"}
    OtherSessions = FALSE
INVARIANTS
    NoOrphanReplies
CHECK_DEADLOCK FALSE
