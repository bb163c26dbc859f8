SPECIFICATION HSpec
CONSTANTS
    Reqs = {r1, r2}
    UserIds = {u1, u2}
    PostIds = {1, 2}
    CommentIds = {}
    Titles = {"Foo", "Foo 2"}
    NoTitle = ""
    Slugify <- MCSlugify
    MaxPostsPerUser = 1
    MaxCommentsPerPost = 0
    MaxDepth = 0
    Ops = {"createPost", "updatePost", "removePost"}
    OtherSessions = TRUE
SYMMETRY Symmetry
INVARIANTS
    SlugsUnique
    SlugFollowsTitle
PROPERTIES
    PostsCapped
    ChangedByOwner
CHECK_DEADLOCK FALSE
