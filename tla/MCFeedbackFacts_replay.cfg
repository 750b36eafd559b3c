\* Two feedbacks on one resource, one call at a time.
CONSTANTS
    f1 = f1
    f2 = f2
    h1 = h1
    o1 = o1
    NoPlace = NoPlace
    NoPost = NoPost
    NoState = NoState
    Feedbacks = {f1, f2}
    Places = {h1}
    PlaceOf <- OneResource
    Posts = {o1}
    MaxVersions = 3
SPECIFICATION FeedbackSpec
PROPERTIES RepeatedFeedbackChangesNothing
CHECK_DEADLOCK FALSE
