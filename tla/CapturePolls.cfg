\* A connection lost while a poll waits for its answer.
SPECIFICATION Spec
CONSTANTS
    Polls = {cookies, storage}
    StoragePolls = {storage}
    Fetches = {f1}
    MaxReconnects = 3
CHECK_DEADLOCK FALSE
INVARIANT PollsOutliveReconnects
