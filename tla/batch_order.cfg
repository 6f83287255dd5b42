SPECIFICATION Spec
CONSTANTS
  Key = {"users_1", "posts_1", "users_2"}
  Name <- UserKeys
  Content = {"read", "unread"}
  Unreadable = {"unread"}
  Absent = "absent"
  Batch <- Batches
INVARIANT MatchesKeys
