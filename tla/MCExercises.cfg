SPECIFICATION Spec
CONSTANTS
  Families = {"lists", "queues", "trees", "frail trees", "search trees", "frail search trees"}
  ListItems = {1, 2, 3}
  TreeItems = {1, 2}
  Keys = {1, 2, 3, 4, 5}
  ListNode = {n1, n2, n3, n4, n5, n6, n7, n8}
  TreeNode = {a1, a2, a3, a4, a5}
  NULL = NULL
INVARIANTS
  WellFormed
  ShowsTheResult
  NothingLeaked
  FailsSafely
PROPERTIES
  CallsReturn
CHECK_DEADLOCK FALSE
