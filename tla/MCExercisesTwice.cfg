SPECIFICATION Spec
CONSTANTS
  Families = {"queues"}
  ListItems = {1, 2, 3}
  TreeItems = {1, 2}
  Keys = {1, 2, 3, 4, 5}
  ListNode = {n1, n2, n3, n4, n5, n6, n7, n8}
  TreeNode = {a1, a2, a3, a4, a5}
  NULL = NULL
INVARIANT
  StartsFromEmpty
CHECK_DEADLOCK FALSE
