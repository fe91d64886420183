\* The tables BuildTable writes from three keys, without I/O failures, with clients
\* that call ChangeOptions with another filter policy, or none.
CONSTANTS
  Keys = {1, 3, 5}
  EntrySizes = {2, 30}
  BlockSize = 13
  UseFilter = TRUE
  MaxFailures = 0
  NewOptions <- MCPolicyChanges
  FilterBaseLg = 5
SPECIFICATION Spec
INVARIANTS
  MetaindexNamesFilterPolicy
\* Finish and Abandon end the builder: a closed builder takes no more calls.
CHECK_DEADLOCK FALSE
