\* A machine that loses power between the renames.
SPECIFICATION Spec
CONSTANTS
  Versions <- MCVersions
  First = "v1"
  MaxPublish = 2
INVARIANT ReplaceIsAtomic
