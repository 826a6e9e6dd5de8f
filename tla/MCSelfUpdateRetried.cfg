\* A download that fails once.
SPECIFICATION FairSpec
CONSTANTS
  Versions <- MCVersions
  First = "v1"
  MaxPublish = 2
PROPERTY Retried
