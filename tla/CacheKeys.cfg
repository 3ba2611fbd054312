SPECIFICATION Spec
CONSTANTS
  Endpoints <- MCEndpoints
  Versions = {"v1", "latest"}
  Datasources = {"tranquility", "singularity"}
  Requests <- MCRequests
  Jobs <- MCJobs
  WarmVersions = {"latest"}
  MaxItems = 2
  NoBody = NoBody
  MaxKeys = 2
INVARIANTS
  TypeOK
  HitsAnswerTheRequest
  FallbacksAnswerTheRequest
  EquivalentRequestsShare
\* No further key is taken once the archive holds MaxKeys of them.
CHECK_DEADLOCK FALSE
