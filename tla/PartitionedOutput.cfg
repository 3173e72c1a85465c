SPECIFICATION FairSpec
CONSTANTS
  MaxWorkers = 2
  MaxExecutions = 2
  SinkParts = {0, 1, 2}
  Listing <- MCListing
  Sources = {0, 1}
  Script <- MCScript
  RecParts = {"r", "q"}
  RecOf <- MCRecOf
  PageSize = 1
INVARIANTS TypeOK OneWriter ResumeCutsFiles OpenFilesExact PrimariesBalanced
PROPERTY FilesExactlyOnce
CHECK_DEADLOCK FALSE
