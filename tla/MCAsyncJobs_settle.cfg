\* One job, cancelled by a client at any moment, with a shutdown at any moment.
SPECIFICATION FairSpec
CONSTANTS
  Job = {j1}
  Caller = {client, closer}
  Closer = closer
  NoJob = NoJob
  MaxWorkers = 1
  MaxPending = 1
PROPERTIES EveryJobSettles StoppedJobEnds
