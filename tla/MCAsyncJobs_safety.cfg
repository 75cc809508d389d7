\* Two submissions compete for one slot and one worker; a client cancels while another
\* thread shuts the runner down.
SPECIFICATION Spec
CONSTANTS
  Job = {j1, j2}
  Caller = {client, closer}
  Closer = closer
  NoJob = NoJob
  MaxWorkers = 1
  MaxPending = 1
SYMMETRY JobSymmetry
INVARIANTS SlotAccounting NoStaleEntry ProcessIsWatched DeliveredOnceAndFree CancelledHasCause
PROPERTIES ImplementsService
