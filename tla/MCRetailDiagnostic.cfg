SPECIFICATION RetailSpec
CONSTANTS
  WorkerIds = {0, 1}
  Threads = {0, 1}
  Requests = {0}
  Rips = {0, 1}
  Entry = 1
  PlainStopReasons = {"normal_guest_return"}
  DiagnosticKinds = {"loader_rejected", "entry_not_executable", "sce_dynamic_metadata_rejected", "unsupported_dynamic_dependencies", "unsupported_relocations", "unsupported_tls", "unsupported_initial_process_abi"}
  Limits = {1, 2}
  ExitCodes = {0, 71, 72, 73, 74, 75, 76, 77, 78, 79, 80, 81}
  MaxSyscallRequests = 0
  ChannelCapacity = 1
INVARIANTS
  ReportsFirstBoundary
  NoOrphanWork
  PrintedExchangeIsComplete
PROPERTY
  ExchangeCompletes
