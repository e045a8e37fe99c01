SPECIFICATION Spec
CONSTANTS
  WorkerIds = {0}
  Threads = {0, 1}
  Requests = {0, 1}
  Rips = {0, 1}
  PlainStopReasons = {"normal_guest_return"}
  DiagnosticKinds = {"loader_rejected"}
  Limits = {}
  ExitCodes = {0, 1}
  MaxSyscallRequests = 1
  ChannelCapacity = 1
PROPERTIES
  SessionReturns
  KeepsPromise
