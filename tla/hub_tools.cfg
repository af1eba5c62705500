\* One call of each tool, against everything that may answer it.
SPECIFICATION ToolsSpec
CONSTANTS
  Names = {t1, t2, t3, t4, t5}
  NoName = NoName
  CAP = 3
  PodList <- MCPods
  UriList <- MCUris
  MAX_REQUESTS = 2
  Namespaces = {n1, n2}
  Cluster = cluster
  Objects = {o1}
  MAX_CHANGES = 2
  Replicas <- MCReplicas
  MAX_PODS = 2
  MIN_SAMPLES = 3
  POOR = 4
  P75s = {2, 5}
  Counts = {0, 1, 2}
  Times = {1, 2}
  LogPods <- MCPods
  POD_CAP = 2
  TAIL = 2
  LOOKAHEAD = 2
  Classes = {"E"}
  Frames = {"F"}
  NoClass = "-"
  NoFrame = "-"
  Logs <- MCLogs
  SpanCounts = {1, 2, 3}
  Durations = {0, 1, 4}
  Starts = {1, 2}
  SHARE = 3
  SPAN_CAP = 2
  Templates <- MCTemplates
  References = {"s1", "s2"}
  Limits = {2, 10}
  MAX_ROLLOUTS = 7
INVARIANTS Sound Complete  CalmExact ListWhole MergeExact   HistoryExact
\* A call ends.
CHECK_DEADLOCK FALSE
