SPECIFICATION Spec
CONSTANTS
  a = a
  b = b
  d = d
  e = e
  Containers <- MCContainers
  StartOrder <- MCOrder
  Execs = {d, e}
  Target <- MCTarget
  Unstarted = {b}
  Mounting = {a}
  Retries <- OneRetry
  Concurrency = 1
  Probes = 2
  Revisions = {1}
PROPERTIES
  RecreatedOnlyIfChanged
