SPECIFICATION Spec
CONSTANTS
  s1 = s1
  s2 = s2
  c1 = c1
  c2 = c2
  c3 = c3
  p1 = p1
  Services = {s1, s2}
  Containers = {c1, c2, c3}
  Program <- MCProgram
  Plays = {p1}
  Quadlets = {c2}
  Appending = TRUE
  Keeps <- AllKeeps
PROPERTIES
  CleanedAreForgotten
