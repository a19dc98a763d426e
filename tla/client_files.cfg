CONSTANTS
  s1 = s1  s2 = s2  a1 = a1  a2 = a2  a3 = a3  g1 = g1  n1 = n1  n2 = n2  v1 = v1  v2 = v2
  None = None  Half = Half  Torn = Torn
  Shells = {s1, s2}  Aliases = {a1, a2, a3}  Groups = {g1}  Names = {n1, n2}  Values = {v1, v2}
  MaxVer = 3
  Scenarios <- All
SPECIFICATION Spec
INVARIANT TypeOK
 
INVARIANT MembersAreTargets
INVARIANT VersionKept
INVARIANT ListHonest
CHECK_DEADLOCK FALSE
