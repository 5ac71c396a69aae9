CONSTANTS
  r1 = r1
  r2 = r2
  r3 = r3
  c1 = c1
  c2 = c2
  s1 = s1
  s2 = s2
  Requests = {r1, r2}
  Categories = {c1, c2}
  Skills = {s1}
  MinSkills = 1
  MaxSkills = 1
  MaxStale = 1
SPECIFICATION Spec
CHECK_DEADLOCK FALSE
SYMMETRY Symmetry
INVARIANTS TypeOK DatesAgreeWithState SubmittedIsComplete FacetValuesWithinLimits VisibleOnlyAfterReview
PROPERTY ServedOneByOne
