SPECIFICATION FairSpec
CONSTANTS
  Tasks = {t1, t2, t3, t4}
  Keys = {a, b}
  States = {s1, s2}
  NoState = none
  NoKey = nokey
INVARIANTS
  IdleStatesAreForgotten
  SleepersHaveAWaker
PROPERTIES
  KeepsThePromises
  WritersGetThrough
