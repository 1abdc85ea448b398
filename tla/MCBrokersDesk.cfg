CONSTANTS
  t1 = t1
  t2 = t2
  w1 = w1
  s1 = s1
  s2 = s2
  Null = Null
  Tokens <- MCTokens
  Consoles <- MCConsoles
  Accounts <- MCAccounts
  Skill <- MCSkill
  Active <- MCActive
  Shown <- MCShown
  MaxRuns = 2
SPECIFICATION Spec
INVARIANTS
  DeskTypeOK
  FiledUnderOwnSkill
  NoInventedMark
PROPERTY
  EventuallyWorking
