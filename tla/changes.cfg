CONSTANTS
  requester = requester
  admin1 = admin1
  admin2 = admin2
  Users = {requester, admin1, admin2}
  Admins = {admin1, admin2}
  Operators = {admin1, admin2}
  Requester = requester
  NumSteps = 2
  WaitSteps = {2}
  MaxFaults = 1
  NoUser = NoUser
SPECIFICATION FairSpec
INVARIANTS TypeOK SecondPerson CompletedIsApplied SettledRecord
PROPERTIES ExecutionEnds
CHECK_DEADLOCK FALSE
