CONSTANTS
  requester = requester
  admin1 = admin1
  admin2 = admin2
  Users = {requester, admin1, admin2}
  Admins = {requester, admin1}
  Operators = {requester, admin1, admin2}
  Requester = requester
  NumSteps = 2
  WaitSteps = {}
  MaxFaults = 0
  NoUser = NoUser
SPECIFICATION Spec
PROPERTIES StopsOnFirstFailure
CHECK_DEADLOCK FALSE
