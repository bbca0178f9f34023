CONSTANTS
    Dashboards = {a, b}
    NoDashboard = NoDashboard
    Conditions = {{"refetch"}, {"return"}, {"return", "refetch"},
                  {"refetch", "race", "failure"}, {"return", "haste", "race", "failure"}}
    MaxEdits = 2
    MaxSaves = 2
SPECIFICATION FairSpec
INVARIANTS TypeOK
PROPERTIES
    EditsStayOnPage
    
CHECK_DEADLOCK FALSE
