--------------------------- MODULE MCAlertEngine ---------------------------
(* Values of AlertEngine's constants that are functions over the rules, or *)
(* sets of fingerprints.                                                   *)
EXTENDS AlertEngine

NoGate == [r \in Rules |-> 0]
UnitGate == [r \in Rules |-> 1]
TwoTicks == [r \in Rules |-> 2]
UnitGateOnSecond == [r \in Rules |-> IF r = 2 THEN 1 ELSE 0]
Always == [r \in Rules |-> TRUE]
AllFPs == FPs
FPsOfSecond == {fp \in FPs : RuleOf(fp) = 2}
=============================================================================
