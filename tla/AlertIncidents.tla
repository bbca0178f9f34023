--------------------------- MODULE AlertIncidents ---------------------------
(***************************************************************************)
(* What the alert engine and the operators' requests make of the alerts    *)
(* table together, whatever they interleave with: each fingerprint has an  *)
(* incident or none.  A cycle opens and closes incidents, any number at    *)
(* once, but puts none in the place of another and answers none; an        *)
(* operator answers or closes one.  An answer lasts as long as the         *)
(* incident.  AlertEngine implements it.                                   *)
(***************************************************************************)
CONSTANTS Fingerprints, Alerts, NoAlert

VARIABLES
    incident,   \* the alert that stands for the fingerprint's condition
    answered    \* fingerprints whose incident somebody acknowledged

vars == <<incident, answered>>

Init ==
    /\ incident = [fp \in Fingerprints |-> NoAlert]
    /\ answered = {}

Opens(fp) == incident[fp] = NoAlert /\ incident'[fp] \in Alerts
Closes(fp) == incident[fp] # NoAlert /\ incident'[fp] = NoAlert
Stands(fp) == incident'[fp] = incident[fp]

Cycle ==
    /\ \A fp \in Fingerprints : Opens(fp) \/ Closes(fp) \/ Stands(fp)
    /\ answered' = {fp \in answered : Stands(fp)}

\* An acknowledgement that arrives late reopens what the engine has closed.
Answer(fp) ==
    /\ incident[fp] # NoAlert => Stands(fp)
    /\ incident'[fp] \in Alerts
    /\ answered' = answered \cup {fp}

Close(fp) ==
    /\ Closes(fp)
    /\ answered' = answered \ {fp}

Operator(fp) ==
    /\ Answer(fp) \/ Close(fp)
    /\ \A other \in Fingerprints \ {fp} : Stands(other)

Next == Cycle \/ \E fp \in Fingerprints : Operator(fp)

Spec == Init /\ [][Next]_vars
=============================================================================
