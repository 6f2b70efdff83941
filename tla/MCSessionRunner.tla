-------------------------- MODULE MCSessionRunner ---------------------------
(***************************************************************************)
(* Instances of SessionRunner for TLC.  A .cfg picks the requests; their   *)
(* names tell their kind, key and process.                                 *)
(***************************************************************************)
EXTENDS SessionRunner

\* Retries of one request (input and inputAgain) carry its idem_key.
KindOf == [r \in Requests |->
    CASE r \in {"input", "inputAgain", "inputLater"} -> "input"
      [] r \in {"approve", "approveLater"} -> "approve"
      [] OTHER -> r]

KeyOf == [r \in Requests |-> IF r = "inputAgain" THEN "input" ELSE r]

\* p2 is a second replica.
HomeOf == [r \in Requests |->
    IF r \in {"inputAgain", "approveLater"} THEN "p2" ELSE "p1"]

NoMishaps == [m \in Mishaps |-> 0]
OneOf(kinds) == [m \in Mishaps |-> IF m \in kinds THEN 1 ELSE 0]
TimeoutFaultCrash == OneOf({"timeout", "fault", "crash"})
FaultAndShutdown == OneOf({"fault", "shutdown"})
=============================================================================
