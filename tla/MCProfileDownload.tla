------------------------- MODULE MCProfileDownload -------------------------
(* Constants of ProfileDownload for model checking: two SM-DP+ that may be used,
   one of them with automatic enabling, and one certified by a CA that the eIM
   configuration does not allow.                                               *)
EXTENDS ProfileDownload

CONSTANTS granted, other, foreign, P, Q, R, oid1, oid2, addr1, addr2, ca1, ca2

MCProfile == [t \in Triggers |-> CASE t = granted -> P [] t = other -> Q [] OTHER -> R]
MCSmdpOid == [t \in Triggers |-> IF t = other THEN oid1 ELSE IF t = granted THEN oid1 ELSE oid2]
MCSmdpAddress == [t \in Triggers |-> IF t = other THEN addr2 ELSE addr1]
MCCa == [t \in Triggers |-> IF t = foreign THEN ca2 ELSE ca1]
MCAutoEnableCfgs ==
  {[flag |-> TRUE, smdpOid |-> oid1, smdpAddress |-> addr1],
   [flag |-> TRUE, smdpOid |-> Absent, smdpAddress |-> Absent],
   [flag |-> FALSE, smdpOid |-> oid1, smdpAddress |-> addr1]}
=============================================================================
