---------------------------- MODULE MCIpaPoll ----------------------------
(* Constants of IpaPoll for model checking: profile A is enabled at the start. *)
EXTENDS IpaPoll

CONSTANTS A, B, C, switch, switchBack, swap, plain, list, data

Op(k, p, rb) == [op |-> k, iccid |-> p, rollbackFlag |-> rb]

MCPackageOps(p) ==
  CASE p = switch -> <<Op("enable", B, TRUE)>>
    [] p = switchBack -> <<Op("enable", A, TRUE)>>
    [] p = swap -> <<Op("disable", A, FALSE), Op("enable", B, TRUE), Op("delete", A, FALSE)>>
    [] p = plain -> <<Op("enable", C, FALSE), Op("other", C, FALSE)>>
    [] p = list -> <<Op("other", A, FALSE)>>
    [] OTHER -> <<>>

MCOps == [p \in Packages |-> MCPackageOps(p)]
MCEuiccPackages == Packages \ {data}
=============================================================================
