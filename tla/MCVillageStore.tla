---------------------------- MODULE MCVillageStore ----------------------------
(***************************************************************************)
(* TLC instance of VillageStore.  Two policy bodies: "open" asks for no    *)
(* signature, "strict" accepts only the signed update.  A document that    *)
(* cannot be read accepts every update.  One update has a policy that does *)
(* not pass validation, another names a village this node does not have.   *)
(***************************************************************************)
EXTENDS VillageStore, TLC

CONSTANTS p1, p2, i1, uOpen, uSigned, uBroken, uAway

MCProc1 == {p1}
MCProc2 == {p1, p2}
MCBody == {"open", "strict"}
MCIssuer == {i1}

MCSound == {uOpen, uSigned}
MCAll   == MCSound \cup {uBroken, uAway}
MCElsewhere == Update \cap {uAway}

Plain(b) == [body |-> b, allow |-> {}, block |-> {}]

MCPolicyOf == [u \in Update |-> CASE u = uBroken -> NoPolicy
                                  [] u = uSigned -> Plain("strict")
                                  [] OTHER       -> Plain("open")]
MCAccepts == [b \in Body \cup {NoPolicy} |-> IF b = "strict" THEN {uSigned} ELSE Update]
MCManaged == MCBody
MCGenesisOpen == [body |-> "open", allow |-> {}, block |-> {i1}]

===============================================================================
