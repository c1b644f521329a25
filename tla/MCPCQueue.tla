----------------------------- MODULE MCPCQueue -----------------------------
(* Two producers and a consumer, in every discipline the program or its    *)
(* tests use: Put and Get alone; a consumer that also drains with TryGet   *)
(* (IndexAgent); a producer that uses TryPut; both.                        *)
EXTENDS PCQueue

CONSTANTS p1, p2, c1

MCRoles ==
  {[t \in {p1, p2, c1} |->
      CASE t = p1 -> {"Put"}
        [] t = p2 -> IF tryPut THEN {"TryPut"} ELSE {"Put"}
        [] t = c1 -> IF tryGet THEN {"Get", "TryGet"} ELSE {"Get"}]
   : tryPut \in BOOLEAN, tryGet \in BOOLEAN}
=============================================================================
