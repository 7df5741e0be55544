-------------------------- MODULE MCStepExecution --------------------------
(* Two workers, the second with two devices.  k1 goes from u1 to u2 on the  *)
(* other worker, k2 on to u3 on the same worker, and f is fetched from u3.  *)
EXTENDS StepExecution
CONSTANTS w1, w2, u1, u2, u3, k1, k2, f

MCOrder == <<w1, w2>>
MCUnits == {u1, u2, u3}
MCWorkerOf == [u \in MCUnits |-> IF u = u1 THEN w1 ELSE w2]
MCKeys == {k1, k2, f}
MCSrc == [k \in MCKeys |-> IF k = k1 THEN u1 ELSE IF k = k2 THEN u2 ELSE u3]
MCDst == [k \in MCKeys |-> IF k = k1 THEN u2 ELSE u3]
MCNeeds == [k \in MCKeys |-> IF k = k1 THEN {} ELSE IF k = k2 THEN {k1} ELSE {k2}]
=============================================================================
