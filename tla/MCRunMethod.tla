----------------------------- MODULE MCRunMethod -----------------------------
(* Configurations of a development, a locked-test and a final stage.           *)
EXTENDS RunMethod

CONSTANTS dev, test, final

MCConfigs == {dev, test, final}
MCStage == [c \in MCConfigs |-> IF c = dev THEN "dev"
                               ELSE IF c = test THEN "locked-test" ELSE "final"]
=============================================================================
