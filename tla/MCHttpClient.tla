----------------------------- MODULE MCHttpClient -----------------------------
(* Instances of HttpClient for TLC.                                        *)
EXTENDS HttpClient

CONSTANTS i1, i2
MCInstances == {i1, i2}
One(r)    == [i \in MCInstances |-> IF i = i1 THEN r ELSE Absent]
MCConfigs == {One(2), [i \in MCInstances |-> 1],
              [i \in MCInstances |-> IF i = i1 THEN 1 ELSE Unusable]}
=============================================================================
