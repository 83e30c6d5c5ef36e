--------------------------- MODULE MCProviderCalls ---------------------------
(***************************************************************************)
(* The instances of ModelCalls, and so of ProviderCalls, that TLC checks.  *)
(* A live model is tried with one local knowledge only: a model call reads *)
(* none of it.                                                             *)
(***************************************************************************)
EXTENDS ModelCalls

Train == Option("local_train", 90, FALSE, "record")
Bus == Option("highway_bus", 60, TRUE, "record")
Car == Option("car", 30, TRUE, "record")

MCRowSets == {{}, {Car}, {Train, Car}, {Bus}}
MCDistances == {-1, 100}

MCInit ==
  /\ ModelInit
  /\ llm # "demo" => rows = {} /\ km = -1 /\ match = 0 /\ ~weatherKnown /\ \A c \in Callers : allowCar[c]

MCSpec == MCInit /\ [][ModelNext]_allVars /\ \A c \in Callers : WF_allVars(Progress(c))
=============================================================================
