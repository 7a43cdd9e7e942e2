------------------------- MODULE MCGeometrySelection -------------------------
(* Components of two or three values: neighbours on both sides and the edge.   *)
(* Field lookups have no state in common with the containers: they are made    *)
(* while the container is empty.                                           *)
EXTENDS GeometrySelection, FieldProvider

MCCoordinates == {-Infinity, -5, -4, -1, 0, 4, 5, 100, 101, Infinity, NaN}

MCInit == Init /\ FieldInit

LookupStep == elements = << >> /\ query = Identifier(0, 0, 0) /\ FieldNext /\ UNCHANGED vars
ContainerStep == lookup = "idle" /\ Next /\ UNCHANGED fieldVars

MCSpec == MCInit /\ [][LookupStep \/ ContainerStep]_<<vars, fieldVars>>
===============================================================================
