--------------------------- MODULE MCGeometryProvider ---------------------------
(* All geometries of four volumes with two stations, daughters in the order of *)
(* their numbers: trees, shared volumes, stations within stations, several     *)
(* volumes of one name, volumes without one.                               *)
EXTENDS GeometryProvider

MCVolumes == 1 .. 4
MCEdges == {e \in MCVolumes \X MCVolumes : e[1] < e[2]}
MCAt == <<[x |-> 0, z |-> 0], [x |-> 1, z |-> -1], [x |-> -2, z |-> 10], [x |-> 0, z |-> -100]>>
MCNames == {<<0, a, b, c>> : a \in 0 .. 2, b \in 0 .. 2, c \in 0 .. 2}
MCGeometries ==
    {[daughters |-> [v \in MCVolumes |->
          SetToSortSeq({w \in MCVolumes : <<v, w>> \in edges}, LAMBDA a, b : a < b)],
      name |-> names,
      at |-> MCAt,
      halfX |-> <<9, 1, 2, 3>>] : edges \in SUBSET MCEdges, names \in MCNames}
===============================================================================
