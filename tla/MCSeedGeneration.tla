--------------------------- MODULE MCSeedGeneration ---------------------------
(* Instances of SeedGeneration for TLC. *)
EXTENDS SeedGeneration

CONSTANT MaxHits  \* bound: hits in a spill

\* Three stations 4 apart with a window of 3, so that windows overlap: z = 2 is
\* equally near to stations 1 and 2, z = 3 is nearer to 2 and also sees 1.
MCStationZ == <<0, 4, 8>>

MCHits ==
    { [x |-> 0, z |-> 0, time |-> 0],    \* station 1
      [x |-> 1, z |-> 2, time |-> 6],    \* a tie, station 1; late
      [x |-> 0, z |-> 3, time |-> 0],    \* station 2, before it
      [x |-> 1, z |-> 4, time |-> 5],    \* station 2, at the end of the window
      [x |-> 3, z |-> 4, time |-> NaN],  \* station 2, off axis, without a time
      [x |-> 0, z |-> 8, time |-> 0],    \* station 3
      [x |-> NaN, z |-> 4, time |-> 0],  \* station 2, without a transverse position
      [x |-> 0, z |-> -3, time |-> 0],   \* on the edge of the window: dropped
      [x |-> 0, z |-> NaN, time |-> 0] } \* nowhere: dropped

MCSpills == UNION {[1 .. n -> MCHits] : n \in 0 .. MaxHits}
===============================================================================
