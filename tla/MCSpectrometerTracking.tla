------------------------ MODULE MCSpectrometerTracking ------------------------
(* Instances of SpectrometerTracking for TLC: four stations, as the detector. *)
EXTENDS SpectrometerTracking

MCStationZ == <<0, 10, 20, 30>>

At(s, x) == [x |-> x, z |-> MCStationZ[s], time |-> 0]

MCSpills == {
    \* one track, with a second hit on stations 1 and 3
    <<At(1, 2), At(1, 0), At(2, 0), At(3, 0), At(3, 2), At(4, 0)>>,
    \* two seeds, one with a hit of station 2 that has no position and is listed first
    <<At(4, 0), At(2, NaN), At(2, 1), At(3, 0), At(1, 0)>>,
    \* station 3 is empty: too few hits
    <<At(1, 0), At(2, 0), At(4, 0), At(4, 1)>>,
    \* no seed
    <<At(2, 0), At(3, 0), At(4, 0)>> }

MCPredictions == {0, 2, NaN}
===============================================================================
