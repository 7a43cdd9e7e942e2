---------------------------- MODULE GeometryProvider ----------------------------
(***************************************************************************)
(* acts_geometry_provider: reads the detector geometry into Geant4, searches *)
(* it for the tracker stations, builds an Acts tracking geometry of one      *)
(* surface per station, and provides it to the job; at the end of the job    *)
(* the Geant4 stores are emptied.                                          *)
(*                                                                         *)
(* Geant4 shares logical volumes: a placed volume can be reached on several  *)
(* paths from the world, and its global position depends on the path.  A     *)
(* position is a coordinate across the beam and one along it, a volume has a *)
(* half width across it, and placements are translations.                  *)
(* All work on the geometry is done by one thread, the geometry thread.     *)
(***************************************************************************)
EXTENDS Integers, Sequences, FiniteSets, FiniteSetsExt, SequencesExt

CONSTANTS Volumes,     \* placed volumes
          World,       \* the world volume
          NumStations, \* kNumStations
          Geometries,  \* geometries the job may be given
          Margin       \* margin of the container around the stations

Position == [x : Int, z : Int]
Translated(a, b) == [x |-> a.x + b.x, z |-> a.z + b.z]

\* name[v] is the number of the station v is called after, 0 for other names;
\* at[v] its placement in its mother volume, halfX[v] the half width of its solid.
Geometry == [daughters : [Volumes -> Seq(Volumes)],
             name : [Volumes -> 0 .. NumStations],
             at : [Volumes -> Position],
             halfX : [Volumes -> Nat]]

\* StationPlacement
StationPlacement == [origin : Position, halfX : Nat]

ASSUME GeometryAssumption ==
    /\ World \in Volumes
    /\ NumStations \in Nat \ {0}
    /\ Geometries \subseteq Geometry
    /\ \A g \in Geometries : g.name[World] = 0
    /\ Margin \in Nat \ {0}

\* A placed volume is added to its mother once, and no volume lies within itself:
\* each has a depth, and its daughters a greater one.
ASSUME PlacementAssumption ==
    /\ IsFiniteSet(Volumes)
    /\ \A g \in Geometries :
          /\ \A v \in Volumes : IsInjective(g.daughters[v])
          /\ \E depth \in [Volumes -> 1 .. Cardinality(Volumes)] :
                \A v \in Volumes : \A w \in ToSet(g.daughters[v]) : depth[v] < depth[w]

Stations == 1 .. NumStations

VARIABLES
    geometry, \* the geometry of this job
    phase,    \* how far the plugin has come
    stack,    \* calls of find_station, outermost first: volume, next daughter
    history,  \* G4NavigationHistory: global position of each level
    stations, \* placements found, station 1 first
    surfaces, \* surfaces[s]: origin and half width of the surface of station s
    container,\* their container volume, centred on the beam: twice the coordinate
              \* of the centre, twice the half length, half width
    stores,   \* the Geant4 stores hold volumes
    cleanup   \* the G4GeometryCleanup: "none", "held" by the provider, "done"

vars == <<geometry, phase, stack, history, stations, surfaces, container, stores, cleanup>>

Phases == {"registering", "converting", "searching", "building", "providing",
           "throwing", "ended", "segfault"}
Call == [volume : Volumes, next : Nat]
NoContainer == [center2 |-> 0, length |-> 0, halfX |-> 0]

TypeOK ==
    /\ geometry \in Geometry
    /\ phase \in Phases
    /\ stack \in Seq(Call)
    /\ history \in Seq(Position)
    /\ Len(history) = Len(stack)
    /\ stations \in Seq(StationPlacement) /\ Len(stations) <= NumStations
    /\ DOMAIN surfaces \subseteq Stations
    /\ container \in [center2 : Int, length : Nat, halfX : Nat]
    /\ stores \in BOOLEAN
    /\ cleanup \in {"none", "held", "done"}

Init ==
    /\ geometry \in Geometries
    /\ phase = "registering"
    /\ stack = << >> /\ history = << >>
    /\ stations = << >>
    /\ surfaces = << >>
    /\ container = NoContainer
    /\ stores = FALSE
    /\ cleanup = "none"

-------------------------------------------------------------------------------
(* Reading the geometry *)

\* The geometry file exists as given or below SHIPGEOMETRY_ROOT.
ResolveFile ==
    /\ phase = "registering"
    /\ phase' = "converting"
    /\ UNCHANGED <<geometry, stack, history, stations, surfaces, container, stores, cleanup>>

FileMissing ==
    /\ phase = "registering"
    /\ phase' = "throwing"
    /\ UNCHANGED <<geometry, stack, history, stations, surfaces, container, stores, cleanup>>

\* find_station is called for the world volume, with a new history.
SearchFromWorld ==
    /\ stack' = <<[volume |-> World, next |-> 1]>>
    /\ history' = <<geometry.at[World]>>

\* SHiPGeometryService converts the geometry; the world volume is placed.
Convert ==
    /\ phase = "converting"
    /\ phase' = "searching"
    /\ stores' = TRUE
    /\ SearchFromWorld
    /\ UNCHANGED <<geometry, stations, surfaces, container, cleanup>>

\* The file is unreadable or there is no world volume.  What a conversion that
\* failed may have left in the stores is not modelled.
ConvertFails ==
    /\ phase = "converting"
    /\ phase' = "throwing"
    /\ UNCHANGED <<geometry, stack, history, stations, surfaces, container, stores, cleanup>>

-------------------------------------------------------------------------------
(* find_station, one action for each part of a call *)

Target == Len(stations) + 1
Top == stack[Len(stack)]
Matches == geometry.name[Top.volume] = Target
Daughters == geometry.daughters[Top.volume]
Placement == [origin |-> Last(history), halfX |-> geometry.halfX[Top.volume]]

\* The search for the next station goes on from where the last one ended.
Found_KeepsPlace ==
    /\ phase = "searching"
    /\ Matches
    /\ stations' = Append(stations, Placement)
    /\ IF Target < NumStations
       THEN UNCHANGED <<phase, stack, history>>
       ELSE phase' = "building" /\ stack' = << >> /\ history' = << >>
    /\ UNCHANGED <<geometry, surfaces, container, stores, cleanup>>

\* The volume has the name: its position is that of the top of the history, and
\* the search for the next station starts, if there is one.
Found ==
    /\ phase = "searching"
    /\ Matches
    /\ stations' = Append(stations, Placement)
    /\ IF Target < NumStations
       THEN SearchFromWorld /\ UNCHANGED phase
       ELSE phase' = "building" /\ stack' = << >> /\ history' = << >>
    /\ UNCHANGED <<geometry, surfaces, container, stores, cleanup>>

\* The first daughter again and again.
Descend_SameDaughter ==
    /\ phase = "searching"
    /\ ~Matches
    /\ Top.next <= Len(Daughters)
    /\ LET daughter == Daughters[Top.next]
       IN  /\ stack' = Append(stack, [volume |-> daughter, next |-> 1])
           /\ history' = Append(history, Translated(Last(history), geometry.at[daughter]))
    /\ UNCHANGED <<geometry, phase, stations, surfaces, container, stores, cleanup>>

\* The next daughter: NewLevel and the recursive call.
Descend ==
    /\ phase = "searching"
    /\ ~Matches
    /\ Top.next <= Len(Daughters)
    /\ LET daughter == Daughters[Top.next]
       IN  /\ stack' = Append([stack EXCEPT ![Len(stack)].next = @ + 1],
                              [volume |-> daughter, next |-> 1])
           /\ history' = Append(history, Translated(Last(history), geometry.at[daughter]))
    /\ UNCHANGED <<geometry, phase, stations, surfaces, container, stores, cleanup>>

\* Nothing in this volume: return to the caller, BackLevel.
Return ==
    /\ phase = "searching"
    /\ ~Matches
    /\ Top.next > Len(Daughters)
    /\ Len(stack) > 1
    /\ stack' = Front(stack)
    /\ history' = Front(history)
    /\ UNCHANGED <<geometry, phase, stations, surfaces, container, stores, cleanup>>

\* A daughter without the name ends the search.
NotFound_AtFirstLeaf ==
    /\ phase = "searching"
    /\ ~Matches
    /\ Top.next > Len(Daughters)
    /\ phase' = "throwing"
    /\ UNCHANGED <<geometry, stack, history, stations, surfaces, container, stores, cleanup>>

\* The world is exhausted: build_tracking_geometry throws.
NotFound ==
    /\ phase = "searching"
    /\ ~Matches
    /\ Top.next > Len(Daughters)
    /\ Len(stack) = 1
    /\ phase' = "throwing"
    /\ UNCHANGED <<geometry, stack, history, stations, surfaces, container, stores, cleanup>>

-------------------------------------------------------------------------------
(* The tracking geometry and the provider *)

MinZ == Min({stations[s].origin.z : s \in Stations})
MaxZ == Max({stations[s].origin.z : s \in Stations})
MaxHalfX == Max({stations[s].halfX : s \in Stations})

\* The first and the last station are taken for the outermost.
Container_FirstToLast ==
    LET first == stations[1].origin.z
        last == stations[NumStations].origin.z
    IN  [center2 |-> last + first, length |-> Max({last - first, 0}) + 2 * Margin,
         halfX |-> MaxHalfX + Margin]

Container ==
    [center2 |-> MaxZ + MinZ, length |-> MaxZ - MinZ + 2 * Margin, halfX |-> MaxHalfX + Margin]

\* The cleanup is left to the destructors of the stores.
Build_NoCleanup ==
    /\ phase = "building"
    /\ phase' = "providing"
    /\ container' = Container
    /\ surfaces' = stations
    /\ UNCHANGED <<geometry, stack, history, stations, stores, cleanup>>

\* One surface per station, all of them in the container volume; back on the
\* main thread the cleanup is made and handed to the provider with the product.
Build ==
    /\ phase = "building"
    /\ phase' = "providing"
    /\ container' = Container
    /\ surfaces' = stations
    /\ cleanup' = "held"
    /\ UNCHANGED <<geometry, stack, history, stations, stores>>

\* Blueprint::construct throws.
BuildFails ==
    /\ phase = "building"
    /\ phase' = "throwing"
    /\ UNCHANGED <<geometry, stack, history, stations, surfaces, container, stores, cleanup>>

\* The provider is destroyed at the end of the job: ~G4GeometryCleanup empties
\* the stores on the geometry thread.
DestroyProvider ==
    /\ phase = "providing"
    /\ cleanup = "held"
    /\ cleanup' = "done"
    /\ stores' = FALSE
    /\ UNCHANGED <<geometry, phase, stack, history, stations, surfaces, container>>

\* The main thread leaves main() after the job, or after an exception of the
\* plugin, and runs the destructors of the static stores: a volume that is still
\* registered is deleted there, without the data of the geometry thread.
Exit ==
    /\ phase = "throwing" \/ (phase = "providing" /\ cleanup # "held")
    /\ phase' = IF stores THEN "segfault" ELSE "ended"
    /\ UNCHANGED <<geometry, stack, history, stations, surfaces, container, stores, cleanup>>

Finished == phase \in {"ended", "segfault"} /\ UNCHANGED vars

Work ==
    \/ ResolveFile \/ FileMissing \/ Convert \/ ConvertFails
    \/ Found \/ Descend \/ Return \/ NotFound
    \/ Build \/ BuildFails
    \/ DestroyProvider \/ Exit

Next == Work \/ Finished

Spec == Init /\ [][Next]_vars
FairSpec == Spec /\ WF_vars(Work)

-------------------------------------------------------------------------------
(* Properties *)

\* The paths from the world to volumes called after station s.
PathsTo(s) ==
    {p \in UNION {[1 .. n -> Volumes] : n \in 1 .. Cardinality(Volumes)} :
        /\ p[1] = World
        /\ \A i \in 1 .. Len(p) - 1 : p[i + 1] \in ToSet(geometry.daughters[p[i]])
        /\ geometry.name[p[Len(p)]] = s
        /\ \A i \in 1 .. Len(p) - 1 : geometry.name[p[i]] # s}

PositionOf(path) ==
    [x |-> MapThenSumSet(LAMBDA i : geometry.at[path[i]].x, DOMAIN path),
     z |-> MapThenSumSet(LAMBDA i : geometry.at[path[i]].z, DOMAIN path)]

\* p is met before q: where they part, p takes the earlier daughter.
MetBefore(p, q) ==
    \E i \in 1 .. Len(p) - 1 :
        /\ i < Len(q)
        /\ SubSeq(p, 1, i) = SubSeq(q, 1, i)
        /\ LET place(v) == CHOOSE k \in DOMAIN geometry.daughters[p[i]] :
                               geometry.daughters[p[i]][k] = v
           IN  place(p[i + 1]) < place(q[i + 1])

\* Each placement found is that of the first volume of that name that a walk from
\* the world meets: its position composed of the placements on its path, its own
\* width.
StationsArePlaced ==
    \A s \in DOMAIN stations :
        \E p \in PathsTo(s) :
            /\ stations[s] = [origin |-> PositionOf(p), halfX |-> geometry.halfX[Last(p)]]
            /\ \A q \in PathsTo(s) : q # p => MetBefore(p, q)

\* A geometry is refused for want of a station only if it has none of that name.
RefusedIfMissing ==
    [][phase = "searching" /\ phase' = "throwing" => PathsTo(Target) = {}]_vars

\* The volume that holds the surfaces reaches beyond each by the margin, in
\* whatever order the stations are along the beam; across the beam it holds the
\* whole of each surface that is off the axis by no more than the margin, however
\* the widths of the stations differ.
ContainerSpansStations ==
    phase = "providing" =>
        \A s \in Stations :
            LET o == surfaces[s].origin
            IN  /\ 2 * (o.z - Margin) >= container.center2 - container.length
                /\ 2 * (o.z + Margin) <= container.center2 + container.length
                /\ o.x \in -Margin .. Margin =>
                       /\ o.x - surfaces[s].halfX >= -container.halfX
                       /\ o.x + surfaces[s].halfX <= container.halfX

\* The search ends in every geometry, and the job with it.
Ends == <>(phase \in {"ended", "segfault"})

\* Nothing is left in the Geant4 stores when their destructors run.
CleanExit == phase # "segfault"

\* It is so in every job that got its geometry.
CleanExitOnceProvided == surfaces # << >> => CleanExit
===============================================================================
