------------------------- MODULE GeometryProviderProofs -------------------------
(***************************************************************************)
(* The provider of the geometry, for every set of volumes and every          *)
(* geometry: a station is missed only if there is none and placed where the  *)
(* walk first meets it, the container holds the stations, and a job that got *)
(* its geometry ends with empty stores.                                      *)
(***************************************************************************)
EXTENDS GeometryProvider, DataLemmas

-------------------------------------------------------------------------------
(* Type correctness. *)

\* A call that is open: its next daughter has a number.
OpenCall == [volume : Volumes, next : Nat \ {0}]

\* The history has a level for each call that is open, one at least as long as
\* the search goes on, and the search goes on until it has all stations.
SearchInv ==
    /\ TypeOK
    /\ geometry \in Geometries
    /\ stack \in Seq(OpenCall)
    /\ phase \in {"registering", "converting"} => stations = << >>
    /\ phase = "searching" => stack # << >> /\ Len(stations) < NumStations
    /\ phase \in {"building", "providing"} => Len(stations) = NumStations
    /\ phase = "providing" => surfaces = stations /\ container = Container

\* A sequence that is not empty has a last element and one without it.
LEMMA LastAndFront ==
  ASSUME NEW S, NEW s \in Seq(S), s # << >>
  PROVE  /\ Len(s) \in Nat \ {0} /\ Len(s) \in DOMAIN s
         /\ Last(s) = s[Len(s)] /\ s[Len(s)] \in S
         /\ Front(s) \in Seq(S) /\ Len(Front(s)) = Len(s) - 1
         /\ \A i \in 1 .. (Len(s) - 1) : Front(s)[i] = s[i]
<1> PICK n \in Nat : n = Len(s)
  OBVIOUS
<1>1. n # 0
  OBVIOUS
<1>2. Last(s) = s[n] /\ s[n] \in S
  BY <1>1 DEF Last
<1>3. Front(s) = SubSeq(s, 1, n - 1)
  BY DEF Front
<1>4. SubSeq(s, 1, n - 1) \in Seq(S) /\ Len(SubSeq(s, 1, n - 1)) = n - 1
  BY <1>1
<1>5. \A i \in 1 .. (n - 1) : SubSeq(s, 1, n - 1)[i] = s[i]
  BY <1>1
<1> QED
  BY <1>1, <1>2, <1>3, <1>4, <1>5

\* Where one position is moved by another is a position.
LEMMA TranslatedTyped ==
  ASSUME NEW a \in Position, NEW b \in Position
  PROVE  Translated(a, b) \in Position
BY DEF Translated, Position

\* The container of a full list of stations.
LEMMA ContainerHolds ==
  ASSUME stations \in Seq(StationPlacement), Len(stations) = NumStations
  PROVE  /\ MinZ \in Int /\ MaxZ \in Int /\ MaxHalfX \in Nat
         /\ Container \in [center2 : Int, length : Nat, halfX : Nat]
         /\ \A s \in Stations :
               /\ MinZ <= stations[s].origin.z /\ stations[s].origin.z <= MaxZ
               /\ stations[s].halfX <= MaxHalfX
<1>1. NumStations \in Nat \ {0} /\ Margin \in Nat \ {0} /\ Stations = 1 .. NumStations
  BY GeometryAssumption DEF Stations
<1>2. \A s \in Stations : stations[s].origin.z \in Int /\ stations[s].halfX \in Nat
  <2> TAKE s \in Stations
  <2>1. stations[s] \in StationPlacement
    BY <1>1
  <2> QED
    BY <2>1 DEF StationPlacement, Position
<1>3. /\ MinZ \in Int /\ MaxZ \in Int
      /\ \A s \in Stations : MinZ <= stations[s].origin.z /\ stations[s].origin.z <= MaxZ
  <2> PICK f : f = [s \in Stations |-> stations[s].origin.z]
    OBVIOUS
  <2> PICK T : T = {stations[s].origin.z : s \in Stations}
    OBVIOUS
  <2>1. f \in [1 .. NumStations -> Int] /\ T = {f[i] : i \in 1 .. NumStations}
    BY <1>1, <1>2
  <2>2. /\ Min(T) \in T /\ \A y \in T : Min(T) <= y
        /\ Max(T) \in T /\ \A y \in T : Max(T) >= y
    BY ONLY <1>1, <2>1, MinMaxOfImage
  <2>3. MinZ = Min(T) /\ MaxZ = Max(T)
    BY DEF MinZ, MaxZ
  <2>4. T \subseteq Int
    BY <1>2
  <2>5. \A s \in Stations : stations[s].origin.z \in T
    OBVIOUS
  <2> QED
    BY ONLY <2>2, <2>3, <2>4, <2>5
<1>4. MaxHalfX \in Nat /\ \A s \in Stations : stations[s].halfX <= MaxHalfX
  <2> PICK f : f = [s \in Stations |-> stations[s].halfX]
    OBVIOUS
  <2> PICK T : T = {stations[s].halfX : s \in Stations}
    OBVIOUS
  <2>1. f \in [1 .. NumStations -> Int] /\ T = {f[i] : i \in 1 .. NumStations}
    BY <1>1, <1>2
  <2>2. Max(T) \in T /\ \A y \in T : Max(T) >= y
    BY ONLY <1>1, <2>1, MinMaxOfImage
  <2>3. MaxHalfX = Max(T)
    BY DEF MaxHalfX
  <2>4. T \subseteq Nat
    BY <1>2
  <2>5. \A s \in Stations : stations[s].halfX \in T
    OBVIOUS
  <2> QED
    BY ONLY <2>2, <2>3, <2>4, <2>5
<1>5. MaxZ - MinZ + 2 * Margin \in Nat
  <2>1. 1 \in Stations
    BY <1>1
  <2> PICK z \in Int : z = stations[1].origin.z
    BY <1>2, <2>1
  <2>2. MinZ <= z /\ z <= MaxZ
    BY <1>3, <2>1
  <2> QED
    BY <1>1, <1>3, <2>2
<1>6. Container \in [center2 : Int, length : Nat, halfX : Nat]
  <2>1. MaxZ + MinZ \in Int /\ MaxHalfX + Margin \in Nat
    BY <1>1, <1>3, <1>4
  <2> HIDE DEF MaxZ, MinZ, MaxHalfX
  <2> QED
    BY <1>5, <2>1 DEF Container
<1> QED
  BY <1>3, <1>4, <1>6

\* What the volume on top of the stack is, and where.
LEMMA TopTyped ==
  ASSUME SearchInv, phase = "searching"
  PROVE  /\ Len(stack) \in Nat \ {0} /\ Len(history) = Len(stack)
         /\ Top \in OpenCall /\ Top = Last(stack)
         /\ Daughters \in Seq(Volumes)
         /\ Last(history) \in Position
         /\ Placement \in StationPlacement
         /\ \A v \in Volumes : geometry.at[v] \in Position
<1>1. /\ stack \in Seq(OpenCall) /\ stack # << >> /\ history \in Seq(Position)
      /\ Len(history) = Len(stack) /\ geometry \in Geometry
  BY DEF SearchInv, TypeOK
<1>2. Len(stack) \in Nat \ {0} /\ Top \in OpenCall /\ Top = Last(stack)
  BY <1>1, LastAndFront DEF Top
<1>3. history # << >>
  BY <1>1, <1>2
<1>4. Last(history) \in Position
  BY <1>1, <1>3, LastAndFront
<1>5. Top.volume \in Volumes
  BY <1>2 DEF OpenCall
<1>6. /\ Daughters \in Seq(Volumes) /\ geometry.halfX[Top.volume] \in Nat
      /\ \A v \in Volumes : geometry.at[v] \in Position
  BY <1>1, <1>5 DEF Daughters, Geometry
<1>7. Placement \in StationPlacement
  BY <1>4, <1>6 DEF Placement, StationPlacement
<1> QED
  BY <1>1, <1>2, <1>4, <1>6, <1>7

\* A search that starts again is well typed.
LEMMA SearchStarts ==
  ASSUME geometry \in Geometry, SearchFromWorld
  PROVE  /\ stack' \in Seq(OpenCall) /\ stack' # << >>
         /\ history' \in Seq(Position) /\ Len(history') = Len(stack')
<1>1. World \in Volumes
  BY GeometryAssumption
<1>2. [volume |-> World, next |-> 1] \in OpenCall
  BY <1>1 DEF OpenCall
<1>3. geometry.at[World] \in Position
  BY <1>1 DEF Geometry
<1> QED
  BY <1>2, <1>3 DEF SearchFromWorld

\* Every step of the provider keeps its types.
LEMMA SearchStep == SearchInv /\ [Next]_vars => SearchInv'
<1> SUFFICES ASSUME SearchInv, [Next]_vars PROVE SearchInv'
  OBVIOUS
<1>0. geometry \in Geometry /\ NumStations \in Nat \ {0}
  BY GeometryAssumption DEF SearchInv, TypeOK
<1>a. Seq(OpenCall) \subseteq Seq(Call)
  <2>1. OpenCall \subseteq Call
    BY DEF OpenCall, Call
  <2> QED
    BY <2>1
<1>1. CASE ResolveFile \/ FileMissing \/ ConvertFails \/ BuildFails
  BY <1>1 DEF ResolveFile, FileMissing, ConvertFails, BuildFails, SearchInv, TypeOK,
              Phases, Container, MinZ, MaxZ, MaxHalfX
<1>2. CASE Convert
  <2>1. /\ stack' \in Seq(OpenCall) /\ stack' # << >>
        /\ history' \in Seq(Position) /\ Len(history') = Len(stack')
    BY <1>0, <1>2, SearchStarts DEF Convert
  <2> QED
    <3>1. /\ phase' = "searching" /\ stores' = TRUE
          /\ UNCHANGED <<geometry, stations, surfaces, container, cleanup>>
      BY <1>2 DEF Convert
    <3>2. Len(stations) < NumStations
      <4>1. stations = << >>
        BY <1>2 DEF Convert, SearchInv
      <4>2. Len(stations) = 0
        BY <4>1
      <4> QED
        BY <1>0, <4>2
    <3>3. TypeOK'
      BY <1>a, <2>1, <3>1 DEF SearchInv, TypeOK, Phases
    <3> QED
      BY <2>1, <3>1, <3>2, <3>3 DEF SearchInv
<1>3. CASE Found
  <2>1. phase = "searching" /\ stations' = Append(stations, Placement)
    BY <1>3 DEF Found
  <2>2. Placement \in StationPlacement
    BY <2>1, TopTyped
  <2>3. /\ stations' \in Seq(StationPlacement)
        /\ Len(stations') = Len(stations) + 1 /\ Len(stations) \in Nat
        /\ Len(stations) < NumStations
    BY <2>1, <2>2 DEF SearchInv, TypeOK
  <2>4. CASE Target < NumStations
    <3>1. SearchFromWorld /\ phase' = "searching"
      BY <1>3, <2>1, <2>4 DEF Found
    <3>2. /\ stack' \in Seq(OpenCall) /\ stack' # << >>
          /\ history' \in Seq(Position) /\ Len(history') = Len(stack')
      BY <1>0, <3>1, SearchStarts
    <3>3. Len(stations') < NumStations
      BY <1>0, <2>3, <2>4 DEF Target
    <3> QED
      BY <1>0, <1>a, <1>3, <2>3, <3>1, <3>2, <3>3 DEF Found, SearchInv, TypeOK, Phases
  <2>5. CASE ~(Target < NumStations)
    <3>1. phase' = "building" /\ stack' = << >> /\ history' = << >>
      BY <1>3, <2>5 DEF Found
    <3>2. Len(stations') = NumStations
      BY <1>0, <2>3, <2>5 DEF Target
    <3>3. stack' \in Seq(OpenCall) /\ history' \in Seq(Position) /\ Len(history') = Len(stack')
      BY <3>1
    <3> QED
      BY <1>0, <1>a, <1>3, <2>3, <3>1, <3>2, <3>3 DEF Found, SearchInv, TypeOK, Phases
  <2> QED
    BY <2>4, <2>5
<1>4. CASE Descend
  <2>1. phase = "searching" /\ Top.next <= Len(Daughters)
    BY <1>4 DEF Descend
  <2>2. /\ Len(stack) \in Nat \ {0} /\ Len(history) = Len(stack)
        /\ Top \in OpenCall /\ Daughters \in Seq(Volumes) /\ Last(history) \in Position
        /\ \A v \in Volumes : geometry.at[v] \in Position
    BY <2>1, TopTyped
  <2> PICK daughter : daughter = Daughters[Top.next]
    OBVIOUS
  <2>3. daughter \in Volumes
    <3>1. Top.next \in 1 .. Len(Daughters)
      BY <2>1, <2>2 DEF OpenCall
    <3> QED
      BY <2>2, <3>1
  <2> PICK opened : opened = [stack EXCEPT ![Len(stack)].next = @ + 1]
    OBVIOUS
  <2>4. opened \in Seq(OpenCall) /\ Len(opened) = Len(stack)
    <3>1. stack \in Seq(OpenCall) /\ Len(stack) \in DOMAIN stack
      BY <2>2 DEF SearchInv
    <3>2. [stack[Len(stack)] EXCEPT !.next = @ + 1] \in OpenCall
      BY <2>2 DEF Top, OpenCall
    <3>3. opened = [stack EXCEPT ![Len(stack)] = [stack[Len(stack)] EXCEPT !.next = @ + 1]]
      BY <3>1
    <3> QED
      BY <3>1, <3>2, <3>3
  <2>5. [volume |-> daughter, next |-> 1] \in OpenCall
    BY <2>3 DEF OpenCall
  <2>6. Translated(Last(history), geometry.at[daughter]) \in Position
    BY <2>2, <2>3, TranslatedTyped
  <2>7. /\ stack' = Append(opened, [volume |-> daughter, next |-> 1])
        /\ history' = Append(history, Translated(Last(history), geometry.at[daughter]))
    BY <1>4 DEF Descend
  <2>8. stack' \in Seq(OpenCall) /\ Len(stack') = Len(stack) + 1
    BY <2>4, <2>5, <2>7
  <2>9. history' \in Seq(Position) /\ Len(history') = Len(stack')
    BY <2>2, <2>6, <2>7, <2>8 DEF SearchInv, TypeOK
  <2>10. stack' # << >>
    BY <2>2, <2>8
  <2>11. /\ phase = "searching"
         /\ UNCHANGED <<geometry, phase, stations, surfaces, container, stores, cleanup>>
    BY <1>4 DEF Descend
  <2>12. TypeOK'
    BY <1>a, <2>8, <2>9, <2>11 DEF SearchInv, TypeOK
  <2> QED
    BY <2>8, <2>10, <2>11, <2>12 DEF SearchInv
<1>5. CASE Return
  <2>1. stack' = Front(stack) /\ history' = Front(history) /\ Len(stack) > 1
    BY <1>5 DEF Return
  <2>2. stack \in Seq(OpenCall) /\ history \in Seq(Position) /\ Len(history) = Len(stack)
    BY DEF SearchInv, TypeOK
  <2>3. stack # << >> /\ history # << >>
    BY <2>1, <2>2
  <2>4. /\ stack' \in Seq(OpenCall) /\ Len(stack') = Len(stack) - 1
        /\ history' \in Seq(Position) /\ Len(history') = Len(stack')
    BY <2>1, <2>2, <2>3, LastAndFront
  <2>5. stack' # << >>
    BY <2>1, <2>2, <2>4
  <2> QED
    BY <1>a, <1>5, <2>4, <2>5 DEF Return, SearchInv, TypeOK
<1>6. CASE NotFound
  BY <1>6 DEF NotFound, SearchInv, TypeOK, Phases
<1>7. CASE Build
  <2>1. /\ stations \in Seq(StationPlacement) /\ Len(stations) = NumStations
    BY <1>7 DEF Build, SearchInv, TypeOK
  <2>2. Container \in [center2 : Int, length : Nat, halfX : Nat]
    BY <2>1, ContainerHolds
  <2>3. DOMAIN stations = Stations
    BY <2>1 DEF Stations
  <2>4. Container' = Container
    BY <1>7 DEF Build, Container, MinZ, MaxZ, MaxHalfX
  <2> QED
    BY <1>7, <2>2, <2>3, <2>4 DEF Build, SearchInv, TypeOK, Phases
<1>8. CASE DestroyProvider
  BY <1>8 DEF DestroyProvider, SearchInv, TypeOK, Container, MinZ, MaxZ, MaxHalfX
<1>9. CASE Exit
  BY <1>9 DEF Exit, SearchInv, TypeOK, Phases, Container, MinZ, MaxZ, MaxHalfX
<1>10. CASE Finished \/ UNCHANGED vars
  BY <1>10 DEF Finished, vars, SearchInv, TypeOK, Container, MinZ, MaxZ, MaxHalfX
<1> QED
  BY <1>1, <1>2, <1>3, <1>4, <1>5, <1>6, <1>7, <1>8, <1>9, <1>10 DEF Next, Work

\* In every behaviour the provider is well typed.
THEOREM SearchCorrect == Spec => []SearchInv
<1>1. Init => SearchInv
  <2> SUFFICES ASSUME Init PROVE SearchInv
    OBVIOUS
  <2>1. NumStations \in Nat \ {0} /\ geometry \in Geometries /\ geometry \in Geometry
    BY GeometryAssumption DEF Init
  <2>2. /\ stack = << >> /\ history = << >> /\ stations = << >> /\ surfaces = << >>
        /\ container = NoContainer /\ phase = "registering"
        /\ stores = FALSE /\ cleanup = "none"
    BY DEF Init
  <2>3. /\ stack \in Seq(OpenCall) /\ stack \in Seq(Call) /\ history \in Seq(Position)
        /\ Len(history) = Len(stack)
        /\ stations \in Seq(StationPlacement) /\ Len(stations) <= NumStations
        /\ DOMAIN surfaces = {}
    BY <2>1, <2>2
  <2>4. container \in [center2 : Int, length : Nat, halfX : Nat]
    BY <2>2 DEF NoContainer
  <2> QED
    BY <2>1, <2>2, <2>3, <2>4 DEF SearchInv, TypeOK, Phases
<1> QED
  BY <1>1, SearchStep, PTL DEF Spec

\* Whatever the geometry is, the history has a level for every open call of
\* find_station, and no more stations are found than there are.
THEOREM ProviderTypeCorrect == Spec => []TypeOK
<1>1. SearchInv => TypeOK
  BY DEF SearchInv
<1> QED
  BY <1>1, SearchCorrect, PTL

-------------------------------------------------------------------------------
(* The container. *)

\* The container of any number of stations, of any widths and in any order along
\* the beam, reaches beyond each by the margin in that direction; across it, it
\* holds the surfaces that are off the axis by no more than the margin.
THEOREM StationsFitContainer == Spec => []ContainerSpansStations
<1>1. SearchInv => ContainerSpansStations
  <2> SUFFICES ASSUME SearchInv, phase = "providing", NEW s \in Stations
               PROVE  LET o == surfaces[s].origin
                      IN  /\ 2 * (o.z - Margin) >= container.center2 - container.length
                          /\ 2 * (o.z + Margin) <= container.center2 + container.length
                          /\ o.x \in -Margin .. Margin =>
                                 /\ o.x - surfaces[s].halfX >= -container.halfX
                                 /\ o.x + surfaces[s].halfX <= container.halfX
    BY DEF ContainerSpansStations
  <2>1. /\ stations \in Seq(StationPlacement) /\ Len(stations) = NumStations
        /\ surfaces = stations /\ container = Container
    BY DEF SearchInv, TypeOK
  <2>2. stations[s] \in StationPlacement
    BY <2>1 DEF Stations
  <2> PICK z \in Int, x \in Int, w \in Nat :
         z = stations[s].origin.z /\ x = stations[s].origin.x /\ w = stations[s].halfX
    BY <2>2 DEF StationPlacement, Position
  <2> PICK low, high, wide : low = MinZ /\ high = MaxZ /\ wide = MaxHalfX
    OBVIOUS
  <2>3. /\ low \in Int /\ high \in Int /\ wide \in Nat
        /\ low <= z /\ z <= high /\ w <= wide
    <3>1. /\ MinZ \in Int /\ MaxZ \in Int /\ MaxHalfX \in Nat
          /\ MinZ <= stations[s].origin.z /\ stations[s].origin.z <= MaxZ
          /\ stations[s].halfX <= MaxHalfX
      BY <2>1, ContainerHolds
    <3> QED
      BY <3>1
  <2>4. /\ container.center2 = high + low
        /\ container.length = high - low + 2 * Margin
        /\ container.halfX = wide + Margin
    BY <2>1 DEF Container
  <2>5. Margin \in Nat
    BY GeometryAssumption
  <2>6. /\ 2 * (z - Margin) >= (high + low) - (high - low + 2 * Margin)
        /\ 2 * (z + Margin) <= (high + low) + (high - low + 2 * Margin)
        /\ x \in -Margin .. Margin => x - w >= -(wide + Margin) /\ x + w <= wide + Margin
    BY ONLY <2>3, <2>5, z \in Int, x \in Int, w \in Nat
  <2> QED
    BY <2>1, <2>4, <2>6
<1> QED
  BY <1>1, SearchCorrect, PTL

-------------------------------------------------------------------------------
(* The search. *)

\* A path to a volume of the target that passes through the volumes of the first
\* i calls and goes on to v.
Through(p, i, v) ==
    /\ Len(p) > i
    /\ \A j \in 1 .. i : p[j] = stack[j].volume
    /\ p[i + 1] = v

\* No path to the target leads through a daughter that a call is done with: all
\* before its next one, save the one that is being searched.
Explored ==
    \A i \in DOMAIN stack : \A k \in 1 .. (stack[i].next - 1) :
        (i < Len(stack) => k # stack[i].next - 1) =>
            \A p \in PathsTo(Target) :
                ~Through(p, i, geometry.daughters[stack[i].volume][k])

\* Each call is for the daughter that its caller has come to, the first one for
\* the world.
Nested ==
    /\ stack[1].volume = World
    /\ \A i \in 1 .. (Len(stack) - 1) :
          /\ stack[i].next - 1 \in DOMAIN geometry.daughters[stack[i].volume]
          /\ stack[i + 1].volume = geometry.daughters[stack[i].volume][stack[i].next - 1]

\* What the search has seen.
WalkInv == phase = "searching" => Nested /\ Explored

\* What a path to the target is.
LEMMA PathShape ==
  ASSUME SearchInv, NEW s, NEW p \in PathsTo(s)
  PROVE  /\ Len(p) \in Nat \ {0} /\ DOMAIN p = 1 .. Len(p)
         /\ p[1] = World
         /\ \A i \in 1 .. (Len(p) - 1) :
               /\ p[i] \in Volumes
               /\ \E k \in 1 .. Len(geometry.daughters[p[i]]) :
                     p[i + 1] = geometry.daughters[p[i]][k]
         /\ geometry.name[p[Len(p)]] = s
<1>1. PICK n \in 1 .. Cardinality(Volumes) : p \in [1 .. n -> Volumes]
  BY DEF PathsTo
<1>2. n \in Nat \ {0}
  <2>1. n \in Int /\ n >= 1
    BY <1>1
  <2> QED
    BY <2>1
<1>3. Len(p) = n /\ DOMAIN p = 1 .. n
  BY <1>1, <1>2
<1>4. /\ p[1] = World /\ geometry.name[p[Len(p)]] = s
      /\ \A i \in 1 .. Len(p) - 1 : p[i + 1] \in ToSet(geometry.daughters[p[i]])
  BY DEF PathsTo
<1>5. ASSUME NEW i \in 1 .. (Len(p) - 1)
      PROVE  /\ p[i] \in Volumes
             /\ \E k \in 1 .. Len(geometry.daughters[p[i]]) :
                   p[i + 1] = geometry.daughters[p[i]][k]
  <2>1. p[i] \in Volumes
    BY <1>1, <1>3
  <2>2. geometry.daughters[p[i]] \in Seq(Volumes)
    BY <2>1 DEF SearchInv, TypeOK, Geometry
  <2>3. p[i + 1] \in ToSet(geometry.daughters[p[i]])
    BY <1>4
  <2>4. ToSet(geometry.daughters[p[i]])
        = {geometry.daughters[p[i]][k] : k \in DOMAIN geometry.daughters[p[i]]}
    BY DEF ToSet
  <2>5. DOMAIN geometry.daughters[p[i]] = 1 .. Len(geometry.daughters[p[i]])
    BY <2>2
  <2> QED
    BY <2>1, <2>3, <2>4, <2>5
<1> QED
  BY <1>2, <1>3, <1>4, <1>5

\* A path to the target through the volumes of all open calls is explored when the
\* last call has no daughter left and is not for the target itself.
LEMMA NothingBelow ==
  ASSUME SearchInv, WalkInv, phase = "searching", ~Matches, Top.next > Len(Daughters),
         NEW p \in PathsTo(Target),
         \A j \in 1 .. Len(stack) : p[j] = stack[j].volume, Len(p) >= Len(stack)
  PROVE  FALSE
<1>1. Len(stack) \in Nat \ {0} /\ Top \in OpenCall /\ Daughters \in Seq(Volumes)
  BY TopTyped
<1> PICK n \in Nat : n = Len(stack)
  BY <1>1
<1>2. p[n] = Top.volume /\ n \in 1 .. n
  BY <1>1 DEF Top
<1>3. /\ Len(p) \in Nat \ {0} /\ geometry.name[p[Len(p)]] = Target
      /\ \A i \in 1 .. (Len(p) - 1) : \E k \in 1 .. Len(geometry.daughters[p[i]]) :
            p[i + 1] = geometry.daughters[p[i]][k]
  BY PathShape
<1>4. Len(p) # n
  BY <1>2, <1>3 DEF Matches
<1>5. Len(p) > n /\ n \in 1 .. (Len(p) - 1)
  BY <1>1, <1>3, <1>4
<1>6. PICK k \in 1 .. Len(Daughters) : p[n + 1] = Daughters[k]
  <2>1. \E k \in 1 .. Len(geometry.daughters[p[n]]) : p[n + 1] = geometry.daughters[p[n]][k]
    BY <1>3, <1>5
  <2> QED
    BY <1>2, <2>1 DEF Daughters
<1>7. k \in 1 .. (Top.next - 1) /\ n \in DOMAIN stack /\ ~(n < Len(stack)) /\ Top = stack[n]
  BY <1>1 DEF OpenCall, Top, SearchInv
<1>8. ~Through(p, n, geometry.daughters[stack[n].volume][k])
  BY <1>7 DEF WalkInv, Explored
<1>9. Through(p, n, Daughters[k])
  BY <1>5, <1>6 DEF Through
<1> QED
  BY <1>7, <1>8, <1>9 DEF Daughters

\* Going on from the world, nothing has been explored yet.
LEMMA WalkStarts ==
  ASSUME SearchFromWorld
  PROVE  Nested' /\ Explored'
<1>1. stack' = << [volume |-> World, next |-> 1] >>
  BY DEF SearchFromWorld
<1>2. Len(stack') = 1 /\ DOMAIN stack' = {1} /\ stack'[1].volume = World /\ stack'[1].next = 1
  BY <1>1
<1>3. Nested'
  BY <1>2 DEF Nested
<1>4. Explored'
  <2> SUFFICES ASSUME NEW i \in DOMAIN stack', NEW k \in 1 .. (stack'[i].next - 1) PROVE FALSE
    BY DEF Explored
  <2> QED
    BY <1>2
<1> QED
  BY <1>3, <1>4

\* Every step of the search keeps what is explored.
LEMMA WalkStep == SearchInv /\ WalkInv /\ [Next]_vars => WalkInv'
<1> SUFFICES ASSUME SearchInv, WalkInv, [Next]_vars, phase' = "searching"
             PROVE  Nested' /\ Explored'
  BY DEF WalkInv
<1>1. CASE Convert
  BY <1>1, WalkStarts DEF Convert
<1>2. CASE Found
  <2>1. SearchFromWorld
    BY <1>2 DEF Found
  <2> QED
    BY <2>1, WalkStarts
<1>3. CASE Descend
  <2>1. /\ phase = "searching" /\ Top.next <= Len(Daughters)
        /\ geometry' = geometry /\ stations' = stations
    BY <1>3 DEF Descend
  <2>2. /\ Len(stack) \in Nat \ {0} /\ Top \in OpenCall /\ Daughters \in Seq(Volumes)
        /\ stack \in Seq(OpenCall) /\ Nested /\ Explored
    BY <2>1, TopTyped DEF SearchInv, WalkInv
  <2> PICK n \in Nat \ {0} : n = Len(stack)
    BY <2>2
  <2> PICK new : new = stack'
    OBVIOUS
  <2> PICK d : d = Daughters[Top.next]
    OBVIOUS
  <2> PICK opened : opened = [stack EXCEPT ![n].next = @ + 1]
    OBVIOUS
  <2>3. new = Append(opened, [volume |-> d, next |-> 1])
    BY <1>3 DEF Descend
  <2>4. \A i \in 1 .. n : stack[i] \in OpenCall /\ DOMAIN stack = 1 .. n
    BY <2>2
  <2>5. /\ opened \in Seq(OpenCall) /\ Len(opened) = n
        /\ \A i \in 1 .. (n - 1) : opened[i] = stack[i]
        /\ opened[n].volume = stack[n].volume /\ opened[n].next = stack[n].next + 1
    <3>1. n \in 1 .. n
      OBVIOUS
    <3>2. [stack[n] EXCEPT !.next = @ + 1] \in OpenCall
      BY <2>4, <3>1 DEF OpenCall
    <3>3. opened = [stack EXCEPT ![n] = [stack[n] EXCEPT !.next = @ + 1]]
      BY <2>4, <3>1
    <3>4. opened[n] = [stack[n] EXCEPT !.next = @ + 1]
      BY <2>4, <3>1, <3>3
    <3>5. opened[n].volume = stack[n].volume /\ opened[n].next = stack[n].next + 1
      BY <2>4, <3>1, <3>4 DEF OpenCall
    <3>6. opened \in Seq(OpenCall) /\ Len(opened) = n
      BY <2>2, <3>1, <3>2, <3>3
    <3>7. \A i \in 1 .. (n - 1) : opened[i] = stack[i]
      BY <2>4, <3>3
    <3> QED
      BY <3>5, <3>6, <3>7
  <2>6. /\ Len(new) = n + 1 /\ DOMAIN new = 1 .. (n + 1)
        /\ \A i \in 1 .. n : new[i] = opened[i]
        /\ new[n + 1].volume = d /\ new[n + 1].next = 1
    BY <2>3, <2>5
  <2>7. \A i \in 1 .. n : new[i].volume = stack[i].volume
    <3> TAKE i \in 1 .. n
    <3>1. new[i] = opened[i]
      BY <2>6
    <3>2. CASE i = n
      BY <2>5, <3>1, <3>2
    <3>3. CASE i # n
      <4>1. i \in 1 .. (n - 1)
        BY <3>3
      <4>2. opened[i] = stack[i]
        BY <2>5, <4>1
      <4> QED
        BY <3>1, <4>2
    <3> QED
      BY <3>2, <3>3
  <2>8. Top = stack[n]
    BY DEF Top
  <2>9. Nested'
    <3>1. new[1].volume = World
      BY <2>2, <2>7 DEF Nested
    <3>2. ASSUME NEW i \in 1 .. n
          PROVE  /\ new[i].next - 1 \in DOMAIN geometry.daughters[new[i].volume]
                 /\ new[i + 1].volume = geometry.daughters[new[i].volume][new[i].next - 1]
      <4>1. CASE i < n
        <5>1. i \in 1 .. (n - 1) /\ i + 1 \in 1 .. n
          BY <4>1
        <5>2. new[i] = stack[i] /\ new[i + 1].volume = stack[i + 1].volume
          BY <2>5, <2>6, <2>7, <5>1
        <5> QED
          BY <2>2, <5>1, <5>2 DEF Nested
      <4>2. CASE i = n
        <5>1. /\ new[n].next - 1 = Top.next /\ new[n].volume = Top.volume
              /\ new[n + 1].volume = d
          <6>1. n \in 1 .. n /\ Top.next \in Nat
            BY <2>2 DEF OpenCall
          <6>2. new[n] = opened[n] /\ new[n + 1].volume = d
            BY <2>6, <6>1
          <6>3. new[n].next = Top.next + 1 /\ new[n].volume = Top.volume
            BY ONLY <2>5, <2>8, <6>2
          <6> QED
            BY ONLY <6>1, <6>2, <6>3
        <5>2. Top.next \in DOMAIN Daughters
          BY <2>1, <2>2 DEF OpenCall
        <5> QED
          BY <4>2, <5>1, <5>2 DEF Daughters
      <4> QED
        BY <4>1, <4>2
    <3>3. Len(new) - 1 = n
      BY <2>6
    <3> QED
      BY <2>1, <3>1, <3>2, <3>3 DEF Nested
  <2>10. Explored'
    <3> SUFFICES ASSUME NEW i \in 1 .. (n + 1), NEW k \in 1 .. (new[i].next - 1),
                        i < n + 1 => k # new[i].next - 1,
                        NEW p \in PathsTo(Target),
                        Through(p, i, geometry.daughters[new[i].volume][k])'
                 PROVE  FALSE
      BY <2>1, <2>6 DEF Explored, PathsTo, Target, PositionOf
    <3>1. i # n + 1
      BY <2>6
    <3>2. i \in 1 .. n /\ k # new[i].next - 1
      BY <3>1
    <3>3. k \in 1 .. (stack[i].next - 1) /\ (i < n => k # stack[i].next - 1)
      <4>1. CASE i < n
        BY <2>5, <2>6, <3>2, <4>1
      <4>2. CASE i = n
        <5>1. new[n].next - 1 = stack[n].next /\ stack[n].next \in Nat
          BY <2>2, <2>5, <2>6, <2>8 DEF OpenCall
        <5> QED
          BY <3>2, <4>2, <5>1
      <4> QED
        BY <3>2, <4>1, <4>2
    <3>4. ~Through(p, i, geometry.daughters[stack[i].volume][k])
      BY <2>2, <2>4, <3>2, <3>3 DEF Explored
    <3>5. Through(p, i, geometry.daughters[stack[i].volume][k])
      <4>1. \A j \in 1 .. i : j \in 1 .. n
        BY <3>2
      <4> QED
        BY <2>1, <2>7, <3>2, <4>1 DEF Through
    <3> QED
      BY <3>4, <3>5
  <2> QED
    BY <2>9, <2>10
<1>4. CASE Return
  <2>1. /\ phase = "searching" /\ ~Matches /\ Top.next > Len(Daughters)
        /\ geometry' = geometry /\ stations' = stations
        /\ Len(stack) > 1 /\ stack' = Front(stack)
    BY <1>4 DEF Return
  <2>2. /\ Len(stack) \in Nat \ {0} /\ stack \in Seq(OpenCall) /\ stack # << >>
        /\ Nested /\ Explored
    BY <2>1, TopTyped DEF SearchInv, WalkInv
  <2> PICK n \in Nat : n = Len(stack)
    BY <2>2
  <2> PICK new : new = stack'
    OBVIOUS
  <2>3. /\ n > 1 /\ DOMAIN stack = 1 .. n
        /\ Len(new) = n - 1 /\ DOMAIN new = 1 .. (n - 1)
        /\ \A i \in 1 .. (n - 1) : new[i] = stack[i]
    <3>1. /\ Front(stack) \in Seq(OpenCall) /\ Len(Front(stack)) = Len(stack) - 1
          /\ \A i \in 1 .. (Len(stack) - 1) : Front(stack)[i] = stack[i]
      BY <2>2, LastAndFront
    <3> QED
      BY <2>1, <2>2, <3>1
  <2>4. Nested'
    <3>1. new[1].volume = World
      BY <2>2, <2>3 DEF Nested
    <3>2. ASSUME NEW i \in 1 .. (n - 1 - 1)
          PROVE  /\ new[i].next - 1 \in DOMAIN geometry.daughters[new[i].volume]
                 /\ new[i + 1].volume = geometry.daughters[new[i].volume][new[i].next - 1]
      <4>1. i \in 1 .. (n - 1) /\ i + 1 \in 1 .. (n - 1)
        BY <2>3
      <4>2. new[i] = stack[i] /\ new[i + 1] = stack[i + 1]
        BY <2>3, <4>1
      <4> QED
        BY <2>2, <4>1, <4>2 DEF Nested
    <3> QED
      BY <2>1, <2>3, <3>1, <3>2 DEF Nested
  <2>5. Explored'
    <3> SUFFICES ASSUME NEW i \in 1 .. (n - 1), NEW k \in 1 .. (new[i].next - 1),
                        i < n - 1 => k # new[i].next - 1,
                        NEW p \in PathsTo(Target),
                        Through(p, i, geometry.daughters[new[i].volume][k])'
                 PROVE  FALSE
      <4>1. PathsTo(Target)' = PathsTo(Target) /\ geometry' = geometry
        BY <2>1 DEF PathsTo, Target
      <4>2. Len(new) = n - 1 /\ DOMAIN new = 1 .. (n - 1)
        BY <2>3
      <4> QED
        BY <4>1, <4>2 DEF Explored
    <3>1. new[i] = stack[i] /\ i \in DOMAIN stack /\ i < n
      BY <2>3
    <3>2. Through(p, i, geometry.daughters[stack[i].volume][k])
      <4>1. \A j \in 1 .. i : j \in 1 .. (n - 1)
        BY <2>3
      <4> QED
        BY <2>1, <2>3, <3>1, <4>1 DEF Through
    <3>3. CASE k # stack[i].next - 1
      BY <2>2, <3>1, <3>2, <3>3 DEF Explored
    <3>4. CASE k = stack[i].next - 1
      <4>1. i = n - 1
        BY <2>3, <3>1, <3>4
      <4>2. stack[n].volume = geometry.daughters[stack[i].volume][k]
        <5>1. i \in 1 .. (Len(stack) - 1) /\ i + 1 = n
          BY <2>3, <4>1
        <5> QED
          BY <2>2, <3>4, <5>1 DEF Nested
      <4>3. \A j \in 1 .. Len(stack) : p[j] = stack[j].volume
        <5> SUFFICES ASSUME NEW j \in 1 .. n PROVE p[j] = stack[j].volume
          OBVIOUS
        <5>1. CASE j = n
          <6>1. p[i + 1] = stack[n].volume
            BY <3>2, <4>2 DEF Through
          <6> QED
            BY <2>3, <4>1, <5>1, <6>1
        <5>2. CASE j \in 1 .. i
          BY <3>2, <5>2 DEF Through
        <5> QED
          BY <2>3, <4>1, <5>1, <5>2
      <4>4. Len(p) >= Len(stack)
        <5>1. Len(p) > i /\ Len(p) \in Nat
          BY <3>2, PathShape DEF Through
        <5> QED
          BY <2>3, <4>1, <5>1
      <4> QED
        BY <2>1, <4>3, <4>4, NothingBelow
    <3> QED
      BY <3>3, <3>4
  <2> QED
    BY <2>4, <2>5
<1>5. CASE UNCHANGED vars
  <2>1. phase = "searching" /\ stack' = stack /\ geometry' = geometry /\ stations' = stations
    BY <1>5 DEF vars
  <2>2. PathsTo(Target)' = PathsTo(Target)
    BY <2>1 DEF PathsTo, Target
  <2>3. Nested /\ Explored
    BY <2>1 DEF WalkInv
  <2>4. Nested'
    BY <2>1, <2>3 DEF Nested
  <2>5. Explored'
    BY <2>1, <2>2, <2>3 DEF Explored, Through
  <2> QED
    BY <2>4, <2>5
<1>6. ~(\/ ResolveFile \/ FileMissing \/ ConvertFails \/ NotFound \/ Build \/ BuildFails
        \/ DestroyProvider \/ Exit)
  BY DEF ResolveFile, FileMissing, ConvertFails, NotFound, Build, BuildFails, DestroyProvider,
         Exit
<1> QED
  BY <1>1, <1>2, <1>3, <1>4, <1>5, <1>6 DEF Next, Work, Finished

\* find_station searches the whole geometry: a job is refused for want of a station
\* only if no path from the world leads to a volume of that name.
THEOREM RefusalsAreRight == Spec => RefusedIfMissing
<1>1. Init => WalkInv
  BY DEF Init, WalkInv
<1>2. Spec => [](SearchInv /\ WalkInv)
  BY <1>1, SearchCorrect, WalkStep, PTL DEF Spec
<1>3. SearchInv /\ WalkInv /\ [Next]_vars
      => [phase = "searching" /\ phase' = "throwing" => PathsTo(Target) = {}]_vars
  <2> SUFFICES ASSUME SearchInv, WalkInv, Next, phase = "searching", phase' = "throwing",
                      NEW p \in PathsTo(Target)
               PROVE  FALSE
    OBVIOUS
  <2>1. NotFound
    BY DEF Next, Work, ResolveFile, FileMissing, Convert, ConvertFails, Found, Descend, Return,
           Build, BuildFails, DestroyProvider, Exit, Finished, vars
  <2>2. ~Matches /\ Top.next > Len(Daughters) /\ Len(stack) = 1
    BY <2>1 DEF NotFound
  <2>3. Len(p) \in Nat \ {0} /\ p[1] = World
    BY PathShape
  <2>4. stack[1].volume = World
    BY DEF WalkInv, Nested
  <2>5. (\A j \in 1 .. Len(stack) : p[j] = stack[j].volume) /\ Len(p) >= Len(stack)
    BY <2>2, <2>3, <2>4
  <2> QED
    BY <2>2, <2>5, NothingBelow
<1> QED
  BY <1>2, <1>3, PTL DEF Spec, RefusedIfMissing

-------------------------------------------------------------------------------
(* Where the stations are. *)

\* Each level of the history is the one above moved by the placement of its volume.
Positioned ==
    /\ history[1] = geometry.at[World]
    /\ \A i \in 1 .. (Len(stack) - 1) :
          history[i + 1] = Translated(history[i], geometry.at[stack[i + 1].volume])

\* No caller is for a volume of the target: find_station would have returned there.
Unmatched == \A i \in 1 .. (Len(stack) - 1) : geometry.name[stack[i].volume] # Target

\* What has been found, and what the open calls have found out.
PlaceInv ==
    /\ phase = "searching" => Positioned /\ Unmatched
    /\ StationsArePlaced

\* The placements along a path.
AcrossOn(p) == [i \in DOMAIN p |-> geometry.at[p[i]].x]
AlongOn(p) == [i \in DOMAIN p |-> geometry.at[p[i]].z]

\* A position is a sum over the path, across the beam and along it.
LEMMA PositionIsSum ==
  ASSUME NEW p, IsFiniteSet(DOMAIN p)
  PROVE  PositionOf(p) = [x |-> Sum(AcrossOn(p), DOMAIN p), z |-> Sum(AlongOn(p), DOMAIN p)]
<1> PICK S : S = DOMAIN p
  OBVIOUS
<1>1. MapThenSumSet(LAMBDA i : geometry.at[p[i]].x, S) = Sum(AcrossOn(p), S)
  <2> PICK f : f = AcrossOn(p)
    OBVIOUS
  <2> DEFINE Body(g) == [s \in SUBSET S |->
                IF s = {} THEN 0
                ELSE geometry.at[p[CHOOSE i \in s : TRUE]].x + g[s \ {CHOOSE i \in s : TRUE}]]
  <2>1. ASSUME NEW g PROVE Sums(g, f, S) <=> g = Body(g)
    <3>1. \A s \in SUBSET S : s # {} => f[Pick(s)] = geometry.at[p[CHOOSE i \in s : TRUE]].x
      BY DEF AcrossOn, Pick
    <3>2. [s \in SUBSET S |-> IF s = {} THEN 0 ELSE f[Pick(s)] + g[s \ {Pick(s)}]] = Body(g)
      BY <3>1 DEF Pick
    <3> HIDE DEF Body
    <3> QED
      BY <3>2 DEF Sums
  <2>2. MapThenSumSet(LAMBDA i : geometry.at[p[i]].x, S) = (CHOOSE g : g = Body(g))[S]
    BY DEF MapThenSumSet, MapThenFoldSet
  <2> PICK m : m = CHOOSE g : g = Body(g)
    OBVIOUS
  <2> HIDE DEF Body
  <2>3. Sums(m, f, S)
    <3>1. \E g : Sums(g, f, S)
      BY SumsExist
    <3> QED
      BY <3>1, <2>1
  <2>4. Sums(CHOOSE g : Sums(g, f, S), f, S)
    BY SumsExist
  <2>5. m[S] = (CHOOSE g : Sums(g, f, S))[S]
    BY ONLY IsFiniteSet(DOMAIN p), S = DOMAIN p, <2>3, <2>4, SumsSame
  <2> QED
    BY <2>2, <2>5 DEF Sum
<1>2. MapThenSumSet(LAMBDA i : geometry.at[p[i]].z, S) = Sum(AlongOn(p), S)
  <2> PICK f : f = AlongOn(p)
    OBVIOUS
  <2> DEFINE Body(g) == [s \in SUBSET S |->
                IF s = {} THEN 0
                ELSE geometry.at[p[CHOOSE i \in s : TRUE]].z + g[s \ {CHOOSE i \in s : TRUE}]]
  <2>1. ASSUME NEW g PROVE Sums(g, f, S) <=> g = Body(g)
    <3>1. \A s \in SUBSET S : s # {} => f[Pick(s)] = geometry.at[p[CHOOSE i \in s : TRUE]].z
      BY DEF AlongOn, Pick
    <3>2. [s \in SUBSET S |-> IF s = {} THEN 0 ELSE f[Pick(s)] + g[s \ {Pick(s)}]] = Body(g)
      BY <3>1 DEF Pick
    <3> HIDE DEF Body
    <3> QED
      BY <3>2 DEF Sums
  <2>2. MapThenSumSet(LAMBDA i : geometry.at[p[i]].z, S) = (CHOOSE g : g = Body(g))[S]
    BY DEF MapThenSumSet, MapThenFoldSet
  <2> PICK m : m = CHOOSE g : g = Body(g)
    OBVIOUS
  <2> HIDE DEF Body
  <2>3. Sums(m, f, S)
    <3>1. \E g : Sums(g, f, S)
      BY SumsExist
    <3> QED
      BY <3>1, <2>1
  <2>4. Sums(CHOOSE g : Sums(g, f, S), f, S)
    BY SumsExist
  <2>5. m[S] = (CHOOSE g : Sums(g, f, S))[S]
    BY ONLY IsFiniteSet(DOMAIN p), S = DOMAIN p, <2>3, <2>4, SumsSame
  <2> QED
    BY <2>2, <2>5 DEF Sum
<1> QED
  BY <1>1, <1>2 DEF PositionOf

PositionsSum ==
    \A p : IsFiniteSet(DOMAIN p) =>
       PositionOf(p) = [x |-> Sum(AcrossOn(p), DOMAIN p), z |-> Sum(AlongOn(p), DOMAIN p)]

LEMMA PositionsAreSums == PositionsSum
BY PositionIsSum DEF PositionsSum

\* A running total is the sum of what was added.
LEMMA RunningTotal ==
  ASSUME NEW n \in Nat \ {0}, NEW f \in [1 .. n -> Int], NEW total \in [1 .. n -> Int],
         total[1] = f[1], \A i \in 1 .. (n - 1) : total[i + 1] = total[i] + f[i + 1]
  PROVE  Sum(f, 1 .. n) = total[n]
<1> DEFINE Bad == {k \in Nat : k \in 1 .. n /\ Sum(f, 1 .. k) # total[k]}
<1>1. Bad = {}
  <2> SUFFICES ASSUME Bad # {} PROVE FALSE
    OBVIOUS
  <2>1. Bad \in SUBSET Nat
    OBVIOUS
  <2> PICK k : k = Min(Bad)
    OBVIOUS
  <2>2. k \in Bad /\ \A y \in Bad : k <= y
    BY <2>1, MinOfNats
  <2>3. k \in 1 .. n /\ k \in Nat /\ Sum(f, 1 .. k) # total[k]
    BY <2>2
  <2> HIDE DEF Bad
  <2> PICK S : S = 1 .. k
    OBVIOUS
  <2> PICK T : T = S \ {k}
    OBVIOUS
  <2>4. IsFiniteSet(S) /\ k \in S /\ \A i \in S : f[i] \in Int
    <3>1. IsFiniteSet(1 .. k)
      BY ONLY <2>3, FS_Interval
    <3>2. k \in 1 .. k /\ \A i \in 1 .. k : i \in 1 .. n
      BY ONLY <2>3, n \in Nat \ {0}
    <3> QED
      BY <3>1, <3>2
  <2>5. IsFiniteSet(T) /\ \A i \in T : f[i] \in Int
    BY <2>4, FS_RemoveElement
  <2>6. Sum(f, S) = f[k] + Sum(f, T)
    BY ONLY <2>4, SumTake, T = S \ {k}
  <2>7. CASE k = 1
    <3>1. T = {}
      BY <2>7
    <3>2. Sum(f, T) = 0
      BY ONLY <2>5, <3>1, SumTake
    <3>3. Sum(f, S) = total[k]
      BY <2>4, <2>6, <2>7, <3>2
    <3> QED
      BY <2>3, <3>3
  <2>8. CASE k # 1
    <3> PICK j : j = k - 1
      OBVIOUS
    <3>1. j \in 1 .. (n - 1) /\ j + 1 = k /\ j \in Nat /\ j \in 1 .. n /\ ~(k <= j)
      BY <2>3, <2>8
    <3>2. T = 1 .. j
      BY ONLY <3>1, T = S \ {k}, S = 1 .. k
    <3>3. j \notin Bad
      <4> HIDE DEF Bad
      <4> QED
        BY <2>2, <3>1
    <3>4. Sum(f, 1 .. j) = total[j]
      BY <3>1, <3>3 DEF Bad
    <3>5. total[k] = total[j] + f[k] /\ total[j] \in Int /\ f[k] \in Int
      BY <2>3, <3>1
    <3>6. Sum(f, S) = total[k]
      BY ONLY <2>6, <3>2, <3>4, <3>5
    <3> QED
      BY <2>3, <3>6
  <2> QED
    BY <2>7, <2>8
<1>2. n \in Nat /\ n \in 1 .. n
  OBVIOUS
<1> QED
  BY <1>1, <1>2

\* A walk from mother to daughter meets no more volumes than there are.
LEMMA WalksAreShort ==
  ASSUME geometry \in Geometries, NEW n \in Nat \ {0}, NEW p \in [1 .. n -> Volumes],
         \A i \in 1 .. (n - 1) : p[i + 1] \in ToSet(geometry.daughters[p[i]])
  PROVE  n \in 1 .. Cardinality(Volumes)
<1>1. Cardinality(Volumes) \in Nat
  BY PlacementAssumption, FS_CardinalityType
<1>2. PICK depth \in [Volumes -> 1 .. Cardinality(Volumes)] :
        \A v \in Volumes : \A w \in ToSet(geometry.daughters[v]) : depth[v] < depth[w]
  BY PlacementAssumption
<1>3. \A i \in 1 .. n : p[i] \in Volumes /\ depth[p[i]] \in 1 .. Cardinality(Volumes)
  BY <1>2
<1> DEFINE Bad == {k \in Nat : k \in 1 .. n /\ depth[p[k]] < k}
<1>4. Bad = {}
  <2> SUFFICES ASSUME Bad # {} PROVE FALSE
    OBVIOUS
  <2>1. Bad \in SUBSET Nat
    OBVIOUS
  <2> PICK k : k = Min(Bad)
    OBVIOUS
  <2>2. k \in Bad /\ \A y \in Bad : k <= y
    BY <2>1, MinOfNats
  <2>3. k \in 1 .. n /\ k \in Nat /\ depth[p[k]] < k
    BY <2>2
  <2>4. k # 1
    BY <1>1, <1>3, <2>3
  <2> PICK j : j = k - 1
    OBVIOUS
  <2>5. j \in 1 .. (n - 1) /\ j + 1 = k /\ j \in Nat /\ j \in 1 .. n /\ ~(k <= j)
    BY <2>3, <2>4
  <2>6. j \notin Bad
    <3> HIDE DEF Bad
    <3> QED
      BY <2>2, <2>5
  <2>7. ~(depth[p[j]] < j)
    BY <2>5, <2>6
  <2>8. depth[p[j]] < depth[p[k]]
    BY <1>2, <1>3, <2>5
  <2> QED
    BY <1>1, <1>3, <2>3, <2>5, <2>7, <2>8
<1>5. n \in 1 .. n /\ n \in Nat
  OBVIOUS
<1>6. ~(depth[p[n]] < n)
  BY <1>4, <1>5
<1> QED
  BY <1>1, <1>3, <1>5, <1>6

\* What a path to s is, all of it.
LEMMA PathForm ==
  ASSUME NEW s, NEW p \in PathsTo(s)
  PROVE  \E n \in Nat \ {0} :
           /\ Len(p) = n /\ DOMAIN p = 1 .. n /\ p \in [1 .. n -> Volumes] /\ p \in Seq(Volumes)
           /\ p[1] = World
           /\ \A i \in 1 .. (n - 1) : p[i + 1] \in ToSet(geometry.daughters[p[i]])
           /\ geometry.name[p[n]] = s
           /\ \A i \in 1 .. (n - 1) : geometry.name[p[i]] # s
<1>1. PICK n \in 1 .. Cardinality(Volumes) : p \in [1 .. n -> Volumes]
  BY DEF PathsTo
<1>2. n \in Nat \ {0}
  <2>1. n \in Int /\ n >= 1
    BY <1>1
  <2> QED
    BY <2>1
<1>3. Len(p) = n /\ DOMAIN p = 1 .. n /\ p \in Seq(Volumes)
  BY <1>1, <1>2
<1>4. /\ p[1] = World /\ geometry.name[p[Len(p)]] = s
      /\ \A i \in 1 .. Len(p) - 1 : p[i + 1] \in ToSet(geometry.daughters[p[i]])
      /\ \A i \in 1 .. Len(p) - 1 : geometry.name[p[i]] # s
  BY DEF PathsTo
<1> QED
  BY <1>1, <1>2, <1>3, <1>4

\* Two paths to s part somewhere: neither is the beginning of the other.
LEMMA PathsPart ==
  ASSUME NEW s, NEW p \in PathsTo(s), NEW q \in PathsTo(s), p # q
  PROVE  \E i \in 1 .. (Len(p) - 1) :
           /\ i < Len(q) /\ p[i + 1] # q[i + 1]
           /\ \A j \in 1 .. i : p[j] = q[j]
<1>1. PICK n \in Nat \ {0} :
        /\ Len(p) = n /\ p \in [1 .. n -> Volumes] /\ p[1] = World
        /\ geometry.name[p[n]] = s /\ \A i \in 1 .. (n - 1) : geometry.name[p[i]] # s
  BY PathForm
<1>2. PICK m \in Nat \ {0} :
        /\ Len(q) = m /\ q \in [1 .. m -> Volumes] /\ q[1] = World
        /\ geometry.name[q[m]] = s /\ \A i \in 1 .. (m - 1) : geometry.name[q[i]] # s
  BY PathForm
<1> DEFINE Bad == {k \in Nat : k > n \/ k > m \/ (k > 0 /\ p[k] # q[k])}
<1>3. Bad \in SUBSET Nat /\ n + 1 \in Bad
  OBVIOUS
<1> PICK k : k = Min(Bad)
  OBVIOUS
<1>4. k \in Bad /\ \A y \in Bad : k <= y
  <2> HIDE DEF Bad
  <2> QED
    BY <1>3, MinOfNats
<1>5. k \in Nat /\ (k > n \/ k > m \/ (k > 0 /\ p[k] # q[k]))
  BY <1>4
<1>6. ASSUME NEW y \in Nat, y < k PROVE y <= n /\ y <= m /\ (y > 0 => p[y] = q[y])
  <2>1. ~(k <= y)
    BY <1>5, <1>6
  <2>2. y \notin Bad
    <3> HIDE DEF Bad
    <3> QED
      BY <1>4, <2>1
  <2> QED
    BY <2>2
<1>7. k # 0 /\ k # 1
  BY <1>1, <1>2, <1>5
<1> PICK i : i = k - 1
  OBVIOUS
<1>8. i \in Nat \ {0} /\ i < k /\ i + 1 = k /\ i <= n /\ i <= m
  <2>1. i \in Nat \ {0} /\ i < k /\ i + 1 = k
    BY <1>5, <1>7
  <2> QED
    BY <1>6, <2>1
<1>9. \A j \in 1 .. i : p[j] = q[j]
  <2> TAKE j \in 1 .. i
  <2>1. j \in Nat /\ j < k /\ j > 0
    BY <1>5, <1>8
  <2> QED
    BY <1>6, <2>1
<1>10. i # n \/ i # m
  <2> SUFFICES ASSUME i = n, i = m PROVE FALSE
    OBVIOUS
  <2>1. p \in [1 .. i -> Volumes] /\ q \in [1 .. i -> Volumes]
    BY <1>1, <1>2
  <2>2. p = [j \in 1 .. i |-> p[j]] /\ q = [j \in 1 .. i |-> q[j]]
    BY ONLY <2>1
  <2>3. [j \in 1 .. i |-> p[j]] = [j \in 1 .. i |-> q[j]]
    BY ONLY <1>9
  <2> QED
    BY <2>2, <2>3
<1>11. i # n
  <2> SUFFICES ASSUME i = n PROVE FALSE
    OBVIOUS
  <2>1. i \in 1 .. (m - 1) /\ i \in 1 .. i
    BY <1>8, <1>10
  <2> QED
    BY <1>1, <1>2, <1>9, <2>1
<1>12. i # m
  <2> SUFFICES ASSUME i = m PROVE FALSE
    OBVIOUS
  <2>1. i \in 1 .. (n - 1) /\ i \in 1 .. i
    BY <1>8, <1>10
  <2> QED
    BY <1>1, <1>2, <1>9, <2>1
<1>13. i < n /\ i < m /\ p[k] # q[k]
  BY <1>5, <1>8, <1>11, <1>12
<1>14. i \in 1 .. (Len(p) - 1) /\ i < Len(q)
  BY <1>1, <1>2, <1>8, <1>13
<1> QED
  BY <1>8, <1>9, <1>13, <1>14

\* The place of a daughter is the one it is at.
LEMMA PlaceOfDaughter ==
  ASSUME NEW D, IsInjective(D), NEW k \in DOMAIN D
  PROVE  (CHOOSE j \in DOMAIN D : D[j] = D[k]) = k
BY DEF IsInjective

\* The open calls, when the last one is for a volume of the target, are a path to
\* it, and the history ends at its position.
OpenPath == [i \in 1 .. Len(stack) |-> stack[i].volume]

LEMMA FoundPath ==
  ASSUME SearchInv, WalkInv, PlaceInv, phase = "searching", Matches
  PROVE  OpenPath \in PathsTo(Target)
<1>1. /\ Len(stack) \in Nat \ {0} /\ Top \in OpenCall /\ stack \in Seq(OpenCall)
      /\ Nested /\ Unmatched /\ geometry \in Geometries /\ geometry \in Geometry
  BY TopTyped DEF SearchInv, TypeOK, WalkInv, PlaceInv
<1> PICK n \in Nat \ {0} : n = Len(stack)
  BY <1>1
<1> PICK p : p = OpenPath
  OBVIOUS
<1>2. \A i \in 1 .. n : stack[i].volume \in Volumes
  <2>1. \A i \in 1 .. n : stack[i] \in OpenCall
    BY <1>1
  <2> QED
    BY <2>1 DEF OpenCall
<1>3. p \in [1 .. n -> Volumes] /\ Len(p) = n /\ \A i \in 1 .. n : p[i] = stack[i].volume
  BY <1>2 DEF OpenPath
<1>4. p[1] = World
  BY <1>1, <1>3 DEF Nested
<1>5. ASSUME NEW i \in 1 .. (n - 1)
      PROVE  p[i + 1] \in ToSet(geometry.daughters[p[i]]) /\ geometry.name[p[i]] # Target
  <2>1. i \in 1 .. n /\ i + 1 \in 1 .. n
    OBVIOUS
  <2>2. /\ stack[i].next - 1 \in DOMAIN geometry.daughters[p[i]]
        /\ p[i + 1] = geometry.daughters[p[i]][stack[i].next - 1]
    BY <1>1, <1>3, <2>1 DEF Nested
  <2>3. p[i + 1] \in ToSet(geometry.daughters[p[i]])
    BY <2>2 DEF ToSet
  <2>4. geometry.name[p[i]] # Target
    BY <1>1, <1>3, <2>1 DEF Unmatched
  <2> QED
    BY <2>3, <2>4
<1>6. geometry.name[p[n]] = Target
  BY <1>3 DEF Matches, Top
<1>7. n \in 1 .. Cardinality(Volumes)
  BY <1>1, <1>3, <1>5, WalksAreShort
<1> QED
  BY <1>3, <1>4, <1>5, <1>6, <1>7 DEF PathsTo

LEMMA FoundPosition ==
  ASSUME SearchInv, WalkInv, PlaceInv, phase = "searching"
  PROVE  PositionOf(OpenPath) = Last(history)
<1>1. /\ Len(stack) \in Nat \ {0} /\ stack \in Seq(OpenCall) /\ history \in Seq(Position)
      /\ Len(history) = Len(stack) /\ Nested /\ Positioned /\ geometry \in Geometry
  BY TopTyped DEF SearchInv, TypeOK, WalkInv, PlaceInv
<1> PICK n \in Nat \ {0} : n = Len(stack)
  BY <1>1
<1> PICK p : p = OpenPath
  OBVIOUS
<1>2. \A i \in 1 .. n : stack[i].volume \in Volumes /\ history[i] \in Position
  <2>1. \A i \in 1 .. n : stack[i] \in OpenCall
    BY <1>1
  <2>2. \A i \in 1 .. n : history[i] \in Position
    BY <1>1
  <2> QED
    BY <2>1, <2>2 DEF OpenCall
<1>3. p \in [1 .. n -> Volumes] /\ DOMAIN p = 1 .. n /\ \A i \in 1 .. n : p[i] = stack[i].volume
  BY <1>2 DEF OpenPath
<1>4. \A v \in Volumes : geometry.at[v] \in Position
  BY <1>1 DEF Geometry
<1>5. IsFiniteSet(1 .. n)
  BY FS_Interval
<1>6. history[1] = geometry.at[p[1]] /\ 1 \in 1 .. n
  BY <1>1, <1>3 DEF Nested, Positioned
<1>7. ASSUME NEW i \in 1 .. (n - 1)
      PROVE  history[i + 1] = Translated(history[i], geometry.at[p[i + 1]])
  BY <1>1, <1>3 DEF Positioned
<1> PICK across : across = [i \in 1 .. n |-> history[i].x]
  OBVIOUS
<1> PICK along : along = [i \in 1 .. n |-> history[i].z]
  OBVIOUS
<1> PICK f : f = AcrossOn(p)
  OBVIOUS
<1> PICK g : g = AlongOn(p)
  OBVIOUS
<1>8. /\ across \in [1 .. n -> Int] /\ along \in [1 .. n -> Int]
      /\ f \in [1 .. n -> Int] /\ g \in [1 .. n -> Int]
      /\ \A i \in 1 .. n : f[i] = geometry.at[p[i]].x /\ g[i] = geometry.at[p[i]].z
  BY <1>2, <1>3, <1>4 DEF AcrossOn, AlongOn, Position
<1>9. across[1] = f[1] /\ along[1] = g[1]
  BY <1>6, <1>8
<1>10. ASSUME NEW i \in 1 .. (n - 1)
       PROVE  across[i + 1] = across[i] + f[i + 1] /\ along[i + 1] = along[i] + g[i + 1]
  <2>1. i \in 1 .. n /\ i + 1 \in 1 .. n
    OBVIOUS
  <2>2. /\ history[i + 1].x = history[i].x + geometry.at[p[i + 1]].x
        /\ history[i + 1].z = history[i].z + geometry.at[p[i + 1]].z
    <3> PICK a, b, c : a = history[i] /\ b = geometry.at[p[i + 1]] /\ c = history[i + 1]
      OBVIOUS
    <3>1. history[i + 1] = Translated(history[i], geometry.at[p[i + 1]])
      BY <1>7
    <3>2. c = Translated(a, b)
      BY <3>1
    <3>3. c.x = a.x + b.x /\ c.z = a.z + b.z
      BY ONLY <3>2 DEF Translated
    <3> QED
      BY <3>3
  <2> QED
    BY <1>8, <2>1, <2>2
<1>11. Sum(f, 1 .. n) = across[n]
  BY ONLY <1>8, <1>9, <1>10, RunningTotal, n \in Nat \ {0}
<1>12. Sum(g, 1 .. n) = along[n]
  BY ONLY <1>8, <1>9, <1>10, RunningTotal, n \in Nat \ {0}
<1>13. PositionOf(p) = [x |-> across[n], z |-> along[n]]
  BY <1>3, <1>5, <1>11, <1>12, PositionIsSum
<1>14. n \in 1 .. n /\ Last(history) = history[n]
  BY <1>1 DEF Last
<1>15. history[n] = [x |-> history[n].x, z |-> history[n].z]
  BY <1>2, <1>14 DEF Position
<1> QED
  BY <1>13, <1>14, <1>15

\* Every other path to the target parts from the open calls where they are at an
\* earlier daughter than it takes.
LEMMA FoundFirst ==
  ASSUME SearchInv, WalkInv, PlaceInv, phase = "searching", Matches,
         NEW q \in PathsTo(Target), q # OpenPath
  PROVE  MetBefore(OpenPath, q)
<1>1. /\ Len(stack) \in Nat \ {0} /\ stack \in Seq(OpenCall) /\ DOMAIN stack = 1 .. Len(stack)
      /\ Nested /\ Explored /\ geometry \in Geometries /\ geometry \in Geometry
  BY TopTyped DEF SearchInv, TypeOK, WalkInv
<1> PICK n \in Nat \ {0} : n = Len(stack)
  BY <1>1
<1> PICK p : p = OpenPath
  OBVIOUS
<1>2. p \in PathsTo(Target)
  BY FoundPath
<1>3. p \in [1 .. n -> Volumes] /\ Len(p) = n /\ \A i \in 1 .. n : p[i] = stack[i].volume
  <2>1. \A i \in 1 .. n : stack[i] \in OpenCall
    BY <1>1
  <2>2. \A i \in 1 .. n : stack[i].volume \in Volumes
    BY <2>1 DEF OpenCall
  <2> QED
    BY <2>2 DEF OpenPath
<1>4. PICK i \in 1 .. (Len(p) - 1) :
        /\ i < Len(q) /\ p[i + 1] # q[i + 1]
        /\ \A j \in 1 .. i : p[j] = q[j]
  BY <1>2, PathsPart
<1>5. i \in 1 .. (n - 1) /\ i \in 1 .. n /\ i + 1 \in 1 .. n /\ i \in 1 .. i /\ i \in Nat
  BY <1>3, <1>4
<1> PICK D : D = geometry.daughters[p[i]]
  OBVIOUS
<1>6. D \in Seq(Volumes) /\ IsInjective(D)
  <2>1. p[i] \in Volumes
    BY <1>3, <1>5
  <2> QED
    BY <1>1, <2>1, PlacementAssumption DEF Geometry
<1> PICK a : a = stack[i].next - 1
  OBVIOUS
<1>7. a \in DOMAIN D /\ p[i + 1] = D[a]
  BY <1>1, <1>3, <1>5 DEF Nested
<1>8. PICK m \in Nat \ {0} :
        /\ Len(q) = m /\ q \in [1 .. m -> Volumes] /\ q \in Seq(Volumes)
        /\ \A k \in 1 .. (m - 1) : q[k + 1] \in ToSet(geometry.daughters[q[k]])
  BY PathForm
<1>9. PICK b \in DOMAIN D : q[i + 1] = D[b]
  <2>1. i \in 1 .. (m - 1) /\ q[i] = p[i]
    BY <1>4, <1>5, <1>8
  <2> QED
    BY <1>8, <2>1 DEF ToSet
<1>10. a < b
  <2> SUFFICES ASSUME ~(a < b) PROVE FALSE
    OBVIOUS
  <2>1. a \in Nat /\ b \in Nat \ {0} /\ a # b
    BY <1>4, <1>6, <1>7, <1>9
  <2>2. stack[i].next \in Nat
    <3>1. stack[i] \in OpenCall
      BY <1>1, <1>5
    <3> QED
      BY <3>1 DEF OpenCall
  <2>3. b \in 1 .. (stack[i].next - 1) /\ b # stack[i].next - 1
    BY <2>1, <2>2
  <2>4. ~Through(q, i, geometry.daughters[stack[i].volume][b])
    BY <1>1, <1>5, <2>3 DEF Explored
  <2>5. \A j \in 1 .. i : q[j] = stack[j].volume
    BY <1>3, <1>4, <1>5
  <2>6. geometry.daughters[stack[i].volume][b] = q[i + 1] /\ Len(q) > i
    BY <1>3, <1>4, <1>5, <1>8, <1>9
  <2> QED
    BY <2>4, <2>5, <2>6 DEF Through
<1>11. SubSeq(p, 1, i) = SubSeq(q, 1, i)
  <2>1. p \in Seq(Volumes) /\ Len(p) \in Nat /\ Len(q) \in Nat
    BY <1>3, <1>8
  <2>3. i <= Len(p) /\ i <= Len(q)
    BY ONLY <1>3, <1>4, <1>5, <2>1
  <2>2. /\ SubSeq(p, 1, i) = [k \in 1 .. i |-> p[k]]
        /\ SubSeq(q, 1, i) = [k \in 1 .. i |-> q[k]]
    BY <1>5, <1>8, <2>1
  <2> QED
    BY <1>4, <2>2
<1>12. /\ (CHOOSE k \in DOMAIN D : D[k] = p[i + 1]) = a
       /\ (CHOOSE k \in DOMAIN D : D[k] = q[i + 1]) = b
  BY <1>6, <1>7, <1>9, PlaceOfDaughter
<1>13. MetBefore(p, q)
  BY <1>3, <1>4, <1>10, <1>11, <1>12 DEF MetBefore
<1> QED
  BY <1>13

\* While the geometry is the same, so are its paths, their positions and their order.
LEMMA PlacesStay ==
  ASSUME geometry' = geometry, NEW s
  PROVE  /\ PathsTo(s)' = PathsTo(s)
         /\ \A p \in PathsTo(s) : PositionOf(p)' = PositionOf(p)
         /\ \A p, q : MetBefore(p, q)' = MetBefore(p, q)
<1>1. PathsTo(s)' = PathsTo(s)
  BY DEF PathsTo
<1>2. \A p, q : MetBefore(p, q)' = MetBefore(p, q)
  BY DEF MetBefore
<1>3. ASSUME NEW p \in PathsTo(s) PROVE PositionOf(p)' = PositionOf(p)
  <2>1. IsFiniteSet(DOMAIN p)
    <3>1. \E n \in Nat \ {0} : DOMAIN p = 1 .. n
      BY PathForm
    <3> QED
      BY <3>1, FS_Interval
  <2>2. PositionOf(p) = [x |-> Sum(AcrossOn(p), DOMAIN p), z |-> Sum(AlongOn(p), DOMAIN p)]
    BY <2>1, PositionIsSum
  <2>3. (PositionOf(p)
         = [x |-> Sum(AcrossOn(p), DOMAIN p), z |-> Sum(AlongOn(p), DOMAIN p)])'
    <3>1. PositionsSum'
      BY PositionsAreSums, PTL
    <3> QED
      BY <2>1, <3>1 DEF PositionsSum
  <2>4. AcrossOn(p)' = AcrossOn(p) /\ AlongOn(p)' = AlongOn(p)
    BY DEF AcrossOn, AlongOn
  <2> QED
    BY <2>2, <2>3, <2>4
<1> QED
  BY <1>1, <1>2, <1>3

\* A station is filed where the first volume of its name is.
LEMMA PlacesKept ==
  ASSUME StationsArePlaced, geometry' = geometry, stations' = stations
  PROVE  StationsArePlaced'
<1> SUFFICES ASSUME NEW s \in DOMAIN stations
             PROVE  (\E p \in PathsTo(s) :
                        /\ stations[s] = [origin |-> PositionOf(p),
                                          halfX |-> geometry.halfX[Last(p)]]
                        /\ \A q \in PathsTo(s) : q # p => MetBefore(p, q))'
  BY DEF StationsArePlaced
<1>1. PICK p \in PathsTo(s) :
        /\ stations[s] = [origin |-> PositionOf(p), halfX |-> geometry.halfX[Last(p)]]
        /\ \A q \in PathsTo(s) : q # p => MetBefore(p, q)
  BY DEF StationsArePlaced
<1> QED
  BY <1>1, PlacesStay

LEMMA FoundIsPlaced ==
  ASSUME SearchInv, WalkInv, PlaceInv, Found
  PROVE  StationsArePlaced'
<1>1. /\ phase = "searching" /\ Matches /\ stations' = Append(stations, Placement)
      /\ geometry' = geometry
  BY DEF Found
<1>2. stations \in Seq(StationPlacement) /\ Len(stations) \in Nat
  BY DEF SearchInv, TypeOK
<1> PICK t : t = Target
  OBVIOUS
<1>3. /\ t = Len(stations) + 1 /\ DOMAIN stations' = 1 .. t /\ stations'[t] = Placement
      /\ \A s \in 1 .. (t - 1) : s \in DOMAIN stations /\ stations'[s] = stations[s]
  BY <1>1, <1>2 DEF Target
<1> SUFFICES ASSUME NEW s \in 1 .. t
             PROVE  (\E p \in PathsTo(s) :
                        /\ stations[s] = [origin |-> PositionOf(p),
                                          halfX |-> geometry.halfX[Last(p)]]
                        /\ \A q \in PathsTo(s) : q # p => MetBefore(p, q))'
  BY <1>3 DEF StationsArePlaced
<1>4. CASE s # t
  <2>1. s \in DOMAIN stations /\ stations'[s] = stations[s]
    BY <1>2, <1>3, <1>4
  <2>2. PICK p \in PathsTo(s) :
          /\ stations[s] = [origin |-> PositionOf(p), halfX |-> geometry.halfX[Last(p)]]
          /\ \A q \in PathsTo(s) : q # p => MetBefore(p, q)
    BY <2>1 DEF PlaceInv, StationsArePlaced
  <2> QED
    BY <1>1, <2>1, <2>2, PlacesStay
<1>5. CASE s = t
  <2> PICK p : p = OpenPath
    OBVIOUS
  <2>1. p \in PathsTo(s)
    BY <1>1, <1>5, FoundPath
  <2>2. PositionOf(p) = Last(history)
    BY <1>1, FoundPosition
  <2>3. Last(p) = Top.volume
    <3>1. Len(stack) \in Nat \ {0}
      BY <1>1, TopTyped
    <3>2. Len(p) = Len(stack) /\ p[Len(stack)] = stack[Len(stack)].volume
      BY <3>1 DEF OpenPath
    <3> QED
      BY <3>2 DEF Last, Top
  <2>4. stations'[s] = [origin |-> PositionOf(p), halfX |-> geometry.halfX[Last(p)]]
    BY <1>3, <1>5, <2>2, <2>3 DEF Placement
  <2>5. \A q \in PathsTo(s) : q # p => MetBefore(p, q)
    BY <1>1, <1>5, FoundFirst
  <2> QED
    BY <1>1, <2>1, <2>4, <2>5, PlacesStay
<1> QED
  BY <1>4, <1>5

\* A new search begins at the world, with nothing above it.
LEMMA PlaceStarts ==
  ASSUME SearchFromWorld, geometry' = geometry
  PROVE  Positioned' /\ Unmatched'
<1>1. Len(stack') = 1 /\ history'[1] = geometry'.at[World]
  BY DEF SearchFromWorld
<1> QED
  BY <1>1 DEF Positioned, Unmatched

LEMMA PlaceStep == SearchInv /\ WalkInv /\ PlaceInv /\ [Next]_vars => PlaceInv'
<1> SUFFICES ASSUME SearchInv, WalkInv, PlaceInv, [Next]_vars PROVE PlaceInv'
  OBVIOUS
<1>1. CASE Convert
  <2>1. SearchFromWorld /\ geometry' = geometry /\ stations' = stations
    BY <1>1 DEF Convert
  <2> QED
    BY <2>1, PlaceStarts, PlacesKept DEF PlaceInv
<1>2. CASE Found
  <2>1. geometry' = geometry /\ (phase' = "searching" => SearchFromWorld)
    BY <1>2 DEF Found
  <2> QED
    BY <1>2, <2>1, PlaceStarts, FoundIsPlaced DEF PlaceInv
<1>3. CASE Descend
  <2>1. /\ phase = "searching" /\ ~Matches /\ Top.next <= Len(Daughters)
        /\ geometry' = geometry /\ stations' = stations
    BY <1>3 DEF Descend
  <2>2. /\ Len(stack) \in Nat \ {0} /\ stack \in Seq(OpenCall)
        /\ history \in Seq(Position) /\ Len(history) = Len(stack) /\ Positioned /\ Unmatched
    BY <2>1, TopTyped DEF SearchInv, TypeOK, PlaceInv
  <2> PICK n \in Nat \ {0} : n = Len(stack)
    BY <2>2
  <2> PICK d : d = Daughters[Top.next]
    OBVIOUS
  <2> PICK new, levels : new = stack' /\ levels = history'
    OBVIOUS
  <2> PICK opened : opened = [stack EXCEPT ![n].next = @ + 1]
    OBVIOUS
  <2>3. /\ new = Append(opened, [volume |-> d, next |-> 1])
        /\ levels = Append(history, Translated(Last(history), geometry.at[d]))
    BY <1>3 DEF Descend
  <2>4. DOMAIN stack = 1 .. n /\ \A i \in 1 .. n : stack[i] \in OpenCall
    BY <2>2
  <2>5. DOMAIN opened = 1 .. n /\ \A i \in 1 .. n : opened[i].volume = stack[i].volume
    BY <2>4 DEF OpenCall
  <2>6. opened \in Seq(OpenCall) /\ Len(opened) = n
    <3>1. n \in 1 .. n
      OBVIOUS
    <3>2. [stack[n] EXCEPT !.next = @ + 1] \in OpenCall
      BY <2>4, <3>1 DEF OpenCall
    <3>3. opened = [stack EXCEPT ![n] = [stack[n] EXCEPT !.next = @ + 1]]
      BY <2>4, <3>1
    <3> QED
      BY <2>2, <3>1, <3>2, <3>3
  <2>7. /\ Len(new) = n + 1 /\ new[n + 1].volume = d
        /\ \A i \in 1 .. n : new[i].volume = stack[i].volume
    <3>1. Len(new) = n + 1 /\ new[n + 1] = [volume |-> d, next |-> 1]
          /\ \A i \in 1 .. n : new[i] = opened[i]
      BY ONLY <2>3, <2>6, n \in Nat \ {0}
    <3>2. new[n + 1].volume = d
      BY ONLY <3>1
    <3> QED
      BY ONLY <2>5, <3>1, <3>2
  <2>8. /\ levels[n + 1] = Translated(history[n], geometry.at[d])
        /\ \A i \in 1 .. n : levels[i] = history[i]
    <3>1. Last(history) = history[n]
      BY <2>2 DEF Last
    <3> QED
      BY <2>2, <2>3, <3>1
  <2>9. Positioned'
    <3>1. levels[1] = geometry.at[World]
      BY <2>2, <2>8 DEF Positioned
    <3>2. ASSUME NEW i \in 1 .. n
          PROVE  levels[i + 1] = Translated(levels[i], geometry.at[new[i + 1].volume])
      <4>1. CASE i = n
        <5>1. n \in 1 .. n
          OBVIOUS
        <5> QED
          BY <2>7, <2>8, <4>1, <5>1
      <4>2. CASE i # n
        <5>1. i \in 1 .. (n - 1) /\ i + 1 \in 1 .. n
          BY <4>2
        <5>2. history[i + 1] = Translated(history[i], geometry.at[stack[i + 1].volume])
          BY <2>2, <5>1 DEF Positioned
        <5>3. levels[i + 1] = history[i + 1] /\ levels[i] = history[i]
              /\ new[i + 1].volume = stack[i + 1].volume
          BY <2>7, <2>8, <5>1
        <5> QED
          BY <5>2, <5>3
      <4> QED
        BY <4>1, <4>2
    <3>3. Len(new) - 1 = n
      BY <2>7
    <3> QED
      BY <2>1, <3>1, <3>2, <3>3 DEF Positioned
  <2>10. Unmatched'
    <3>1. ASSUME NEW i \in 1 .. n PROVE geometry.name[new[i].volume] # Target
      <4>1. CASE i = n
        BY <2>1, <2>7, <4>1 DEF Matches, Top
      <4>2. CASE i # n
        <5>1. i \in 1 .. (n - 1)
          BY <4>2
        <5> QED
          BY <2>2, <2>7, <5>1 DEF Unmatched
      <4> QED
        BY <4>1, <4>2
    <3>2. Len(new) - 1 = n /\ Target' = Target
      BY <2>1, <2>7 DEF Target
    <3> QED
      BY <2>1, <3>1, <3>2 DEF Unmatched
  <2> QED
    BY <2>1, <2>9, <2>10, PlacesKept DEF PlaceInv
<1>4. CASE Return
  <2>1. /\ phase = "searching" /\ geometry' = geometry /\ stations' = stations
        /\ Len(stack) > 1 /\ stack' = Front(stack) /\ history' = Front(history)
    BY <1>4 DEF Return
  <2>2. /\ Len(stack) \in Nat \ {0} /\ stack \in Seq(OpenCall) /\ stack # << >>
        /\ history \in Seq(Position) /\ Len(history) = Len(stack) /\ history # << >>
        /\ Positioned /\ Unmatched
    BY <2>1, TopTyped DEF SearchInv, TypeOK, PlaceInv
  <2> PICK n \in Nat : n = Len(stack)
    BY <2>2
  <2> PICK new, levels : new = stack' /\ levels = history'
    OBVIOUS
  <2>3. /\ n > 1 /\ Len(new) = n - 1
        /\ \A i \in 1 .. (n - 1) : new[i] = stack[i] /\ levels[i] = history[i]
    <3>1. /\ Len(Front(stack)) = Len(stack) - 1
          /\ \A i \in 1 .. (Len(stack) - 1) : Front(stack)[i] = stack[i]
      BY <2>2, LastAndFront
    <3>2. \A i \in 1 .. (Len(history) - 1) : Front(history)[i] = history[i]
      BY <2>2, LastAndFront
    <3> QED
      BY <2>1, <2>2, <3>1, <3>2
  <2>4. Positioned'
    <3>1. levels[1] = geometry.at[World]
      BY <2>2, <2>3 DEF Positioned
    <3>2. ASSUME NEW i \in 1 .. (n - 1 - 1)
          PROVE  levels[i + 1] = Translated(levels[i], geometry.at[new[i + 1].volume])
      <4>1. i \in 1 .. (n - 1) /\ i + 1 \in 1 .. (n - 1)
        BY <2>3
      <4>2. history[i + 1] = Translated(history[i], geometry.at[stack[i + 1].volume])
        BY <2>2, <4>1 DEF Positioned
      <4>3. new[i + 1] = stack[i + 1] /\ levels[i] = history[i] /\ levels[i + 1] = history[i + 1]
        BY <2>3, <4>1
      <4> QED
        BY <4>2, <4>3
    <3> QED
      BY <2>1, <2>3, <3>1, <3>2 DEF Positioned
  <2>5. Unmatched'
    <3>1. ASSUME NEW i \in 1 .. (n - 1 - 1) PROVE geometry.name[new[i].volume] # Target
      <4>1. i \in 1 .. (n - 1)
        BY <2>3
      <4> QED
        BY <2>2, <2>3, <4>1 DEF Unmatched
    <3>2. Target' = Target
      BY <2>1 DEF Target
    <3> QED
      BY <2>1, <2>3, <3>1, <3>2 DEF Unmatched
  <2> QED
    BY <2>1, <2>4, <2>5, PlacesKept DEF PlaceInv
<1>5. CASE \/ ResolveFile \/ FileMissing \/ ConvertFails \/ NotFound \/ Build \/ BuildFails
           \/ DestroyProvider \/ Exit
  <2>1. phase' # "searching" /\ geometry' = geometry /\ stations' = stations
    BY <1>5 DEF ResolveFile, FileMissing, ConvertFails, NotFound, Build, BuildFails,
                DestroyProvider, Exit
  <2> QED
    BY <2>1, PlacesKept DEF PlaceInv
<1>6. CASE UNCHANGED vars
  <2>1. /\ phase' = phase /\ stack' = stack /\ history' = history
        /\ geometry' = geometry /\ stations' = stations
    BY <1>6 DEF vars
  <2>2. Positioned' = Positioned /\ Unmatched' = Unmatched
    BY <2>1 DEF Positioned, Unmatched, Target
  <2> QED
    BY <2>1, <2>2, PlacesKept DEF PlaceInv
<1> QED
  BY <1>1, <1>2, <1>3, <1>4, <1>5, <1>6 DEF Next, Work, Finished

\* The placement filed for a station is that of the first volume of its name that
\* a walk from the world meets, composed of all placements on the path to it, in
\* every geometry, volumes shared by several mothers included.
THEOREM StationsWherePlaced == Spec => []StationsArePlaced
<1>1. Init => WalkInv
  BY DEF Init, WalkInv
<1>2. Init => PlaceInv
  <2>1. ASSUME Init PROVE phase # "searching" /\ DOMAIN stations = {}
    BY <2>1 DEF Init
  <2> QED
    BY <2>1 DEF PlaceInv, StationsArePlaced
<1>3. PlaceInv => StationsArePlaced
  BY DEF PlaceInv
<1> QED
  BY <1>1, <1>2, <1>3, SearchCorrect, WalkStep, PlaceStep, PTL DEF Spec

-------------------------------------------------------------------------------
(* The end of the job. *)

\* There are surfaces only after the build, and from the build to the exit of the
\* main thread a cleanup that is no longer held has emptied the stores.  A crash
\* at exit is therefore one of a job that threw before it had surfaces.
ExitInv ==
    /\ phase \notin {"providing", "ended"} => surfaces = << >>
    /\ phase = "providing" => cleanup = "held" \/ (cleanup = "done" /\ ~stores)

\* Neither the search nor the exceptions of the build touch what the end of the
\* job depends on.
LEMMA WorkKeepsExitClean ==
    ASSUME ExitInv, Work
    PROVE  ExitInv'
<1> USE DEF ExitInv
<1>1. CASE ResolveFile \/ FileMissing \/ Convert \/ ConvertFails
      BY <1>1 DEF ResolveFile, FileMissing, Convert, ConvertFails
<1>2. CASE Found \/ Descend \/ Return \/ NotFound
      BY <1>2 DEF Found, Descend, Return, NotFound
<1>3. CASE Build
      BY <1>3 DEF Build
<1>4. CASE BuildFails
      BY <1>4 DEF BuildFails
<1>5. CASE DestroyProvider
      BY <1>5 DEF DestroyProvider
<1>6. CASE Exit
      BY <1>6 DEF Exit
<1> QED BY <1>1, <1>2, <1>3, <1>4, <1>5, <1>6 DEF Work

\* In every job that got its geometry, whatever the geometry is, the stores are
\* empty when their destructors run on the main thread.
THEOREM ProvidedJobsExitCleanly == Spec => []CleanExitOnceProvided
<1>1. Init => ExitInv
      BY DEF Init, ExitInv
<1>2. ExitInv /\ [Next]_vars => ExitInv'
  <2>1. CASE UNCHANGED vars
        BY <2>1 DEF vars, ExitInv
  <2>2. CASE Finished
        BY <2>2 DEF Finished, vars, ExitInv
  <2> QED BY <2>1, <2>2, WorkKeepsExitClean DEF Next
<1>3. ExitInv => CleanExitOnceProvided
      BY DEF ExitInv, CleanExitOnceProvided, CleanExit
<1> QED BY <1>1, <1>2, <1>3, PTL DEF Spec
===============================================================================
