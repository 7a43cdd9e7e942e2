--------------------------- MODULE GeometrySelection ---------------------------
(***************************************************************************)
(* The containers keyed by geometry identifier: a sorted multiset, the       *)
(* selection of a range of it by volume, layer or module, and the iteration  *)
(* over groups of equal identifiers.                                       *)
(*                                                                         *)
(* An identifier packs volume, layer and sensitive into one integer, volume  *)
(* highest.  An element is its identifier; a range is two positions, the     *)
(* second one behind its last element.                                     *)
(***************************************************************************)
EXTENDS Integers, Sequences, FiniteSetsExt

CONSTANTS VolumeRange, LayerRange, SensitiveRange, \* number of values of a component
          MaxElements                              \* bound: size of the container

ASSUME RangeAssumption ==
    /\ VolumeRange \in Nat \ {0} /\ LayerRange \in Nat \ {0} /\ SensitiveRange \in Nat \ {0}
    /\ MaxElements \in Nat

Id == [volume : 0 .. VolumeRange - 1, layer : 0 .. LayerRange - 1,
       sensitive : 0 .. SensitiveRange - 1]

\* Acts::GeometryIdentifier().withVolume(v).withLayer(l).withSensitive(s): what a
\* component has too many bits is cut off.
Identifier(v, l, s) ==
    [volume |-> v % VolumeRange, layer |-> l % LayerRange, sensitive |-> s % SensitiveRange]

Value(id) == (id.volume * LayerRange + id.layer) * SensitiveRange + id.sensitive

VARIABLES
    elements, \* the container
    query,    \* the identifier last asked for
    range,    \* what was selected
    group     \* the GroupIterator: the positions of a group's begin and end

vars == <<elements, query, range, group>>

Positions == [from : 1 .. MaxElements + 1, to : 1 .. MaxElements + 1]
EndOf(seq) == Len(seq) + 1
End == EndOf(elements)

Init ==
    /\ elements = << >>
    /\ query = Identifier(0, 0, 0)
    /\ range = [from |-> 1, to |-> 1]
    /\ group = [from |-> 1, to |-> 1]

-------------------------------------------------------------------------------
(* Selection *)

\* The first position from which on no element is below, or is at most, an id.
LowerBound(from, id) ==
    Min({i \in from .. End : i = End \/ Value(elements[i]) >= Value(id)})
UpperBound(from, id) ==
    Min({i \in from .. End : i = End \/ Value(elements[i]) > Value(id)})

SelectVolume(v) ==
    LET beg == LowerBound(1, Identifier(v, 0, 0))
    IN  [from |-> beg, to |-> LowerBound(beg, Identifier(v + 1, 0, 0))]

\* The upper edge is the last identifier of the layer, left out.
SelectLayer_LastIdentifier(v, l) ==
    LET beg == LowerBound(1, Identifier(v, l, 0))
    IN  [from |-> beg, to |-> LowerBound(beg, Identifier(v, l, SensitiveRange - 1))]

SelectLayer(v, l) ==
    LET beg == LowerBound(1, Identifier(v, l, 0))
    IN  [from |-> beg, to |-> LowerBound(beg, Identifier(v, l + 1, 0))]

\* equal_range
SelectModule(id) == [from |-> LowerBound(1, id), to |-> UpperBound(1, id)]

SelectLowestNonZeroGeometryObject(id) ==
    CASE id.sensitive # 0 -> SelectModule(id)
      [] id.sensitive = 0 /\ id.layer # 0 -> SelectLayer(id.volume, id.layer)
      [] id.sensitive = 0 /\ id.layer = 0 /\ id.volume # 0 -> SelectVolume(id.volume)
      [] OTHER -> [from |-> 1, to |-> End]

-------------------------------------------------------------------------------
(* Groups *)

\* Only the neighbour is looked at.
FindEndOfGroup_Neighbour(seq, start) ==
    LET neighbour == Min({start + 1, EndOf(seq)})
    IN  IF neighbour # EndOf(seq) /\ seq[neighbour] = seq[start] THEN neighbour + 1 ELSE neighbour

\* The first element from start on with another key.
FindEndOfGroup(seq, start) ==
    Min({i \in start .. EndOf(seq) : i = EndOf(seq) \/ seq[i] # seq[start]})

\* flat_multiset::insert, which invalidates ranges and iterators; begin() of the
\* groups afterwards.
Insert(id) ==
    /\ Len(elements) < MaxElements
    /\ LET at == UpperBound(1, id)
       IN  elements' = SubSeq(elements, 1, at - 1) \o <<id>> \o SubSeq(elements, at, End - 1)
    /\ range' = [from |-> 1, to |-> 1]
    /\ group' = [from |-> 1, to |-> FindEndOfGroup(elements', 1)]
    /\ UNCHANGED query

Select(id) ==
    /\ query' = id
    /\ range' = SelectLowestNonZeroGeometryObject(id)
    /\ UNCHANGED <<elements, group>>

\* operator++
NextGroup ==
    /\ group.from # End
    /\ group' = [from |-> group.to, to |-> FindEndOfGroup(elements, group.to)]
    /\ UNCHANGED <<elements, query, range>>

Next ==
    \/ \E id \in Id : Insert(id) \/ Select(id)
    \/ NextGroup

Spec == Init /\ [][Next]_vars

-------------------------------------------------------------------------------
(* Properties *)

\* The components of q that are not wildcards are those of e.
IsIn(e, q) ==
    /\ q.sensitive # 0 => e = q
    /\ q.layer # 0 => e.layer = q.layer /\ e.volume = q.volume
    /\ q.volume # 0 => e.volume = q.volume

\* The component that is selected by has its last value, and its successor wraps.
AtTheEdge(q) ==
    /\ q.sensitive = 0
    /\ \/ q.layer # 0 /\ q.layer = LayerRange - 1
       \/ q.layer = 0 /\ q.volume # 0 /\ q.volume = VolumeRange - 1

\* A selection is exactly the elements of the volume, layer or module asked for,
\* wherever elements lie around it; at the edge of a component it is empty.
SelectionIsExact ==
    [][elements' = elements /\ <<query, range>>' # <<query, range>> =>
          {i \in DOMAIN elements : range'.from <= i /\ i < range'.to} =
          {i \in DOMAIN elements : IsIn(elements[i], query') /\ ~AtTheEdge(query')}]_vars

\* A group of groupByModule, whose key is the whole geometry identifier, has every
\* element of its key and no other.
GroupsAreWhole ==
    group.from # End =>
        {i \in DOMAIN elements : group.from <= i /\ i < group.to} =
        {i \in DOMAIN elements : elements[i] = elements[group.from]}
===============================================================================
