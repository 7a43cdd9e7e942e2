--------------------------- MODULE ReconstructionJobProofs ---------------------------
(***************************************************************************)
(* Proofs about RecOutput and ReconstructionJob, for any number of files,    *)
(* spills, seeds and hits.  The registration: the check of the paths keeps   *)
(* comparable outputs apart, the simulation writers exist whenever an        *)
(* observer for them does, and all outputs observe the same products.  The   *)
(* job: it completes only with every observer called once for each of its    *)
(* cells, with what belongs to the cell, and it implements the ledger.       *)
(***************************************************************************)
EXTENDS ReconstructionJob, SequenceTheorems, FiniteSetTheorems, TLAPS

\* What is fixed after Init, and the files before anything is opened.
ConfigInv ==
    /\ config \in Configs
    /\ before \in Existing
    /\ content \in [Files -> {"absent", "old", "rntuple", "histograms"}]
    /\ step = "start" => content = ContentBefore

\* Comparable paths that have got past the check are different files.
PathInv ==
    step \in {"writer", "histograms"} =>
        /\ content[config.rntuple_file.file] = "rntuple"
           \/ ~Comparable
        /\ Comparable => config.rntuple_file.file # config.histo_file.file

OutputInv == ConfigInv /\ PathInv

\* At the start comparable paths that lead to one file have one canonical form.
LEMMA ComparablePathsClash ==
    ASSUME ConfigInv, step = "start", Comparable, ~Clash
    PROVE  config.rntuple_file.file # config.histo_file.file
<1>1. config.rntuple_file \in Paths /\ config.histo_file \in Paths
    BY DEF ConfigInv, Configs
<1>2. SUFFICES ASSUME config.rntuple_file.file = config.histo_file.file
               PROVE  Clash
    OBVIOUS
<1>. DEFINE f == config.rntuple_file.file
<1>3. f \in Files
    BY <1>1 DEF Paths
<1>4. CASE config.rntuple_file.hasDir = config.histo_file.hasDir
    <2>1. config.rntuple_file = config.histo_file
        BY <1>1, <1>2, <1>4 DEF Paths
    <2>. QED
        BY <2>1 DEF Clash
<1>5. CASE f \in before
    <2>1. content[f] # "absent"
        BY <1>3, <1>5 DEF ConfigInv, ContentBefore
    <2>2. WeaklyCanonical(config.rntuple_file) = [hasDir |-> TRUE, file |-> f]
        BY <1>1, <2>1 DEF WeaklyCanonical, Paths
    <2>3. WeaklyCanonical(config.histo_file) = [hasDir |-> TRUE, file |-> f]
        BY <1>1, <1>2, <2>1 DEF WeaklyCanonical, Paths
    <2>. QED
        BY <2>2, <2>3 DEF Clash
<1>. QED
    BY <1>4, <1>5 DEF Comparable

LEMMA OutputInit == Init => OutputInv
    BY DEF Init, OutputInv, ConfigInv, PathInv, ContentBefore

LEMMA OutputStep == OutputInv /\ [Next]_vars => OutputInv'
<1>. SUFFICES ASSUME OutputInv, [Next]_vars
              PROVE  OutputInv'
    OBVIOUS
<1>. USE DEF OutputInv
<1>0. /\ config.rntuple_file.file \in Files
      /\ config.histo_file.file \in Files
    BY DEF ConfigInv, Configs, Paths
<1>1. CASE MakeWriter
    <2>1. config' = config /\ before' = before /\ step' = "writer"
        BY <1>1 DEF MakeWriter
    <2>2. ConfigInv'
        BY <1>1, <2>1 DEF MakeWriter, ConfigInv
    <2>3. content'[config.rntuple_file.file] = "rntuple"
        BY <1>0, <1>1 DEF MakeWriter, ConfigInv
    <2>4. Comparable => config.rntuple_file.file # config.histo_file.file
        BY <1>1, ComparablePathsClash DEF MakeWriter
    <2>. QED
        BY <2>1, <2>2, <2>3, <2>4 DEF PathInv, Comparable
<1>2. CASE MakeHistoFile
    <2>1. config' = config /\ before' = before /\ step' = "histograms" /\ step = "writer"
        BY <1>2 DEF MakeHistoFile
    <2>2. ConfigInv'
        BY <1>2, <2>1 DEF MakeHistoFile, ConfigInv
    <2>3. PathInv'
        BY <1>0, <1>2, <2>1 DEF MakeHistoFile, ConfigInv, PathInv, Comparable
    <2>. QED
        BY <2>2, <2>3
<1>3. CASE RegisterNode
    BY <1>3 DEF RegisterNode, ConfigInv, PathInv, Comparable, ContentBefore
<1>4. CASE RejectMode \/ RejectClash \/ MakeNoop \/ CannotOpen
    BY <1>4 DEF RejectMode, RejectClash, MakeNoop, CannotOpen, ConfigInv, PathInv
<1>5. CASE Finished \/ UNCHANGED vars
    BY <1>5 DEF Finished, vars, ConfigInv, PathInv, Comparable, ContentBefore
<1>. QED
    BY <1>1, <1>2, <1>3, <1>4, <1>5 DEF Next

\* rec_output_module.cpp 181-188: with comparable paths the histogram file is
\* never the file of the RNTuple writer.
THEOREM OutputsAreApart == Spec => []OutputsDifferIfComparable
<1>1. OutputInv => OutputsDifferIfComparable
    BY DEF OutputInv, PathInv, OutputsDifferIfComparable, OutputsDiffer
<1>. QED
    BY <1>1, OutputInit, OutputStep, PTL DEF Spec

-------------------------------------------------------------------------------
(* The simulation writers *)

\* The observers of the reconstruction and of the simulation, as registered.
RecoWriters ==
    << Writes("write_spectrometer_tracks", Tracks),
       Writes("write_upstream_tagger", UBTHits),
       Writes("write_surround_tagger", SBTHits),
       Writes("write_calorimeter", CaloHits),
       Writes("write_timing_detector", TimeDetHits) >>
SimWriters == << Writes("write_sim_hits", SimHits), Writes("write_sim_particles", SimParticles) >>
RecoHistos ==
    << Validates("validate_spectrometer", Tracks),
       Validates("validate_upstream_tagger", UBTHits),
       Validates("validate_surround_tagger", SBTHits),
       Validates("validate_calorimeter", CaloHits),
       Validates("validate_timing_detector", TimeDetHits) >>
SimHistos == << Node("validate_sim_truth", "histogrammer", SimProducts) >>

\* Nodes that, if they belong to the writer, only want RNTuples of the set T.
ServedBy(T) == {n \in Nodes : n.object = "writer" => n.inputs \subseteq T}

\* Every observer of the writer, registered or yet to be, has its RNTuple.
WriterInv ==
    /\ config \in Configs
    /\ todo \in Seq(ServedBy(tuples))
    /\ nodes \in Seq(ServedBy(tuples))
    /\ step = "start" => nodes = << >>

LEMMA NodeServed ==
    ASSUME NEW T, NEW name \in NodeNames, NEW object \in {"noop", "writer", "histogrammer"},
           NEW inputs \in SUBSET Products, object = "writer" => inputs \subseteq T
    PROVE  Node(name, object, inputs) \in ServedBy(T)
<1>. DEFINE n == Node(name, object, inputs)
<1>1. n = [name |-> name, object |-> object, inputs |-> inputs]
    BY DEF Node
<1>2. n \in Nodes
    BY <1>1 DEF Nodes
<1>3. n.object = object /\ n.inputs = inputs
    BY <1>1
<1>. HIDE DEF n
<1>4. n \in ServedBy(T)
    BY <1>2, <1>3 DEF ServedBy
<1>. QED
    BY <1>4 DEF n

LEMMA RegistersServed ==
    ASSUME NEW s \in BOOLEAN
    PROVE  /\ WriterNodes(s) \in Seq(ServedBy(TuplesOf(s)))
           /\ \A T : NoopNodes(s) \in Seq(ServedBy(T)) /\ HistoNodes(s) \in Seq(ServedBy(T))
<1>. DEFINE S == ServedBy(TuplesOf(s))
<1>. USE DEF RecoWriters, SimWriters, RecoHistos, SimHistos
<1>1. \A name \in NodeNames : \A p \in TuplesOf(s) : Writes(name, p) \in S
    <2>1. TuplesOf(s) \subseteq Products
        BY DEF TuplesOf, Products
    <2>. QED
        BY <2>1, NodeServed DEF Writes
<1>2. RecoProducts \subseteq TuplesOf(s) /\ (s => SimProducts \subseteq TuplesOf(s))
    BY DEF TuplesOf
<1>3. WriterNodes(s) = RecoWriters \o (IF s THEN SimWriters ELSE << >>)
    BY DEF WriterNodes
<1>4. HistoNodes(s) = RecoHistos \o (IF s THEN SimHistos ELSE << >>)
    BY DEF HistoNodes
<1>5. WriterNodes(s) \in Seq(S)
    <2>. HIDE DEF S
    <2>1. RecoWriters \in Seq(S)
        <3>1. /\ Writes("write_spectrometer_tracks", Tracks) \in S
              /\ Writes("write_upstream_tagger", UBTHits) \in S
              /\ Writes("write_surround_tagger", SBTHits) \in S
              /\ Writes("write_calorimeter", CaloHits) \in S
              /\ Writes("write_timing_detector", TimeDetHits) \in S
            BY <1>1, <1>2 DEF RecoProducts, NodeNames
        <3>. QED
            BY <3>1
    <2>2. s => SimWriters \in Seq(S)
        <3>1. s => /\ Writes("write_sim_hits", SimHits) \in S
                   /\ Writes("write_sim_particles", SimParticles) \in S
            BY <1>1, <1>2 DEF SimProducts, NodeNames
        <3>. QED
            BY <3>1
    <2>3. (IF s THEN SimWriters ELSE << >>) \in Seq(S)
        BY <2>2
    <2>. HIDE DEF RecoWriters, SimWriters
    <2>. QED
        BY <1>3, <2>1, <2>3, ConcatProperties
<1>6. ASSUME NEW T
      PROVE  NoopNodes(s) \in Seq(ServedBy(T)) /\ HistoNodes(s) \in Seq(ServedBy(T))
    <2>. DEFINE R == ServedBy(T)
    <2>1. \A name \in NodeNames : \A p \in Products : Validates(name, p) \in R
        BY NodeServed DEF Validates
    <2>2. Node("validate_sim_truth", "histogrammer", SimProducts) \in R
        BY NodeServed DEF Products, NodeNames
    <2>3. NoopNodes(s) \in Seq(R)
        <3>1. \A i \in SUBSET Products : Node("noop", "noop", i) \in R
            BY NodeServed DEF NodeNames
        <3>. HIDE DEF R
        <3>. QED
            BY <3>1 DEF NoopNodes, Products
    <2>. HIDE DEF R
    <2>4. RecoHistos \in Seq(R)
        <3>1. /\ Validates("validate_spectrometer", Tracks) \in R
              /\ Validates("validate_upstream_tagger", UBTHits) \in R
              /\ Validates("validate_surround_tagger", SBTHits) \in R
              /\ Validates("validate_calorimeter", CaloHits) \in R
              /\ Validates("validate_timing_detector", TimeDetHits) \in R
            BY <2>1 DEF Products, RecoProducts, NodeNames
        <3>. QED
            BY <3>1
    <2>5. (IF s THEN SimHistos ELSE << >>) \in Seq(R)
        BY <2>2
    <2>. HIDE DEF RecoHistos, SimHistos
    <2>6. HistoNodes(s) \in Seq(R)
        BY <1>4, <2>4, <2>5, ConcatProperties
    <2>. QED
        BY <2>3, <2>6 DEF R
<1>. QED
    BY <1>5, <1>6

LEMMA WriterInit == Init => WriterInv
    BY DEF Init, WriterInv

LEMMA WriterStep == WriterInv /\ [Next]_vars => WriterInv'
<1>. SUFFICES ASSUME WriterInv, [Next]_vars
              PROVE  WriterInv'
    OBVIOUS
<1>. USE DEF WriterInv
<1>0. config.isSim \in BOOLEAN
    BY DEF Configs
<1>1. CASE MakeWriter
    <2>1. todo' \in Seq(ServedBy(tuples'))
        BY <1>0, <1>1, RegistersServed DEF MakeWriter
    <2>2. nodes' = << >> /\ config' = config
        BY <1>1 DEF MakeWriter
    <2>. QED
        BY <1>1, <2>1, <2>2 DEF MakeWriter
<1>2. CASE MakeHistoFile \/ MakeNoop
    <2>1. todo' \in Seq(ServedBy(tuples))
        BY <1>0, <1>2, RegistersServed DEF MakeHistoFile, MakeNoop
    <2>. QED
        BY <1>2, <2>1 DEF MakeHistoFile, MakeNoop
<1>3. CASE RegisterNode
    BY <1>3 DEF RegisterNode
<1>4. CASE RejectMode \/ RejectClash \/ CannotOpen \/ Finished \/ UNCHANGED vars
    BY <1>4 DEF RejectMode, RejectClash, CannotOpen, Finished, vars
<1>. QED
    BY <1>1, <1>2, <1>3, <1>4 DEF Next

\* typed_rntuple_writer.hpp 177-181: no observer calls write_sim without the
\* simulation writers.
THEOREM SimWritersAreThere == Spec => []WritersExist
<1>1. WriterInv => WritersExist
    BY DEF WriterInv, WritersExist, ServedBy
<1>. QED
    BY <1>1, WriterInit, WriterStep, PTL DEF Spec
-------------------------------------------------------------------------------
(* The same products everywhere *)

\* The products that the observers of an object in a list get.
Given(list, object) ==
    {p \in Products : \E i \in DOMAIN list : list[i].object = object /\ p \in list[i].inputs}

\* The products that the observers of an object are to get in the current step.
Planned(object) ==
    IF \/ object = "writer" /\ step \in {"writer", "histograms"}
       \/ object = "histogrammer" /\ step = "histograms"
       \/ object = "noop" /\ step = "noop"
    THEN TuplesOf(config.isSim)
    ELSE {}

\* Until it is rejected or fails, what an object has been given and what it is yet
\* to be given is what the step plans for it.
PlanInv ==
    step \notin {"rejected", "failed"} =>
        /\ \A object \in {"noop", "writer", "histogrammer"} :
              Given(nodes, object) \union Given(todo, object) = Planned(object)
        /\ step = "noop" => config.mode = "noop"
        /\ step \in {"writer", "histograms"} =>
              config.mode = "reco" /\ tuples = TuplesOf(config.isSim)

LEMMA GivenByNone == \A object : Given(<< >>, object) = {}
    BY DEF Given

LEMMA GivenByBoth ==
    ASSUME NEW a \in Seq(Nodes), NEW b \in Seq(Nodes), NEW object
    PROVE  Given(a \o b, object) = Given(a, object) \union Given(b, object)
<1>. PICK n \in Nat : n = Len(a)
    OBVIOUS
<1>. PICK m \in Nat : m = Len(b)
    OBVIOUS
<1>. PICK c : c = a \o b
    OBVIOUS
<1>1. /\ DOMAIN a = 1 .. n /\ DOMAIN b = 1 .. m /\ DOMAIN c = 1 .. (n + m)
      /\ \A i \in 1 .. n : c[i] = a[i]
      /\ \A j \in 1 .. m : c[n + j] = b[j]
    BY ConcatProperties
<1>2. ASSUME NEW p \in Given(c, object)
      PROVE  p \in Given(a, object) \union Given(b, object)
    <2>1. PICK i \in 1 .. (n + m) : c[i].object = object /\ p \in c[i].inputs
        BY <1>1, <1>2 DEF Given
    <2>2. CASE i <= n
        BY <1>1, <1>2, <2>1, <2>2 DEF Given
    <2>3. CASE i > n
        <3>1. i - n \in 1 .. m /\ n + (i - n) = i
            BY <2>3
        <3>2. c[i] = b[i - n]
            BY <1>1, <3>1
        <3>. QED
            BY <1>1, <1>2, <2>1, <3>1, <3>2 DEF Given
    <2>. QED
        BY <2>2, <2>3
<1>3. ASSUME NEW p \in Given(a, object)
      PROVE  p \in Given(c, object)
    <2>1. PICK i \in 1 .. n : a[i].object = object /\ p \in a[i].inputs
        BY <1>1, <1>3 DEF Given
    <2>2. i \in 1 .. (n + m) /\ c[i] = a[i]
        BY <1>1
    <2>. QED
        BY <1>1, <1>3, <2>1, <2>2 DEF Given
<1>4. ASSUME NEW p \in Given(b, object)
      PROVE  p \in Given(c, object)
    <2>1. PICK j \in 1 .. m : b[j].object = object /\ p \in b[j].inputs
        BY <1>1, <1>4 DEF Given
    <2>2. n + j \in 1 .. (n + m) /\ c[n + j] = b[j]
        BY <1>1
    <2>. QED
        BY <1>1, <1>4, <2>1, <2>2 DEF Given
<1>. QED
    BY <1>2, <1>3, <1>4

\* The observer at the head of a list, and those after it.
LEMMA GivenByHead ==
    ASSUME NEW list \in Seq(Nodes), list # << >>, NEW object
    PROVE  /\ <<Head(list)>> \in Seq(Nodes) /\ Tail(list) \in Seq(Nodes)
           /\ Given(list, object) = Given(<<Head(list)>>, object) \union Given(Tail(list), object)
<1>1. <<Head(list)>> \in Seq(Nodes) /\ Tail(list) \in Seq(Nodes)
    OBVIOUS
<1>2. list = <<Head(list)>> \o Tail(list)
    BY <1>1
<1>3. PICK h \in Seq(Nodes) : h = <<Head(list)>>
    BY <1>1
<1>4. PICK t \in Seq(Nodes) : t = Tail(list)
    BY <1>1
<1>5. Given(h \o t, object) = Given(h, object) \union Given(t, object)
    BY GivenByBoth
<1>. QED
    BY ONLY <1>1, <1>2, <1>3, <1>4, <1>5

\* Registering an observer changes nothing about what is given in all.
LEMMA GivenByRegistering ==
    ASSUME NEW done \in Seq(Nodes), NEW list \in Seq(Nodes), list # << >>, NEW object
    PROVE  Given(Append(done, Head(list)), object) \union Given(Tail(list), object)
           = Given(done, object) \union Given(list, object)
<1>1. Append(done, Head(list)) = done \o <<Head(list)>>
    OBVIOUS
<1>2. PICK h \in Seq(Nodes) : h = <<Head(list)>>
    BY GivenByHead
<1>3. Given(done \o h, object) = Given(done, object) \union Given(h, object)
    BY GivenByBoth
<1>4. Given(list, object) = Given(h, object) \union Given(Tail(list), object)
    BY <1>2, GivenByHead
<1>5. Given(Append(done, Head(list)), object) = Given(done, object) \union Given(h, object)
    BY ONLY <1>1, <1>2, <1>3
<1>. QED
    BY ONLY <1>4, <1>5

\* A list of observers of one object.
LEMMA GivenByOwner ==
    ASSUME NEW list \in Seq(Nodes), NEW owner, NEW object,
           \A i \in DOMAIN list : list[i].object = owner
    PROVE  Given(list, object)
           = IF owner = object THEN UNION {list[i].inputs : i \in DOMAIN list} ELSE {}
<1>1. \A i \in DOMAIN list : list[i].inputs \subseteq Products
    <2>1. \A i \in DOMAIN list : list[i] \in Nodes
        OBVIOUS
    <2>. QED
        BY <2>1 DEF Nodes
<1>. QED
    BY <1>1 DEF Given

LEMMA GivenByOne ==
    ASSUME NEW n \in Nodes, NEW object
    PROVE  /\ <<n>> \in Seq(Nodes)
           /\ Given(<<n>>, object) = IF object = n.object THEN n.inputs ELSE {}
<1>. PICK list : list = <<n>>
    OBVIOUS
<1>1. list \in Seq(Nodes) /\ DOMAIN list = {1} /\ list[1] = n
    OBVIOUS
<1>2. \A i \in DOMAIN list : list[i].object = n.object
    BY <1>1
<1>3. UNION {list[i].inputs : i \in DOMAIN list} = n.inputs
    BY <1>1
<1>4. Given(list, object)
      = IF n.object = object THEN UNION {list[i].inputs : i \in DOMAIN list} ELSE {}
    BY ONLY <1>1, <1>2, GivenByOwner
<1>. QED
    BY ONLY <1>1, <1>3, <1>4, list = <<n>>

LEMMA NodeFields ==
    ASSUME NEW name \in NodeNames, NEW object \in {"noop", "writer", "histogrammer"},
           NEW inputs \in SUBSET Products
    PROVE  /\ Node(name, object, inputs) \in Nodes
           /\ Node(name, object, inputs).object = object
           /\ Node(name, object, inputs).inputs = inputs
    BY DEF Node, Nodes

\* Each list of observers gives its object the products of the simulation switch
\* and the other objects nothing.
LEMMA ListsGive ==
    ASSUME NEW s \in BOOLEAN, NEW object
    PROVE  /\ WriterNodes(s) \in Seq(Nodes)
           /\ Given(WriterNodes(s), object) = IF object = "writer" THEN TuplesOf(s) ELSE {}
           /\ HistoNodes(s) \in Seq(Nodes)
           /\ Given(HistoNodes(s), object)
              = IF object = "histogrammer" THEN TuplesOf(s) ELSE {}
           /\ NoopNodes(s) \in Seq(Nodes)
           /\ Given(NoopNodes(s), object) = IF object = "noop" THEN TuplesOf(s) ELSE {}
<1>. USE DEF RecoWriters, SimWriters, RecoHistos, SimHistos
<1>1. /\ RecoProducts = UNION {{Tracks}, {UBTHits}, {SBTHits}, {CaloHits}, {TimeDetHits}}
      /\ SimProducts = {SimHits} \union {SimParticles}
      /\ RecoProducts \subseteq Products /\ SimProducts \subseteq Products
    BY DEF RecoProducts, SimProducts, Products
<1>2. TuplesOf(s) = RecoProducts \union (IF s THEN SimProducts ELSE {})
    BY DEF TuplesOf
<1>3. \A name \in NodeNames : \A p \in Products :
         /\ Writes(name, p) \in Nodes
         /\ Writes(name, p).object = "writer" /\ Writes(name, p).inputs = {p}
         /\ Validates(name, p) \in Nodes
         /\ Validates(name, p).object = "histogrammer" /\ Validates(name, p).inputs = {p}
    BY NodeFields DEF Writes, Validates
<1>4. /\ Tracks \in Products /\ UBTHits \in Products /\ SBTHits \in Products
      /\ CaloHits \in Products /\ TimeDetHits \in Products
      /\ SimHits \in Products /\ SimParticles \in Products
    BY DEF RecoProducts, SimProducts, Products
<1>5. RecoWriters \in Seq(Nodes)
      /\ Given(RecoWriters, object) = IF object = "writer" THEN RecoProducts ELSE {}
    <2>. PICK a : a = Writes("write_spectrometer_tracks", Tracks)
        OBVIOUS
    <2>. PICK b : b = Writes("write_upstream_tagger", UBTHits)
        OBVIOUS
    <2>. PICK c : c = Writes("write_surround_tagger", SBTHits)
        OBVIOUS
    <2>. PICK d : d = Writes("write_calorimeter", CaloHits)
        OBVIOUS
    <2>. PICK e : e = Writes("write_timing_detector", TimeDetHits)
        OBVIOUS
    <2>. PICK list : list = RecoWriters
        OBVIOUS
    <2>1. /\ a \in Nodes /\ a.object = "writer" /\ a.inputs = {Tracks}
          /\ b \in Nodes /\ b.object = "writer" /\ b.inputs = {UBTHits}
          /\ c \in Nodes /\ c.object = "writer" /\ c.inputs = {SBTHits}
          /\ d \in Nodes /\ d.object = "writer" /\ d.inputs = {CaloHits}
          /\ e \in Nodes /\ e.object = "writer" /\ e.inputs = {TimeDetHits}
        BY <1>3, <1>4 DEF NodeNames
    <2>2. list = <<a, b, c, d, e>>
        OBVIOUS
    <2>3. /\ list \in Seq(Nodes) /\ DOMAIN list = 1 .. 5
          /\ list[1] = a /\ list[2] = b /\ list[3] = c
          /\ list[4] = d /\ list[5] = e
        BY <2>1, <2>2
    <2>4. \A i \in DOMAIN list : list[i].object = "writer"
        BY <2>1, <2>3
    <2>5. UNION {list[i].inputs : i \in 1 .. 5} = RecoProducts
        BY <1>1, <2>1, <2>3
    <2>6. Given(list, object)
          = IF "writer" = object THEN UNION {list[i].inputs : i \in DOMAIN list} ELSE {}
        BY ONLY <2>3, <2>4, GivenByOwner
    <2>. QED
        BY ONLY <2>3, <2>5, <2>6, list = RecoWriters
<1>6. RecoHistos \in Seq(Nodes)
      /\ Given(RecoHistos, object) = IF object = "histogrammer" THEN RecoProducts ELSE {}
    <2>. PICK a : a = Validates("validate_spectrometer", Tracks)
        OBVIOUS
    <2>. PICK b : b = Validates("validate_upstream_tagger", UBTHits)
        OBVIOUS
    <2>. PICK c : c = Validates("validate_surround_tagger", SBTHits)
        OBVIOUS
    <2>. PICK d : d = Validates("validate_calorimeter", CaloHits)
        OBVIOUS
    <2>. PICK e : e = Validates("validate_timing_detector", TimeDetHits)
        OBVIOUS
    <2>. PICK list : list = RecoHistos
        OBVIOUS
    <2>1. /\ a \in Nodes /\ a.object = "histogrammer" /\ a.inputs = {Tracks}
          /\ b \in Nodes /\ b.object = "histogrammer" /\ b.inputs = {UBTHits}
          /\ c \in Nodes /\ c.object = "histogrammer" /\ c.inputs = {SBTHits}
          /\ d \in Nodes /\ d.object = "histogrammer" /\ d.inputs = {CaloHits}
          /\ e \in Nodes /\ e.object = "histogrammer" /\ e.inputs = {TimeDetHits}
        BY <1>3, <1>4 DEF NodeNames
    <2>2. list = <<a, b, c, d, e>>
        OBVIOUS
    <2>3. /\ list \in Seq(Nodes) /\ DOMAIN list = 1 .. 5
          /\ list[1] = a /\ list[2] = b /\ list[3] = c
          /\ list[4] = d /\ list[5] = e
        BY <2>1, <2>2
    <2>4. \A i \in DOMAIN list : list[i].object = "histogrammer"
        BY <2>1, <2>3
    <2>5. UNION {list[i].inputs : i \in 1 .. 5} = RecoProducts
        BY <1>1, <2>1, <2>3
    <2>6. Given(list, object)
          = IF "histogrammer" = object THEN UNION {list[i].inputs : i \in DOMAIN list} ELSE {}
        BY ONLY <2>3, <2>4, GivenByOwner
    <2>. QED
        BY ONLY <2>3, <2>5, <2>6, list = RecoHistos
<1>7. SimWriters \in Seq(Nodes)
      /\ Given(SimWriters, object) = IF object = "writer" THEN SimProducts ELSE {}
    <2>. PICK a : a = Writes("write_sim_hits", SimHits)
        OBVIOUS
    <2>. PICK b : b = Writes("write_sim_particles", SimParticles)
        OBVIOUS
    <2>. PICK list : list = SimWriters
        OBVIOUS
    <2>1. /\ a \in Nodes /\ a.object = "writer" /\ a.inputs = {SimHits}
          /\ b \in Nodes /\ b.object = "writer" /\ b.inputs = {SimParticles}
        BY <1>3, <1>4 DEF NodeNames
    <2>2. list = <<a, b>>
        OBVIOUS
    <2>3. /\ list \in Seq(Nodes) /\ DOMAIN list = 1 .. 2
          /\ list[1] = a /\ list[2] = b
        BY <2>1, <2>2
    <2>4. \A i \in DOMAIN list : list[i].object = "writer"
        BY <2>1, <2>3
    <2>5. UNION {list[i].inputs : i \in 1 .. 2} = SimProducts
        BY <1>1, <2>1, <2>3
    <2>6. Given(list, object)
          = IF "writer" = object THEN UNION {list[i].inputs : i \in DOMAIN list} ELSE {}
        BY ONLY <2>3, <2>4, GivenByOwner
    <2>. QED
        BY ONLY <2>3, <2>5, <2>6, list = SimWriters
<1>8. SimHistos \in Seq(Nodes)
      /\ Given(SimHistos, object) = IF object = "histogrammer" THEN SimProducts ELSE {}
    <2>. PICK a : a = Node("validate_sim_truth", "histogrammer", SimProducts)
        OBVIOUS
    <2>1. a \in Nodes /\ a.object = "histogrammer" /\ a.inputs = SimProducts
        BY <1>1, NodeFields DEF NodeNames
    <2>. QED
        BY <2>1, GivenByOne
<1>9. WriterNodes(s) = RecoWriters \o (IF s THEN SimWriters ELSE << >>)
    BY DEF WriterNodes
<1>10. HistoNodes(s) = RecoHistos \o (IF s THEN SimHistos ELSE << >>)
    BY DEF HistoNodes
<1>11. NoopNodes(s) \in Seq(Nodes)
       /\ Given(NoopNodes(s), object) = IF object = "noop" THEN TuplesOf(s) ELSE {}
    <2>. PICK a : a = Node("noop", "noop", TuplesOf(s))
        OBVIOUS
    <2>1. NoopNodes(s) = <<a>>
        BY DEF NoopNodes, TuplesOf
    <2>2. a \in Nodes /\ a.object = "noop" /\ a.inputs = TuplesOf(s)
        BY <1>1, <1>2, NodeFields DEF NodeNames
    <2>. QED
        BY <2>1, <2>2, GivenByOne
<1>. HIDE DEF RecoWriters, SimWriters, RecoHistos, SimHistos
<1>12. /\ RecoWriters \o << >> = RecoWriters /\ RecoHistos \o << >> = RecoHistos
    BY <1>5, <1>6
<1>13. WriterNodes(s) \in Seq(Nodes)
       /\ Given(WriterNodes(s), object) = IF object = "writer" THEN TuplesOf(s) ELSE {}
    <2>1. CASE s
        <3>1. WriterNodes(s) = RecoWriters \o SimWriters
            BY <1>9, <2>1
        <3>2. RecoWriters \o SimWriters \in Seq(Nodes)
            BY <1>5, <1>7, ConcatProperties
        <3>3. Given(RecoWriters \o SimWriters, object)
              = Given(RecoWriters, object) \union Given(SimWriters, object)
            BY <1>5, <1>7, GivenByBoth
        <3>. QED
            BY ONLY <1>2, <1>5, <1>7, <2>1, <3>1, <3>2, <3>3
    <2>2. CASE ~s
        <3>1. WriterNodes(s) = RecoWriters
            BY <1>9, <1>12, <2>2
        <3>. QED
            BY ONLY <1>2, <1>5, <2>2, <3>1
    <2>. QED
        BY <2>1, <2>2
<1>14. HistoNodes(s) \in Seq(Nodes)
       /\ Given(HistoNodes(s), object) = IF object = "histogrammer" THEN TuplesOf(s) ELSE {}
    <2>1. CASE s
        <3>1. HistoNodes(s) = RecoHistos \o SimHistos
            BY <1>10, <2>1
        <3>2. RecoHistos \o SimHistos \in Seq(Nodes)
            BY <1>6, <1>8, ConcatProperties
        <3>3. Given(RecoHistos \o SimHistos, object)
              = Given(RecoHistos, object) \union Given(SimHistos, object)
            BY <1>6, <1>8, GivenByBoth
        <3>. QED
            BY ONLY <1>2, <1>6, <1>8, <2>1, <3>1, <3>2, <3>3
    <2>2. CASE ~s
        <3>1. HistoNodes(s) = RecoHistos
            BY <1>10, <1>12, <2>2
        <3>. QED
            BY ONLY <1>2, <1>6, <2>2, <3>1
    <2>. QED
        BY <2>1, <2>2
<1>. QED
    BY <1>11, <1>13, <1>14

\* What WriterInv says of the two lists, without the RNTuples.
LEMMA ListsTyped ==
    ASSUME WriterInv
    PROVE  todo \in Seq(Nodes) /\ nodes \in Seq(Nodes) /\ config.isSim \in BOOLEAN
<1>1. ServedBy(tuples) \subseteq Nodes
    BY DEF ServedBy
<1>. QED
    BY <1>1 DEF WriterInv, Configs

LEMMA PlanInit == Init => PlanInv
    BY GivenByNone DEF Init, PlanInv, Planned

LEMMA PlanStep == WriterInv /\ PlanInv /\ [Next]_vars => PlanInv'
<1>. SUFFICES ASSUME WriterInv, PlanInv, [Next]_vars, step' \notin {"rejected", "failed"}
              PROVE  PlanInv'
    BY DEF PlanInv
<1>0. todo \in Seq(Nodes) /\ nodes \in Seq(Nodes) /\ config.isSim \in BOOLEAN
    BY ListsTyped
<1>1. CASE MakeNoop
    <2>1. /\ step = "start" /\ step' = "noop" /\ config' = config /\ nodes' = << >>
          /\ config.mode = "noop" /\ todo' = NoopNodes(config.isSim)
        BY <1>1 DEF MakeNoop, WriterInv
    <2>2. \A object : Given(todo', object)
                      = IF object = "noop" THEN TuplesOf(config.isSim) ELSE {}
        BY <1>0, <2>1, ListsGive
    <2>. QED
        BY <2>1, <2>2, GivenByNone DEF PlanInv, Planned
<1>2. CASE MakeWriter
    <2>1. /\ step = "start" /\ step' = "writer" /\ config' = config /\ nodes' = << >>
          /\ config.mode = "reco" /\ todo' = WriterNodes(config.isSim)
          /\ tuples' = TuplesOf(config.isSim)
        BY <1>2 DEF MakeWriter, WriterInv
    <2>2. \A object : Given(todo', object)
                      = IF object = "writer" THEN TuplesOf(config.isSim) ELSE {}
        BY <1>0, <2>1, ListsGive
    <2>. QED
        BY <2>1, <2>2, GivenByNone DEF PlanInv, Planned
<1>3. CASE MakeHistoFile
    <2>1. /\ step = "writer" /\ step' = "histograms" /\ config' = config /\ nodes' = nodes
          /\ todo = << >> /\ todo' = HistoNodes(config.isSim) /\ tuples' = tuples
        BY <1>3 DEF MakeHistoFile
    <2>2. \A object : Given(todo', object)
                      = IF object = "histogrammer" THEN TuplesOf(config.isSim) ELSE {}
        BY <1>0, <2>1, ListsGive
    <2>3. \A object \in {"noop", "writer", "histogrammer"} :
             Given(nodes, object) = IF object = "writer" THEN TuplesOf(config.isSim) ELSE {}
        BY <2>1, GivenByNone DEF PlanInv, Planned
    <2>. QED
        BY <2>1, <2>2, <2>3 DEF PlanInv, Planned
<1>4. CASE RegisterNode
    <2>1. /\ step' = step /\ config' = config /\ tuples' = tuples /\ todo # << >>
          /\ nodes' = Append(nodes, Head(todo)) /\ todo' = Tail(todo)
        BY <1>4 DEF RegisterNode
    <2>2. \A object : Given(nodes', object) \union Given(todo', object)
                      = Given(nodes, object) \union Given(todo, object)
        BY <1>0, <2>1, GivenByRegistering
    <2>. QED
        BY <2>1, <2>2 DEF PlanInv, Planned
<1>5. CASE Finished \/ UNCHANGED vars
    BY <1>5 DEF Finished, vars, PlanInv, Planned, Given
<1>6. ~(RejectMode \/ RejectClash \/ CannotOpen)
    BY DEF RejectMode, RejectClash, CannotOpen
<1>. QED
    BY <1>1, <1>2, <1>3, <1>4, <1>5, <1>6 DEF Next

\* rec_output_module.cpp: once registered, the writer, the histograms and the
\* benchmark mode observe the same products, those of the simulation switch.
THEOREM SameProductsObserved == Spec => []SameProducts
<1>1. WriterInv /\ PlanInv => SameProducts
    <2>. SUFFICES ASSUME WriterInv, PlanInv, Registered PROVE SameProducts
        BY DEF SameProducts
    <2>1. step \in {"histograms", "noop"} /\ todo = << >> /\ nodes \in Seq(Nodes)
          /\ config.isSim \in BOOLEAN
        BY ListsTyped DEF Registered
    <2>2. \A object : InputsOf(object) = Given(nodes, object)
        <3>1. \A i \in DOMAIN nodes : nodes[i].inputs \subseteq Products
            <4>1. \A i \in DOMAIN nodes : nodes[i] \in Nodes
                BY <2>1
            <4>. QED
                BY <4>1 DEF Nodes
        <3>. QED
            BY <3>1 DEF InputsOf, Given
    <2>3. \A object \in {"noop", "writer", "histogrammer"} : InputsOf(object) = Planned(object)
        BY <2>1, <2>2, GivenByNone DEF PlanInv
    <2>4. TuplesOf(config.isSim) = RecoProducts \union (IF config.isSim THEN SimProducts ELSE {})
        BY <2>1 DEF TuplesOf
    <2>. QED
        BY <2>1, <2>3, <2>4 DEF PlanInv, Planned, SameProducts
<1>. QED
    BY <1>1, WriterInit, WriterStep, PlanInit, PlanStep, PTL DEF Spec
-------------------------------------------------------------------------------
(* The job: what the nodes are and what they make *)

Context == PrepareMeasurements.output
SeedPairs == GenerateSeeds.output

\* The value a seed has, the k-th one of spill i.
SeedOf(i, k) ==
    [context |-> [spill |-> <<i>>, hits |-> InputFile["straw_tubes_hits"]], pair |-> k]


LEMMA SelectorFields ==
    \A creator, layer, suffix :
        /\ Selector(creator, layer, suffix).creator = creator
        /\ Selector(creator, layer, suffix).layer = layer
        /\ Selector(creator, layer, suffix).suffix = suffix
    BY DEF Selector

\* Who makes the products of the output, and at which layer.
LEMMA ProductFields ==
    /\ Tracks.creator = "fit_seed" /\ Tracks.layer = "seed"
    /\ UBTHits.creator = "upstream_tagger_reco" /\ UBTHits.layer = "spill"
    /\ SBTHits.creator = "surround_tagger_reco" /\ SBTHits.layer = "spill"
    /\ CaloHits.creator = "calorimeter_reco" /\ CaloHits.layer = "spill"
    /\ TimeDetHits.creator = "timing_detector_reco" /\ TimeDetHits.layer = "spill"
    /\ SimHits.creator = "rntuple_source" /\ SimHits.layer = "spill"
    /\ SimHits.suffix = "sim_hits" /\ SimHits = DigitisedHits("sim_hits")
    /\ SimParticles.creator = "rntuple_source" /\ SimParticles.layer = "spill"
    /\ SimParticles.suffix = "sim_particles" /\ SimParticles = DigitisedHits("sim_particles")
    BY SelectorFields DEF Tracks, UBTHits, SBTHits, CaloHits, TimeDetHits, SimHits, SimParticles,
                          Passthrough, DigitisedHits

LEMMA TransformFields ==
    \A name, layer, inputs, suffix :
        /\ Transform(name, layer, inputs, suffix).name = name
        /\ Transform(name, layer, inputs, suffix).inputs = inputs
        /\ Transform(name, layer, inputs, suffix).output = Selector(name, layer, suffix)
    BY DEF Transform

\* Each transform makes the product that the output or the next transform reads.
LEMMA TransformsMeet ==
    /\ UpstreamTaggerReco.name = "upstream_tagger_reco" /\ UpstreamTaggerReco.output = UBTHits
    /\ UpstreamTaggerReco.inputs = {DigitisedHits("ubt_hits")}
    /\ SurroundTaggerReco.name = "surround_tagger_reco" /\ SurroundTaggerReco.output = SBTHits
    /\ SurroundTaggerReco.inputs = {DigitisedHits("sbt_hits")}
    /\ CalorimeterReco.name = "calorimeter_reco" /\ CalorimeterReco.output = CaloHits
    /\ CalorimeterReco.inputs = {DigitisedHits("calorimeter_hits")}
    /\ TimingDetectorReco.name = "timing_detector_reco"
    /\ TimingDetectorReco.output = TimeDetHits
    /\ TimingDetectorReco.inputs = {DigitisedHits("timing_detector_hits")}
    /\ PrepareMeasurements.inputs = {DigitisedHits("straw_tubes_hits"), Detector, Field}
    /\ GenerateSeeds.inputs = {Context}
    /\ FitSeed.inputs = {SeedPairs} /\ FitSeed.output = Tracks
    /\ Context.creator = "prepare_measurements" /\ Context.layer = "spill"
    /\ SeedPairs.creator = "generate_seeds" /\ SeedPairs.layer = "seed"
    /\ Detector.creator = "tracking_geometry" /\ Detector.layer = "job"
    /\ Field.creator = "spectrometer_field" /\ Field.layer = "job"
    BY TransformFields, SelectorFields
    DEF UpstreamTaggerReco, SurroundTaggerReco, CalorimeterReco, TimingDetectorReco,
        PrepareMeasurements, GenerateSeeds, FitSeed, Context, SeedPairs, Detector, Field,
        UBTHits, SBTHits, CaloHits, TimeDetHits, Tracks

LEMMA HitFields ==
    \A suffix : /\ DigitisedHits(suffix).creator = "rntuple_source"
                /\ DigitisedHits(suffix).layer = "spill"
                /\ DigitisedHits(suffix).suffix = suffix
    BY SelectorFields DEF DigitisedHits

\* The hit type of a copied product is the one its transform reads.
LEMMA OriginsOf ==
    /\ OriginOf(Tracks) = "straw_tubes_hits"
    /\ OriginOf(UBTHits) = "ubt_hits" /\ OriginOf(SBTHits) = "sbt_hits"
    /\ OriginOf(CaloHits) = "calorimeter_hits"
    /\ OriginOf(TimeDetHits) = "timing_detector_hits"
    /\ OriginOf(SimHits) = "sim_hits" /\ OriginOf(SimParticles) = "sim_particles"
<1>1. ASSUME NEW p, p # Tracks, p \notin SimProducts, NEW node \in Copies,
             node.name = p.creator, NEW s \in DOMAIN InputFile,
             node.inputs = {DigitisedHits(s)}
      PROVE  OriginOf(p) = s
    <2>1. \A n \in Copies : n.name = node.name => n = node
        BY TransformsMeet DEF Copies
    <2>2. \A x, y : {DigitisedHits(x)} = {DigitisedHits(y)} => x = y
        <3>1. \A x, y : {DigitisedHits(x)} = {DigitisedHits(y)}
                        => DigitisedHits(x) = DigitisedHits(y)
            OBVIOUS
        <3>. QED
            BY <3>1, HitFields
    <2>. DEFINE Reads(x) == \E n \in Copies : n.name = p.creator /\ n.inputs = {DigitisedHits(x)}
    <2>3. Reads(s) /\ \A x : Reads(x) => x = s
        BY <1>1, <2>1, <2>2
    <2>4. OriginOf(p) = CHOOSE x \in DOMAIN InputFile : Reads(x)
        BY <1>1 DEF OriginOf
    <2>. HIDE DEF Reads
    <2>. QED
        BY <1>1, <2>3, <2>4
<1>2. {"ubt_hits", "sbt_hits", "calorimeter_hits", "timing_detector_hits"}
      \subseteq DOMAIN InputFile
    BY DEF InputFile
<1>3. \A p \in {UBTHits, SBTHits, CaloHits, TimeDetHits} : p # Tracks /\ p \notin SimProducts
    BY ProductFields DEF SimProducts
<1>4. /\ OriginOf(UBTHits) = "ubt_hits" /\ OriginOf(SBTHits) = "sbt_hits"
      /\ OriginOf(CaloHits) = "calorimeter_hits"
      /\ OriginOf(TimeDetHits) = "timing_detector_hits"
    <2>1. OriginOf(UBTHits) = "ubt_hits"
        BY <1>1, <1>2, <1>3, TransformsMeet, ProductFields DEF Copies
    <2>2. OriginOf(SBTHits) = "sbt_hits"
        BY <1>1, <1>2, <1>3, TransformsMeet, ProductFields DEF Copies
    <2>3. OriginOf(CaloHits) = "calorimeter_hits"
        BY <1>1, <1>2, <1>3, TransformsMeet, ProductFields DEF Copies
    <2>4. OriginOf(TimeDetHits) = "timing_detector_hits"
        BY <1>1, <1>2, <1>3, TransformsMeet, ProductFields DEF Copies
    <2>. QED
        BY <2>1, <2>2, <2>3, <2>4
<1>5. OriginOf(Tracks) = "straw_tubes_hits"
    BY DEF OriginOf
<1>6. OriginOf(SimHits) = "sim_hits" /\ OriginOf(SimParticles) = "sim_particles"
    BY ProductFields DEF OriginOf, SimProducts
<1>. QED
    BY <1>4, <1>5, <1>6

\* A cell of a spill or of a seed, and the spill that contains it.
LEMMA CellPrefixes ==
    /\ \A i, j \in Nat : IsPrefix(<<i>>, <<j>>) <=> i = j
    /\ \A i, j, k \in Nat : IsPrefix(<<i>>, <<j, k>>) <=> i = j
    /\ \A i, j, k \in Nat : ~IsPrefix(<<i, k>>, <<j>>)
    /\ \A i, j, k, m \in Nat : IsPrefix(<<i, k>>, <<j, m>>) <=> i = j /\ k = m
    /\ \A i \in Nat : IsPrefix(<< >>, <<i>>)
<1>1. \A i, j \in Nat : IsPrefix(<<i>>, <<j>>) <=> i = j
    BY DEF IsPrefix
<1>2. \A i, j, k \in Nat : IsPrefix(<<i>>, <<j, k>>) <=> i = j
    BY DEF IsPrefix
<1>3. \A i, j, k \in Nat : ~IsPrefix(<<i, k>>, <<j>>)
    BY DEF IsPrefix
<1>4. \A i, j, k, m \in Nat : IsPrefix(<<i, k>>, <<j, m>>) <=> i = j /\ k = m
    BY DEF IsPrefix
<1>5. \A i \in Nat : IsPrefix(<< >>, <<i>>)
    BY DEF IsPrefix
<1>. QED
    BY <1>1, <1>2, <1>3, <1>4, <1>5

\* The cell of a seed.
LEMMA SeedCell ==
    ASSUME NEW i \in Nat, NEW k \in Nat
    PROVE  Append(<<i>>, k) = <<i, k>>
<1>. PICK a : a = Append(<<i>>, k)
    OBVIOUS
<1>. PICK b : b = <<i, k>>
    OBVIOUS
<1>1. a \in Seq(Nat) /\ Len(a) = 2 /\ a[1] = i /\ a[2] = k
    OBVIOUS
<1>2. b \in Seq(Nat) /\ Len(b) = 2 /\ b[1] = i /\ b[2] = k
    OBVIOUS
<1>3. \A j \in 1 .. 2 : a[j] = b[j]
    BY <1>1, <1>2
<1>4. a = b
    BY ONLY <1>1, <1>2, <1>3, SeqEqual
<1>. QED
    BY <1>4

-------------------------------------------------------------------------------
(* The observers of a job *)

\* What an observer of the name is registered for.
Wanted(name, sim) ==
    IF name = "noop" THEN TuplesOf(sim)
    ELSE IF name = "validate_sim_truth" THEN SimProducts
    ELSE IF name = "write_sim_hits" THEN {SimHits}
    ELSE IF name = "write_sim_particles" THEN {SimParticles}
    ELSE IF name \in {"write_spectrometer_tracks", "validate_spectrometer"} THEN {Tracks}
    ELSE IF name \in {"write_upstream_tagger", "validate_upstream_tagger"} THEN {UBTHits}
    ELSE IF name \in {"write_surround_tagger", "validate_surround_tagger"} THEN {SBTHits}
    ELSE IF name \in {"write_calorimeter", "validate_calorimeter"} THEN {CaloHits}
    ELSE {TimeDetHits}

Known(sim) ==
    {n \in Nodes : /\ n.inputs = Wanted(n.name, sim)
                   /\ n.inputs # {} /\ n.inputs \subseteq TuplesOf(sim)}

\* Observers of one name are registered for the same products.
NodesKnown == nodes \in Seq(Known(config.isSim)) /\ todo \in Seq(Known(config.isSim))

LEMMA ListsKnown ==
    ASSUME NEW s \in BOOLEAN
    PROVE  /\ WriterNodes(s) \in Seq(Known(s)) /\ HistoNodes(s) \in Seq(Known(s))
           /\ NoopNodes(s) \in Seq(Known(s))
<1>. DEFINE K == Known(s)
<1>. USE DEF RecoWriters, SimWriters, RecoHistos, SimHistos
<1>1. /\ RecoProducts \subseteq TuplesOf(s) /\ TuplesOf(s) \subseteq Products
      /\ s => SimProducts \subseteq TuplesOf(s)
    BY DEF TuplesOf, Products
<1>2. /\ Tracks \in RecoProducts /\ UBTHits \in RecoProducts /\ SBTHits \in RecoProducts
      /\ CaloHits \in RecoProducts /\ TimeDetHits \in RecoProducts
      /\ SimHits \in SimProducts /\ SimParticles \in SimProducts
    BY DEF RecoProducts, SimProducts
<1>3. ASSUME NEW name \in NodeNames, NEW object \in {"noop", "writer", "histogrammer"},
             Wanted(name, s) \subseteq TuplesOf(s), Wanted(name, s) # {}
      PROVE  Node(name, object, Wanted(name, s)) \in K
    <2>. PICK n : n = Node(name, object, Wanted(name, s))
        OBVIOUS
    <2>1. n.name = name /\ n.inputs = Wanted(name, s)
        BY DEF Node
    <2>2. n \in Nodes
        BY <1>1, <1>3, NodeFields
    <2>. QED
        BY <1>3, <2>1, <2>2 DEF Known
<1>4. ASSUME NEW name \in NodeNames, NEW p \in TuplesOf(s), Wanted(name, s) = {p}
      PROVE  Writes(name, p) \in K /\ Validates(name, p) \in K
    <2>1. Wanted(name, s) \subseteq TuplesOf(s) /\ Wanted(name, s) # {}
        BY <1>4
    <2>. QED
        BY <1>3, <1>4, <2>1 DEF Writes, Validates
<1>5. RecoWriters \in Seq(K)
    <2>1. /\ Wanted("write_spectrometer_tracks", s) = {Tracks}
          /\ Wanted("write_upstream_tagger", s) = {UBTHits}
          /\ Wanted("write_surround_tagger", s) = {SBTHits}
          /\ Wanted("write_calorimeter", s) = {CaloHits}
          /\ Wanted("write_timing_detector", s) = {TimeDetHits}
        BY DEF Wanted
    <2>. HIDE DEF K
    <2>2. /\ Writes("write_spectrometer_tracks", Tracks) \in K
          /\ Writes("write_upstream_tagger", UBTHits) \in K
          /\ Writes("write_surround_tagger", SBTHits) \in K
          /\ Writes("write_calorimeter", CaloHits) \in K
          /\ Writes("write_timing_detector", TimeDetHits) \in K
        BY <1>1, <1>2, <1>4, <2>1 DEF NodeNames
    <2>. QED
        BY <2>2
<1>6. RecoHistos \in Seq(K)
    <2>1. /\ Wanted("validate_spectrometer", s) = {Tracks}
          /\ Wanted("validate_upstream_tagger", s) = {UBTHits}
          /\ Wanted("validate_surround_tagger", s) = {SBTHits}
          /\ Wanted("validate_calorimeter", s) = {CaloHits}
          /\ Wanted("validate_timing_detector", s) = {TimeDetHits}
        BY DEF Wanted
    <2>. HIDE DEF K
    <2>2. /\ Validates("validate_spectrometer", Tracks) \in K
          /\ Validates("validate_upstream_tagger", UBTHits) \in K
          /\ Validates("validate_surround_tagger", SBTHits) \in K
          /\ Validates("validate_calorimeter", CaloHits) \in K
          /\ Validates("validate_timing_detector", TimeDetHits) \in K
        BY <1>1, <1>2, <1>4, <2>1 DEF NodeNames
    <2>. QED
        BY <2>2
<1>7. s => SimWriters \in Seq(K)
    <2>. SUFFICES ASSUME s PROVE SimWriters \in Seq(K)
        OBVIOUS
    <2>1. /\ Wanted("write_sim_hits", s) = {SimHits}
          /\ Wanted("write_sim_particles", s) = {SimParticles}
        BY DEF Wanted
    <2>. HIDE DEF K
    <2>2. /\ Writes("write_sim_hits", SimHits) \in K
          /\ Writes("write_sim_particles", SimParticles) \in K
        BY <1>1, <1>2, <1>4, <2>1 DEF NodeNames
    <2>. QED
        BY <2>2
<1>8. s => SimHistos \in Seq(K)
    <2>. SUFFICES ASSUME s PROVE SimHistos \in Seq(K)
        OBVIOUS
    <2>1. Wanted("validate_sim_truth", s) = SimProducts
        BY DEF Wanted
    <2>. HIDE DEF K
    <2>2. Node("validate_sim_truth", "histogrammer", SimProducts) \in K
        BY <1>1, <1>2, <1>3, <2>1 DEF NodeNames
    <2>. QED
        BY <2>2
<1>9. NoopNodes(s) \in Seq(K)
    <2>1. Wanted("noop", s) = TuplesOf(s)
        BY DEF Wanted
    <2>. HIDE DEF K
    <2>2. Node("noop", "noop", TuplesOf(s)) \in K
        BY <1>1, <1>2, <1>3, <2>1 DEF NodeNames
    <2>3. NoopNodes(s) = << Node("noop", "noop", TuplesOf(s)) >>
        BY DEF NoopNodes, TuplesOf
    <2>. QED
        BY <2>2, <2>3
<1>10. WriterNodes(s) = RecoWriters \o (IF s THEN SimWriters ELSE << >>)
    BY DEF WriterNodes
<1>11. HistoNodes(s) = RecoHistos \o (IF s THEN SimHistos ELSE << >>)
    BY DEF HistoNodes
<1>. HIDE DEF K, RecoWriters, SimWriters, RecoHistos, SimHistos
<1>12. (IF s THEN SimWriters ELSE << >>) \in Seq(K) /\ (IF s THEN SimHistos ELSE << >>) \in Seq(K)
    BY <1>7, <1>8
<1>13. WriterNodes(s) \in Seq(K) /\ HistoNodes(s) \in Seq(K)
    BY <1>5, <1>6, <1>10, <1>11, <1>12, ConcatProperties
<1>. QED
    BY <1>9, <1>13 DEF K

LEMMA KnownStep ==
    ASSUME config \in Configs, NodesKnown, [Next]_vars
    PROVE  NodesKnown'
<1>. USE DEF NodesKnown
<1>0. config' = config /\ config.isSim \in BOOLEAN
    BY DEF Next, RejectMode, RejectClash, MakeNoop, MakeWriter, MakeHistoFile, RegisterNode,
           CannotOpen, Finished, vars, Configs
<1>1. CASE MakeNoop \/ MakeWriter \/ MakeHistoFile
    <2>1. nodes' = nodes
        BY <1>1 DEF MakeNoop, MakeWriter, MakeHistoFile
    <2>2. todo' \in {NoopNodes(config.isSim), WriterNodes(config.isSim), HistoNodes(config.isSim)}
        BY <1>1 DEF MakeNoop, MakeWriter, MakeHistoFile
    <2>3. todo' \in Seq(Known(config.isSim))
        BY <1>0, <2>2, ListsKnown
    <2>. QED
        BY <1>0, <2>1, <2>3
<1>2. CASE RegisterNode
    BY <1>0, <1>2 DEF RegisterNode
<1>3. CASE RejectMode \/ RejectClash \/ CannotOpen \/ Finished \/ UNCHANGED vars
    BY <1>0, <1>3 DEF RejectMode, RejectClash, CannotOpen, Finished, vars
<1>. QED
    BY <1>1, <1>2, <1>3 DEF Next

\* Observers of the tracks are called for seeds, all others for spills.
LEMMA ObserverLayer ==
    ASSUME NEW inputs \in SUBSET Products, inputs # {}
    PROVE  LayerOf(inputs) = IF Tracks \in inputs THEN "seed" ELSE "spill"
<1>1. \A p \in inputs : p.layer = IF p = Tracks THEN "seed" ELSE "spill"
    BY ProductFields DEF Products, RecoProducts, SimProducts
<1>. DEFINE L == {p.layer : p \in inputs}
<1>2. "seed" \in L <=> Tracks \in inputs
    BY <1>1
<1>3. "seed" \notin L => "spill" \in L
    BY <1>1
<1>4. LayerOf(inputs) = IF "seed" \in L THEN "seed" ELSE IF "spill" \in L THEN "spill" ELSE "job"
    BY DEF LayerOf
<1>. HIDE DEF L
<1>. QED
    BY <1>2, <1>3, <1>4

\* The layers of the transforms.
LEMMA TransformLayer ==
    /\ \A node \in Copies \union {PrepareMeasurements, GenerateSeeds} :
          LayerOf(node.inputs) = "spill"
    /\ LayerOf(FitSeed.inputs) = "seed"
<1>1. ASSUME NEW inputs, NEW q \in inputs, q.layer = "spill",
             \A p \in inputs : p.layer \in {"job", "spill"}
      PROVE  LayerOf(inputs) = "spill"
    <2>. DEFINE L == {p.layer : p \in inputs}
    <2>1. "seed" \notin L /\ "spill" \in L
        BY <1>1
    <2>2. LayerOf(inputs)
          = IF "seed" \in L THEN "seed" ELSE IF "spill" \in L THEN "spill" ELSE "job"
        BY DEF LayerOf
    <2>. HIDE DEF L
    <2>. QED
        BY <2>1, <2>2
<1>2. \A node \in Copies : \E s : node.inputs = {DigitisedHits(s)}
    BY TransformsMeet DEF Copies
<1>3. \A node \in Copies : LayerOf(node.inputs) = "spill"
    BY <1>1, <1>2, HitFields
<1>4. LayerOf(PrepareMeasurements.inputs) = "spill"
    <2>1. /\ DigitisedHits("straw_tubes_hits") \in PrepareMeasurements.inputs
          /\ DigitisedHits("straw_tubes_hits").layer = "spill"
        BY HitFields, TransformsMeet
    <2>2. \A p \in PrepareMeasurements.inputs : p.layer \in {"job", "spill"}
        BY <2>1, TransformsMeet
    <2>. QED
        BY <1>1, <2>1, <2>2
<1>5. LayerOf(GenerateSeeds.inputs) = "spill"
    BY <1>1, TransformsMeet
<1>6. LayerOf(FitSeed.inputs) = "seed"
    <2>1. "seed" \in {p.layer : p \in FitSeed.inputs}
        BY TransformsMeet
    <2>. QED
        BY <2>1 DEF LayerOf
<1>. QED
    BY <1>3, <1>4, <1>5, <1>6

-------------------------------------------------------------------------------
(* What is made is right *)

CopyNames == {"upstream_tagger_reco", "surround_tagger_reco", "calorimeter_reco",
              "timing_detector_reco"}

\* What may be stored of a product for a cell.
Right(p, cell, value) ==
    /\ p.creator = "rntuple_source" => cell \in Spill /\ value = InputFile[p.suffix]
    /\ p.creator \in CopyNames => cell \in Spill /\ value = InputFile[OriginOf(p)]
    /\ p.creator = "prepare_measurements" =>
          \E i \in 1 .. NSpills :
             /\ cell = <<i>>
             /\ value = [spill |-> <<i>>, hits |-> InputFile["straw_tubes_hits"]]
    /\ p.creator = "generate_seeds" =>
          \E i \in 1 .. NSpills, k \in 1 .. MaxSeeds : cell = <<i, k>> /\ value = SeedOf(i, k)
    /\ p.creator = "fit_seed" =>
          \E i \in 1 .. NSpills, k \in 1 .. MaxSeeds :
             cell = <<i, k>> /\ value \subseteq {SeedOf(i, k)}

StoreInv == \A r \in store : Right(r.product, r.cell, r.value)

\* Seeds exist for spills only, and each is in the store.
SeedsFiled ==
    \A cell \in DOMAIN children :
        /\ cell \in Spill
        /\ children[cell] \in 0 .. MaxSeeds
        /\ \A k \in 1 .. children[cell] : Provided(SeedPairs, Append(cell, k))

\* An observer is called once for a cell, and gets what belongs to it.
CallsRight ==
    /\ \A c, d \in calls : c.node = d.node /\ c.cell = d.cell => c = d
    /\ \A c \in calls : \A p \in Wanted(c.node, config.isSim) :
          OriginOf(p) \in slice => AsRecorded(p, c.cell, c.got[p])

Delivered ==
    \A node \in Observers : \A cell \in Cells(LayerOf(node.inputs)) : Called(node, cell)

\* Calls are made for observers and cells that exist; there are none, and the job
\* cannot end, before the observers are registered; a complete job has made all.
JobInv ==
    /\ config \in Configs
    /\ NodesKnown
    /\ hits = InputFile
    /\ StoreInv
    /\ SeedsFiled
    /\ CallsRight
    /\ \A c \in calls : <<c.node, c.cell>> \in Owed
    /\ ~Registered => calls = {} /\ status = "running"
    /\ status \in {"running", "complete", "aborted"}
    /\ status = "complete" => Delivered

LEMMA SeedCellShape ==
    ASSUME SeedsFiled, NEW cell \in Cells("seed")
    PROVE  \E i \in 1 .. NSpills, k \in 1 .. MaxSeeds :
              /\ cell = <<i, k>> /\ <<i>> \in DOMAIN children
              /\ Provided(SeedPairs, <<i, k>>)
<1>1. PICK mother \in DOMAIN children : cell \in SeedsOf(mother)
    BY DEF Cells
<1>2. PICK k \in 1 .. children[mother] : cell = Append(mother, k)
    BY <1>1 DEF SeedsOf
<1>3. PICK i \in 1 .. NSpills : mother = <<i>>
    BY DEF SeedsFiled, Spill
<1>4. Append(mother, k) = <<i, k>>
    <2>1. Append(<<i>>, k) = <<i, k>>
        BY SeedCell, JobAssumption DEF JobAssumption, SeedsFiled
    <2>. QED
        BY <1>3, <2>1
<1>5. k \in 1 .. MaxSeeds
    BY JobAssumption DEF SeedsFiled, JobAssumption
<1>. QED
    BY <1>2, <1>3, <1>4, <1>5 DEF SeedsFiled

LEMMA SpillCellShape == Cells("spill") = Spill /\ \A c \in Spill : \E i \in 1 .. NSpills : c = <<i>>
    BY DEF Cells, Spill

\* What a node gets of a product is a record of the store.
LEMMA ValueStored ==
    ASSUME StoreInv, NEW p, NEW cell, Made(p, cell) # {}
    PROVE  \E c : IsPrefix(c, cell) /\ Right(p, c, ValueOf(p, cell))
<1>. DEFINE r == CHOOSE x \in Made(p, cell) : TRUE
<1>1. r \in Made(p, cell)
    OBVIOUS
<1>2. ValueOf(p, cell) = r.value
    BY DEF ValueOf
<1>. HIDE DEF r
<1>3. r \in store /\ r.product = p /\ IsPrefix(r.cell, cell)
    BY <1>1 DEF Made
<1>4. Right(r.product, r.cell, r.value)
    BY <1>3 DEF StoreInv
<1>. QED
    BY <1>2, <1>3, <1>4

\* The value of a product of the input file, of a context and of a seed.
LEMMA ValueOfHits ==
    ASSUME StoreInv, NEW p, NEW cell, Made(p, cell) # {}, p.creator = "rntuple_source"
    PROVE  ValueOf(p, cell) = InputFile[p.suffix]
    BY ValueStored DEF Right

LEMMA ValueOfCopies ==
    ASSUME StoreInv, NEW p, NEW cell, Made(p, cell) # {}, p.creator \in CopyNames
    PROVE  ValueOf(p, cell) = InputFile[OriginOf(p)]
    BY ValueStored DEF Right

LEMMA ValueOfContext ==
    ASSUME StoreInv, NEW i \in Nat, Made(Context, <<i>>) # {}
    PROVE  /\ ValueOf(Context, <<i>>)
              = [spill |-> <<i>>, hits |-> InputFile["straw_tubes_hits"]]
           /\ i \in 1 .. NSpills
<1>1. PICK c : IsPrefix(c, <<i>>) /\ Right(Context, c, ValueOf(Context, <<i>>))
    BY ValueStored
<1>2. PICK j \in 1 .. NSpills :
         /\ c = <<j>>
         /\ ValueOf(Context, <<i>>) = [spill |-> <<j>>, hits |-> InputFile["straw_tubes_hits"]]
    BY <1>1, TransformsMeet DEF Right
<1>3. i = j
    BY <1>1, <1>2, CellPrefixes, JobAssumption DEF JobAssumption
<1>. QED
    BY <1>2, <1>3

LEMMA ValueOfSeed ==
    ASSUME StoreInv, NEW i \in Nat, NEW k \in Nat, Made(SeedPairs, <<i, k>>) # {}
    PROVE  /\ ValueOf(SeedPairs, <<i, k>>) = SeedOf(i, k)
           /\ i \in 1 .. NSpills /\ k \in 1 .. MaxSeeds
<1>1. PICK c : IsPrefix(c, <<i, k>>) /\ Right(SeedPairs, c, ValueOf(SeedPairs, <<i, k>>))
    BY ValueStored
<1>2. PICK j \in 1 .. NSpills, m \in 1 .. MaxSeeds :
         c = <<j, m>> /\ ValueOf(SeedPairs, <<i, k>>) = SeedOf(j, m)
    BY <1>1, TransformsMeet DEF Right
<1>3. i = j /\ k = m
    BY <1>1, <1>2, CellPrefixes, JobAssumption DEF JobAssumption
<1>. QED
    BY <1>2, <1>3

LEMMA ValueOfTracks ==
    ASSUME StoreInv, NEW i \in Nat, NEW k \in Nat, Made(Tracks, <<i, k>>) # {}
    PROVE  ValueOf(Tracks, <<i, k>>) \subseteq {SeedOf(i, k)}
<1>1. PICK c : IsPrefix(c, <<i, k>>) /\ Right(Tracks, c, ValueOf(Tracks, <<i, k>>))
    BY ValueStored
<1>2. PICK j \in 1 .. NSpills, m \in 1 .. MaxSeeds :
         c = <<j, m>> /\ ValueOf(Tracks, <<i, k>>) \subseteq {SeedOf(j, m)}
    BY <1>1, ProductFields DEF Right
<1>3. i = j /\ k = m
    BY <1>1, <1>2, CellPrefixes, JobAssumption DEF JobAssumption
<1>. QED
    BY <1>2, <1>3

\* An observer's value is the recorded one.
LEMMA ValueAsRecorded ==
    ASSUME StoreInv, SeedsFiled, NEW inputs \in SUBSET Products, NEW p \in inputs,
           NEW cell \in Cells(LayerOf(inputs)), Made(p, cell) # {}
    PROVE  AsRecorded(p, cell, ValueOf(p, cell))
<1>1. CASE p = Tracks
    <2>1. LayerOf(inputs) = "seed"
        BY <1>1, ObserverLayer
    <2>2. PICK i \in 1 .. NSpills, k \in 1 .. MaxSeeds : cell = <<i, k>>
        BY <2>1, SeedCellShape
    <2>3. i \in Nat /\ k \in Nat /\ cell[1] = i /\ cell[2] = k
        BY <2>2, JobAssumption DEF JobAssumption
    <2>4. ValueOf(p, cell) \subseteq {SeedOf(i, k)}
        BY <1>1, <2>2, <2>3, ValueOfTracks
    <2>. QED
        BY <1>1, <2>3, <2>4 DEF AsRecorded, SeedOf
<1>2. CASE p \in SimProducts
    <2>1. p # Tracks /\ p.creator = "rntuple_source" /\ p.suffix = OriginOf(p)
        BY <1>2, ProductFields, OriginsOf DEF SimProducts
    <2>. QED
        BY <2>1, ValueOfHits DEF AsRecorded
<1>3. CASE p \in RecoProducts \ {Tracks}
    <2>1. p # Tracks /\ p.creator \in CopyNames
        BY <1>3, ProductFields DEF RecoProducts, CopyNames
    <2>. QED
        BY <2>1, ValueOfCopies DEF AsRecorded
<1>. QED
    BY <1>1, <1>2, <1>3 DEF Products

-------------------------------------------------------------------------------
(* Steps of the job *)

LEMMA ObserverKnown ==
    ASSUME NodesKnown, NEW node \in Observers
    PROVE  /\ node \in Known(config.isSim) /\ node.inputs = Wanted(node.name, config.isSim)
           /\ node.inputs \in SUBSET Products /\ node.inputs # {}
           /\ node.inputs \subseteq TuplesOf(config.isSim)
<1>1. node \in {nodes[i] : i \in DOMAIN nodes}
    BY DEF Observers, Range
<1>2. node \in Known(config.isSim)
    BY <1>1 DEF NodesKnown
<1>. QED
    BY <1>2 DEF Known, Nodes

\* Deliveries stay owed while seeds are added.
LEMMA OwedGrows ==
    ASSUME vars' = vars, slice' = slice, DOMAIN children \subseteq DOMAIN children',
           \A cell \in DOMAIN children : children'[cell] = children[cell]
    PROVE  Owed \subseteq Owed' /\ Observers' = Observers
<1>1. nodes' = nodes /\ todo' = todo /\ step' = step /\ config' = config
    BY DEF vars
<1>2. Observers' = Observers
    BY <1>1 DEF Observers, Followed
<1>3. \A cell \in DOMAIN children : SeedsOf(cell)' = SeedsOf(cell)
    BY DEF SeedsOf
<1>4. \A layer \in {"job", "spill", "seed"} : Cells(layer) \subseteq Cells(layer)'
    <2>1. Cells("seed") \subseteq Cells("seed")'
        BY <1>3 DEF Cells
    <2>2. Cells("spill") \subseteq Cells("spill")' /\ Cells("job") \subseteq Cells("job")'
        BY DEF Cells, Spill
    <2>. QED
        BY <2>1, <2>2
<1>5. \A inputs : LayerOf(inputs) \in {"job", "spill", "seed"}
    BY DEF LayerOf
<1>6. Registered' <=> Registered
    BY <1>1 DEF Registered
<1>. QED
    BY <1>2, <1>4, <1>5, <1>6 DEF Owed

\* A node that makes what is right keeps everything.
LEMMA Making ==
    ASSUME JobInv, status = "running", vars' = vars, hits' = hits, slice' = slice,
           children' = children, calls' = calls, status' = status,
           NEW p, NEW cell, NEW value, Make(p, cell, value), Right(p, cell, value)
    PROVE  JobInv'
<1>1. store' = store \union {[product |-> p, cell |-> cell, value |-> value]}
    BY DEF Make
<1>2. StoreInv'
    <2>1. \A r \in store' : Right(r.product, r.cell, r.value)
        BY <1>1 DEF JobInv, StoreInv
    <2>. QED
        BY <2>1 DEF StoreInv
<1>3. SeedsFiled'
    <2>1. \A q, c : Provided(q, c) => Provided(q, c)'
        BY <1>1 DEF Provided
    <2>. QED
        BY <2>1 DEF JobInv, SeedsFiled
<1>4. config' = config /\ nodes' = nodes /\ todo' = todo /\ step' = step
    BY DEF vars
<1>5. NodesKnown' /\ CallsRight'
    BY <1>4 DEF JobInv, NodesKnown, CallsRight
<1>6. Owed \subseteq Owed' /\ (Registered' <=> Registered)
    BY <1>4, OwedGrows DEF Registered
<1>. QED
    BY <1>2, <1>3, <1>4, <1>5, <1>6 DEF JobInv

LEMMA ReadStep ==
    ASSUME JobInv, vars' = vars, NEW suffix \in HitTypes, NEW cell \in Spill,
           ReadHits(suffix, cell)
    PROVE  JobInv'
<1>1. Right(DigitisedHits(suffix), cell, hits[suffix])
    BY HitFields DEF Right, JobInv, CopyNames
<1>. QED
    BY <1>1, Making DEF ReadHits, Running

LEMMA ConditionsStep ==
    ASSUME JobInv, vars' = vars, NEW p \in {Detector, Field}, ReadConditions(p)
    PROVE  JobInv'
<1>1. Right(p, << >>, p.suffix)
    BY TransformsMeet DEF Right, CopyNames
<1>. QED
    BY <1>1, Making DEF ReadConditions, Running

LEMMA CopyStep ==
    ASSUME JobInv, vars' = vars, NEW node \in Copies, NEW cell \in Spill, CopyHits(node, cell)
    PROVE  JobInv'
<1>1. PICK p \in node.inputs : Make(node.output, cell, ValueOf(p, cell))
    BY DEF CopyHits
<1>2. Made(p, cell) # {}
    BY DEF CopyHits, Waiting, Ready
<1>3. \E s : /\ node.inputs = {DigitisedHits(s)} /\ OriginOf(node.output) = s
             /\ node.output.creator \in CopyNames
    BY TransformsMeet, ProductFields, OriginsOf DEF Copies, CopyNames
<1>4. ValueOf(p, cell) = InputFile[OriginOf(node.output)]
    <2>1. PICK s : p = DigitisedHits(s) /\ OriginOf(node.output) = s
        BY <1>3
    <2>. QED
        BY <1>2, <2>1, HitFields, ValueOfHits DEF JobInv
<1>5. Right(node.output, cell, ValueOf(p, cell))
    BY <1>3, <1>4 DEF Right, CopyNames
<1>. QED
    BY <1>1, <1>5, Making DEF CopyHits, Running

LEMMA PrepareStep ==
    ASSUME JobInv, vars' = vars, NEW cell \in Spill, Prepare(cell)
    PROVE  JobInv'
<1>. DEFINE straw == DigitisedHits("straw_tubes_hits")
            value == [spill |-> cell, hits |-> ValueOf(straw, cell)]
<1>1. Make(Context, cell, value)
    BY DEF Prepare, Context
<1>2. Made(straw, cell) # {}
    BY TransformsMeet DEF Prepare, Waiting, Ready
<1>3. ValueOf(straw, cell) = InputFile["straw_tubes_hits"]
    BY <1>2, HitFields, ValueOfHits DEF JobInv
<1>4. PICK i \in 1 .. NSpills : cell = <<i>>
    BY SpillCellShape
<1>5. Right(Context, cell, value)
    BY <1>3, <1>4, TransformsMeet DEF Right, CopyNames
<1>. QED
    BY <1>1, <1>5, Making DEF Prepare, Running

LEMMA FitStep ==
    ASSUME JobInv, vars' = vars, NEW cell \in Cells("seed"), Fit(cell)
    PROVE  JobInv'
<1>1. PICK i \in 1 .. NSpills, k \in 1 .. MaxSeeds : cell = <<i, k>>
    BY SeedCellShape DEF JobInv
<1>2. i \in Nat /\ k \in Nat
    BY JobAssumption DEF JobAssumption
<1>3. Made(SeedPairs, cell) # {}
    BY TransformsMeet DEF Fit, Waiting, Ready
<1>4. ValueOf(SeedPairs, cell) = SeedOf(i, k)
    BY <1>1, <1>2, <1>3, ValueOfSeed DEF JobInv
<1>5. PICK tracks \in {{}, {SeedOf(i, k)}} : Make(Tracks, cell, tracks)
    BY <1>4, TransformsMeet DEF Fit, SeedPairs
<1>6. Right(Tracks, cell, tracks)
    BY <1>1, <1>5, ProductFields DEF Right, CopyNames
<1>. QED
    BY <1>5, <1>6, Making DEF Fit, Running

LEMMA UnfoldStep ==
    ASSUME JobInv, vars' = vars, NEW cell \in Spill, Unfold(cell)
    PROVE  /\ JobInv'
           /\ Owed \subseteq Owed'
<1>1. PICK n \in 0 .. MaxSeeds :
         /\ children' = [c \in DOMAIN children \union {cell} |->
                            IF c = cell THEN n ELSE children[c]]
         /\ store' = store \union
               {[product |-> SeedPairs, cell |-> Append(cell, k),
                 value |-> [context |-> ValueOf(Context, cell), pair |-> k]] : k \in 1 .. n}
    BY DEF Unfold, SeedPairs, Context
<1>2. PICK i \in 1 .. NSpills : cell = <<i>>
    BY SpillCellShape
<1>3. i \in Nat /\ n \in Nat /\ \A k \in 1 .. n : k \in 1 .. MaxSeeds
    BY JobAssumption DEF JobAssumption
<1>4. Made(Context, cell) # {} /\ cell \notin DOMAIN children
    BY TransformsMeet DEF Unfold, CanUnfold, Ready
<1>5. ValueOf(Context, cell) = [spill |-> <<i>>, hits |-> InputFile["straw_tubes_hits"]]
    BY <1>2, <1>3, <1>4, ValueOfContext DEF JobInv
<1>6. store' = store \union {[product |-> SeedPairs, cell |-> Append(cell, k),
                              value |-> SeedOf(i, k)] : k \in 1 .. n}
    BY <1>1, <1>5 DEF SeedOf
<1>7. \A k \in 1 .. n : Append(cell, k) = <<i, k>>
    <2>1. \A k \in 1 .. n : Append(<<i>>, k) = <<i, k>>
        BY <1>3, SeedCell
    <2>. QED
        BY <1>2, <2>1
<1>8. StoreInv'
    <2>1. \A k \in 1 .. n : Right(SeedPairs, Append(cell, k), SeedOf(i, k))
        BY <1>3, <1>7, TransformsMeet DEF Right, CopyNames
    <2>2. ASSUME NEW r \in store'
          PROVE  Right(r.product, r.cell, r.value)
        <3>1. CASE r \in store
            BY <3>1 DEF JobInv, StoreInv
        <3>2. ASSUME NEW k \in 1 .. n,
                     r = [product |-> SeedPairs, cell |-> Append(cell, k), value |-> SeedOf(i, k)]
              PROVE  Right(r.product, r.cell, r.value)
            BY <2>1, <3>2
        <3>. QED
            BY <1>6, <3>1, <3>2
    <2>. QED
        BY <2>2 DEF StoreInv
<1>9. DOMAIN children' = DOMAIN children \union {cell} /\ children'[cell] = n
      /\ \A c \in DOMAIN children : children'[c] = children[c]
    BY <1>1, <1>4
<1>10. SeedsFiled'
    <2>1. \A q, c : Provided(q, c) => Provided(q, c)'
        BY <1>6 DEF Provided
    <2>2. \A k \in 1 .. n : Provided(SeedPairs, Append(cell, k))'
        <3>. SUFFICES ASSUME NEW k \in 1 .. n PROVE Provided(SeedPairs, Append(cell, k))'
            OBVIOUS
        <3>1. [product |-> SeedPairs, cell |-> Append(cell, k), value |-> SeedOf(i, k)] \in store'
            BY <1>6
        <3>. QED
            BY <3>1 DEF Provided
    <2>. QED
        BY <1>9, <2>1, <2>2 DEF JobInv, SeedsFiled
<1>11. config' = config /\ nodes' = nodes /\ todo' = todo /\ step' = step
    BY DEF vars
<1>12. hits' = hits /\ slice' = slice /\ calls' = calls /\ status' = status /\ status = "running"
    BY DEF Unfold, Running
<1>13. NodesKnown' /\ CallsRight'
    BY <1>11, <1>12 DEF JobInv, NodesKnown, CallsRight
<1>14. Owed \subseteq Owed' /\ (Registered' <=> Registered)
    BY <1>9, <1>11, <1>12, OwedGrows DEF Registered
<1>. QED
    BY <1>8, <1>10, <1>11, <1>12, <1>13, <1>14 DEF JobInv

LEMMA ObserveStep ==
    ASSUME JobInv, vars' = vars, NEW node \in Observers,
           NEW cell \in Cells(LayerOf(node.inputs)), Observe(node, cell)
    PROVE  /\ JobInv'
           /\ <<node.name, cell>> \in Owed
           /\ \A c \in calls : <<c.node, c.cell>> # <<node.name, cell>>
           /\ {<<c.node, c.cell>> : c \in calls}'
              = {<<c.node, c.cell>> : c \in calls} \union {<<node.name, cell>>}
<1>. DEFINE got == [p \in Followed(node) |-> ValueOf(p, cell)]
<1>. PICK new : new = [node |-> node.name, cell |-> cell, got |-> got]
    OBVIOUS
<1>1. calls' = calls \union {new}
    BY DEF Observe
<1>2. new.node = node.name /\ new.cell = cell /\ new.got = got
    OBVIOUS
<1>. HIDE DEF got
<1>3. \A c \in calls : ~(c.node = node.name /\ c.cell = cell)
    BY DEF Observe, CanCall, Called
<1>4. Registered /\ status = "running"
    BY DEF Observe, Running
<1>5. <<node.name, cell>> \in Owed
    BY <1>4 DEF Owed
<1>6. \A p \in Wanted(node.name, config.isSim) :
         OriginOf(p) \in slice => AsRecorded(p, cell, got[p])
    <2>. SUFFICES ASSUME NEW p \in node.inputs, OriginOf(p) \in slice
                  PROVE  AsRecorded(p, cell, got[p])
        BY ObserverKnown DEF JobInv
    <2>1. p \in Followed(node)
        BY DEF Followed
    <2>2. Made(p, cell) # {} /\ got[p] = ValueOf(p, cell)
        BY <2>1 DEF Observe, CanCall, got
    <2>. QED
        BY <2>2, ValueAsRecorded, ObserverKnown DEF JobInv
<1>7. config' = config /\ nodes' = nodes /\ todo' = todo /\ step' = step
    BY DEF vars
<1>8. hits' = hits /\ slice' = slice /\ store' = store /\ children' = children /\ status' = status
    BY DEF Observe
<1>9. CallsRight'
    <2>1. \A c, d \in calls' : c.node = d.node /\ c.cell = d.cell => c = d
        <3>1. \A c, d \in calls : c.node = d.node /\ c.cell = d.cell => c = d
            BY DEF JobInv, CallsRight
        <3>. QED
            BY ONLY <1>1, <1>2, <1>3, <3>1
    <2>2. \A c \in calls' : \A p \in Wanted(c.node, config.isSim) :
             OriginOf(p) \in slice => AsRecorded(p, c.cell, c.got[p])
        <3>1. \A c \in calls : \A p \in Wanted(c.node, config.isSim) :
                 OriginOf(p) \in slice => AsRecorded(p, c.cell, c.got[p])
            BY DEF JobInv, CallsRight
        <3>. QED
            BY ONLY <1>1, <1>2, <1>6, <3>1
    <2>. QED
        BY <1>7, <1>8, <2>1, <2>2 DEF CallsRight
<1>10. Owed \subseteq Owed' /\ (Registered' <=> Registered)
    BY <1>7, <1>8, OwedGrows DEF Registered
<1>11. \A c \in calls' : <<c.node, c.cell>> \in Owed'
    BY <1>1, <1>2, <1>5, <1>10 DEF JobInv
<1>12. NodesKnown' /\ StoreInv' /\ SeedsFiled'
    BY <1>7, <1>8 DEF JobInv, NodesKnown, StoreInv, SeedsFiled, Provided
<1>13. JobInv'
    BY <1>4, <1>7, <1>8, <1>9, <1>10, <1>11, <1>12 DEF JobInv
<1>14. {<<c.node, c.cell>> : c \in calls}'
       = {<<c.node, c.cell>> : c \in calls} \union {<<node.name, cell>>}
    BY <1>1, <1>2
<1>. QED
    BY <1>3, <1>5, <1>13, <1>14

\* Nothing is registered once all observers are.
LEMMA RegistrationStep ==
    ASSUME JobInv, Registration
    PROVE  /\ JobInv'
           /\ ~Registered /\ calls = {} /\ jobVars' = jobVars
<1>1. [Next]_vars /\ jobVars' = jobVars
    BY DEF Registration, Next
<1>2. ~Registered
    BY DEF Registration, RejectMode, RejectClash, MakeNoop, MakeWriter, MakeHistoFile,
           RegisterNode, CannotOpen, Registered
<1>3. /\ slice' = slice /\ hits' = hits /\ store' = store /\ children' = children
      /\ calls' = calls /\ status' = status /\ calls = {} /\ status = "running"
    BY <1>1, <1>2 DEF jobVars, JobInv
<1>4. NodesKnown' /\ config' = config
    <2>1. config' = config
        BY DEF Registration, RejectMode, RejectClash, MakeNoop, MakeWriter, MakeHistoFile,
               RegisterNode, CannotOpen
    <2>. QED
        BY <1>1, <2>1, KnownStep DEF JobInv
<1>5. StoreInv' /\ SeedsFiled'
    BY <1>3 DEF JobInv, StoreInv, SeedsFiled, Provided
<1>6. CallsRight'
    BY <1>3 DEF CallsRight
<1>. QED
    BY <1>1, <1>2, <1>3, <1>4, <1>5, <1>6 DEF JobInv

\* A cell of an observer is a spill or in one.
LEMMA CellInSpill ==
    ASSUME SeedsFiled, NEW inputs \in SUBSET Products, inputs # {},
           NEW cell \in Cells(LayerOf(inputs))
    PROVE  \E c \in Spill : IsPrefix(c, cell)
<1>1. CASE LayerOf(inputs) = "spill"
    <2>1. PICK i \in 1 .. NSpills : cell = <<i>>
        BY <1>1, SpillCellShape
    <2>2. i \in Nat /\ <<i>> \in Spill
        BY JobAssumption DEF JobAssumption, Spill
    <2>. QED
        BY <2>1, <2>2, CellPrefixes
<1>2. CASE LayerOf(inputs) = "seed"
    <2>1. PICK i \in 1 .. NSpills, k \in 1 .. MaxSeeds : cell = <<i, k>>
        BY <1>2, SeedCellShape
    <2>2. i \in Nat /\ k \in Nat /\ <<i>> \in Spill
        BY JobAssumption DEF JobAssumption, Spill
    <2>. QED
        BY <2>1, <2>2, CellPrefixes
<1>. QED
    BY <1>1, <1>2, ObserverLayer

LEMMA ProvidedIsMade ==
    ASSUME NEW p, NEW c, NEW cell, Provided(p, c), IsPrefix(c, cell)
    PROVE  Made(p, cell) # {}
    BY DEF Provided, Made

\* When no call is left, every product that a cell of an observer needs is made.
LEMMA QuietMakes ==
    ASSUME JobInv, Quiet, NEW inputs \in SUBSET TuplesOf(config.isSim), NEW p \in inputs,
           OriginOf(p) \in slice, NEW cell \in Cells(LayerOf(inputs))
    PROVE  Made(p, cell) # {}
<1>1. inputs \in SUBSET Products /\ inputs # {}
    BY DEF TuplesOf, Products
<1>2. PICK c \in Spill : IsPrefix(c, cell)
    BY <1>1, CellInSpill DEF JobInv
<1>3. CASE p \in SimProducts
    <2>1. config.isSim
        <3>1. p \notin RecoProducts
            BY <1>3, ProductFields DEF RecoProducts, SimProducts
        <3>. QED
            BY <3>1 DEF TuplesOf
    <2>2. p = DigitisedHits(OriginOf(p)) /\ OriginOf(p) \in HitTypes
        BY <1>3, <2>1, ProductFields, OriginsOf DEF SimProducts, HitTypes
    <2>3. Provided(p, c)
        BY <2>2 DEF Quiet
    <2>. QED
        BY <1>2, <2>3, ProvidedIsMade
<1>4. ASSUME NEW node \in Copies, p = node.output, NEW s \in HitTypes,
             node.inputs = {DigitisedHits(s)}, OriginOf(p) = s
      PROVE  Made(p, cell) # {}
    <2>1. Provided(DigitisedHits(s), c)
        BY <1>4 DEF Quiet
    <2>2. PICK i \in 1 .. NSpills : c = <<i>>
        BY SpillCellShape
    <2>3. IsPrefix(c, c)
        BY <2>2, CellPrefixes, JobAssumption DEF JobAssumption
    <2>4. Made(DigitisedHits(s), c) # {}
        BY <2>1, <2>3, ProvidedIsMade
    <2>5. Ready(node, c)
        BY <1>4, <2>4, TransformLayer, SpillCellShape DEF Ready
    <2>6. Provided(p, c)
        BY <1>4, <2>5 DEF Quiet, Waiting
    <2>. QED
        BY <1>2, <2>6, ProvidedIsMade
<1>5. CASE p \in {UBTHits, SBTHits, CaloHits, TimeDetHits}
    <2>1. {"ubt_hits", "sbt_hits", "calorimeter_hits", "timing_detector_hits"} \subseteq HitTypes
        BY DEF HitTypes
    <2>2. CASE p = UBTHits
        BY <1>4, <2>1, <2>2, TransformsMeet, OriginsOf DEF Copies
    <2>3. CASE p = SBTHits
        BY <1>4, <2>1, <2>3, TransformsMeet, OriginsOf DEF Copies
    <2>4. CASE p = CaloHits
        BY <1>4, <2>1, <2>4, TransformsMeet, OriginsOf DEF Copies
    <2>5. CASE p = TimeDetHits
        BY <1>4, <2>1, <2>5, TransformsMeet, OriginsOf DEF Copies
    <2>. QED
        BY <1>5, <2>2, <2>3, <2>4, <2>5
<1>6. CASE p = Tracks
    <2>1. LayerOf(inputs) = "seed"
        BY <1>1, <1>6, ObserverLayer
    <2>2. PICK i \in 1 .. NSpills, k \in 1 .. MaxSeeds :
             cell = <<i, k>> /\ Provided(SeedPairs, <<i, k>>)
        BY <2>1, SeedCellShape DEF JobInv
    <2>3. IsPrefix(cell, cell)
        BY <2>2, CellPrefixes, JobAssumption DEF JobAssumption
    <2>4. Made(SeedPairs, cell) # {}
        BY <2>2, <2>3, ProvidedIsMade
    <2>5. Ready(FitSeed, cell) /\ cell \in Cells("seed")
        BY <2>1, <2>4, TransformLayer, TransformsMeet DEF Ready
    <2>6. Provided(Tracks, cell)
        BY <2>5, TransformsMeet DEF Quiet, Waiting
    <2>. QED
        BY <1>6, <2>3, <2>6, ProvidedIsMade
<1>. QED
    BY <1>1, <1>3, <1>5, <1>6 DEF Products, RecoProducts

\* A quiet job has made every call it owes.
LEMMA QuietDelivers ==
    ASSUME JobInv, Quiet
    PROVE  Delivered
<1>. SUFFICES ASSUME NEW node \in Observers, NEW cell \in Cells(LayerOf(node.inputs))
              PROVE  Called(node, cell)
    BY DEF Delivered
<1>1. node.inputs \in SUBSET TuplesOf(config.isSim)
    BY ObserverKnown DEF JobInv
<1>2. \A p \in Followed(node) : Made(p, cell) # {}
    BY <1>1, QuietMakes DEF Followed
<1>3. ~CanCall(node, cell)
    BY DEF Quiet
<1>. QED
    BY <1>2, <1>3 DEF CanCall

LEMMA DeliveredStays ==
    ASSUME children' = children, calls' = calls, Observers' = Observers, Delivered
    PROVE  Delivered'
<1>1. \A cell : SeedsOf(cell)' = SeedsOf(cell)
    BY DEF SeedsOf
<1>2. Cells("seed")' = Cells("seed")
    BY <1>1 DEF Cells
<1>3. Cells("spill")' = Cells("spill") /\ Cells("job")' = Cells("job")
    BY DEF Cells, Spill
<1>4. \A inputs : LayerOf(inputs) \in {"job", "spill", "seed"}
    BY DEF LayerOf
<1>5. \A inputs : Cells(LayerOf(inputs))' = Cells(LayerOf(inputs))
    BY <1>2, <1>3, <1>4
<1>. QED
    BY <1>5 DEF Delivered, Called

LEMMA EndStep ==
    ASSUME JobInv, vars' = vars, EndJob \/ AbortJob
    PROVE  JobInv'
<1>1. /\ slice' = slice /\ hits' = hits /\ store' = store /\ children' = children
      /\ calls' = calls /\ Registered /\ status = "running"
    BY DEF EndJob, AbortJob, Running
<1>2. config' = config /\ nodes' = nodes /\ todo' = todo /\ step' = step
    BY DEF vars
<1>3. NodesKnown' /\ StoreInv' /\ SeedsFiled' /\ CallsRight'
    BY <1>1, <1>2 DEF JobInv, NodesKnown, StoreInv, SeedsFiled, Provided, CallsRight
<1>4. Owed \subseteq Owed' /\ Observers' = Observers /\ (Registered' <=> Registered)
    BY <1>1, <1>2, OwedGrows DEF Registered
<1>5. status' = "complete" => Delivered'
    <2>1. EndJob => Delivered
        BY QuietDelivers DEF EndJob
    <2>2. status' = "complete" => EndJob
        BY DEF AbortJob
    <2>3. Delivered => Delivered'
        BY <1>1, <1>4, DeliveredStays
    <2>. QED
        BY <2>1, <2>2, <2>3
<1>6. status' \in {"complete", "aborted"}
    BY DEF EndJob, AbortJob
<1>. QED
    BY <1>1, <1>2, <1>3, <1>4, <1>5, <1>6 DEF JobInv

LEMMA JobStutters ==
    ASSUME JobInv, allVars' = allVars
    PROVE  JobInv'
<1>1. /\ slice' = slice /\ hits' = hits /\ store' = store /\ children' = children
      /\ calls' = calls /\ status' = status /\ vars' = vars
    BY DEF allVars, jobVars
<1>2. config' = config /\ nodes' = nodes /\ todo' = todo /\ step' = step
    BY <1>1 DEF vars
<1>3. NodesKnown' /\ StoreInv' /\ SeedsFiled' /\ CallsRight'
    BY <1>1, <1>2 DEF JobInv, NodesKnown, StoreInv, SeedsFiled, Provided, CallsRight
<1>4. Owed \subseteq Owed' /\ Observers' = Observers /\ (Registered' <=> Registered)
    BY <1>1, <1>2, OwedGrows DEF Registered
<1>5. Delivered => Delivered'
    BY <1>1, <1>4, DeliveredStays
<1>. QED
    BY <1>1, <1>2, <1>3, <1>4, <1>5 DEF JobInv

LEMMA JobStarts == JobInit => JobInv
<1>. SUFFICES ASSUME JobInit PROVE JobInv
    OBVIOUS
<1>1. /\ Init /\ hits = InputFile /\ store = {} /\ calls = {} /\ status = "running"
      /\ DOMAIN children = {}
    BY DEF JobInit
<1>2. config \in Configs /\ nodes = << >> /\ todo = << >>
    BY <1>1 DEF Init
<1>. QED
    BY <1>1, <1>2 DEF JobInv, NodesKnown, StoreInv, SeedsFiled, CallsRight

LEMMA JobStep == JobInv /\ [JobNext]_allVars => JobInv'
<1>. SUFFICES ASSUME JobInv, [JobNext]_allVars PROVE JobInv'
    OBVIOUS
<1>1. CASE Registration
    BY <1>1, RegistrationStep
<1>2. ASSUME Call, vars' = vars PROVE JobInv'
    BY <1>2, ReadStep, ConditionsStep, CopyStep, PrepareStep, UnfoldStep, FitStep, ObserveStep
    DEF Call
<1>3. ASSUME EndJob \/ AbortJob, vars' = vars PROVE JobInv'
    BY <1>3, EndStep
<1>4. CASE allVars' = allVars
    BY <1>4, JobStutters
<1>. QED
    BY <1>1, <1>2, <1>3, <1>4 DEF JobNext

\* A job that completes has called every registered observer exactly once for each
\* cell of its layer, with what belongs to the cell: the names that the plugins
\* spell out on their own, from rntuple_source to write_* and validate_*, agree.
THEOREM CompleteJobs == JobSpec => []CleanJobIsComplete
<1>1. JobInv => CleanJobIsComplete
    <2>. SUFFICES ASSUME JobInv, status = "complete",
                         NEW node \in Observers, NEW cell \in Cells(LayerOf(node.inputs))
                  PROVE  LET mine == {c \in calls : c.node = node.name /\ c.cell = cell}
                         IN  /\ Cardinality(mine) = 1
                             /\ \A c \in mine : \A p \in Followed(node) :
                                   AsRecorded(p, cell, c.got[p])
        BY DEF CleanJobIsComplete
    <2>. DEFINE mine == {c \in calls : c.node = node.name /\ c.cell = cell}
    <2>1. PICK c \in calls : c.node = node.name /\ c.cell = cell
        BY DEF JobInv, Delivered, Called
    <2>2. mine = {c}
        BY <2>1 DEF JobInv, CallsRight
    <2>3. Cardinality(mine) = 1
        BY <2>2, FS_Singleton
    <2>4. \A p \in Followed(node) : AsRecorded(p, cell, c.got[p])
        <3>1. \A p \in Wanted(c.node, config.isSim) :
                 OriginOf(p) \in slice => AsRecorded(p, c.cell, c.got[p])
            BY <2>1 DEF JobInv, CallsRight
        <3>2. Wanted(c.node, config.isSim) = node.inputs
            BY <2>1, ObserverKnown DEF JobInv
        <3>. QED
            BY <2>1, <3>1, <3>2 DEF Followed
    <2>. QED
        BY <2>2, <2>3, <2>4
<1>. QED
    BY <1>1, JobStarts, JobStep, PTL DEF JobSpec

-------------------------------------------------------------------------------
(* The job as a ledger *)

\* Registration in a job is that of RecOutput: the theorems above hold for jobs.
THEOREM JobRegisters == JobSpec => Spec
<1>1. JobInit => Init
    BY DEF JobInit
<1>2. [JobNext]_allVars => [Next]_vars
    BY DEF JobNext, Registration, Next, allVars
<1>. QED
    BY <1>1, <1>2, PTL DEF JobSpec, Spec

Names(list) == {list[i].name : i \in DOMAIN list}

LEMMA NamesOfBoth ==
    ASSUME NEW a \in Seq(Nodes), NEW b \in Seq(Nodes)
    PROVE  a \o b \in Seq(Nodes) /\ Names(a) \union Names(b) \subseteq Names(a \o b)
<1>. PICK n \in Nat : n = Len(a)
    OBVIOUS
<1>. PICK m \in Nat : m = Len(b)
    OBVIOUS
<1>. PICK c : c = a \o b
    OBVIOUS
<1>1. /\ DOMAIN a = 1 .. n /\ DOMAIN b = 1 .. m /\ DOMAIN c = 1 .. (n + m) /\ c \in Seq(Nodes)
      /\ \A i \in 1 .. n : c[i] = a[i]
      /\ \A j \in 1 .. m : c[n + j] = b[j]
    BY ConcatProperties
<1>2. ASSUME NEW i \in 1 .. n
      PROVE  a[i].name \in Names(c)
    <2>1. i \in 1 .. (n + m)
        OBVIOUS
    <2>. QED
        BY <1>1, <2>1 DEF Names
<1>3. ASSUME NEW j \in 1 .. m
      PROVE  b[j].name \in Names(c)
    <2>1. n + j \in 1 .. (n + m)
        OBVIOUS
    <2>. QED
        BY <1>1, <2>1 DEF Names
<1>4. Names(a) \subseteq Names(c)
    BY <1>1, <1>2 DEF Names
<1>5. Names(b) \subseteq Names(c)
    BY <1>1, <1>3 DEF Names
<1>. QED
    BY <1>1, <1>4, <1>5

\* Every name is that of an observer of some job.
LEMMA AllNamed ==
    NodeNames \subseteq
        {node.name : node \in Range(WriterNodes(TRUE) \o HistoNodes(TRUE) \o NoopNodes(TRUE))}
<1>. DEFINE N1 == NoopNodes(TRUE)
<1>. USE DEF RecoWriters, SimWriters, RecoHistos, SimHistos
<1>1. \A name, p : Writes(name, p).name = name /\ Validates(name, p).name = name
    BY DEF Writes, Validates, Node
<1>2. {"write_spectrometer_tracks", "write_upstream_tagger", "write_surround_tagger",
       "write_calorimeter", "write_timing_detector"} \subseteq Names(RecoWriters)
    <2>1. /\ DOMAIN RecoWriters = 1 .. 5
          /\ RecoWriters[1].name = "write_spectrometer_tracks"
          /\ RecoWriters[2].name = "write_upstream_tagger"
          /\ RecoWriters[3].name = "write_surround_tagger"
          /\ RecoWriters[4].name = "write_calorimeter"
          /\ RecoWriters[5].name = "write_timing_detector"
        BY <1>1
    <2>. HIDE DEF RecoWriters
    <2>. QED
        BY <2>1 DEF Names
<1>3. {"write_sim_hits", "write_sim_particles"} \subseteq Names(SimWriters)
    <2>1. /\ DOMAIN SimWriters = 1 .. 2
          /\ SimWriters[1].name = "write_sim_hits" /\ SimWriters[2].name = "write_sim_particles"
        BY <1>1
    <2>. HIDE DEF SimWriters
    <2>. QED
        BY <2>1 DEF Names
<1>4. {"validate_spectrometer", "validate_upstream_tagger", "validate_surround_tagger",
       "validate_calorimeter", "validate_timing_detector"} \subseteq Names(RecoHistos)
    <2>1. /\ DOMAIN RecoHistos = 1 .. 5
          /\ RecoHistos[1].name = "validate_spectrometer"
          /\ RecoHistos[2].name = "validate_upstream_tagger"
          /\ RecoHistos[3].name = "validate_surround_tagger"
          /\ RecoHistos[4].name = "validate_calorimeter"
          /\ RecoHistos[5].name = "validate_timing_detector"
        BY <1>1
    <2>. HIDE DEF RecoHistos
    <2>. QED
        BY <2>1 DEF Names
<1>5. "validate_sim_truth" \in Names(SimHistos)
    <2>1. DOMAIN SimHistos = {1} /\ SimHistos[1].name = "validate_sim_truth"
        BY DEF Node
    <2>. HIDE DEF SimHistos
    <2>. QED
        BY <2>1 DEF Names
<1>6. "noop" \in Names(N1)
    <2>1. N1 = << Node("noop", "noop", RecoProducts \union SimProducts) >>
        BY DEF NoopNodes
    <2>. PICK n : n = Node("noop", "noop", RecoProducts \union SimProducts)
        OBVIOUS
    <2>2. n.name = "noop"
        BY DEF Node
    <2>3. N1 = <<n>>
        BY <2>1
    <2>. PICK list : list = <<n>>
        OBVIOUS
    <2>4. DOMAIN list = {1} /\ list[1].name = "noop"
        BY <2>2
    <2>5. "noop" \in Names(list)
        BY <2>4 DEF Names
    <2>. HIDE DEF N1
    <2>. QED
        BY ONLY <2>3, <2>5, list = <<n>>
<1>7. /\ WriterNodes(TRUE) = RecoWriters \o SimWriters /\ HistoNodes(TRUE) = RecoHistos \o SimHistos
    BY DEF WriterNodes, HistoNodes
<1>8. /\ RecoWriters \in Seq(Nodes) /\ SimWriters \in Seq(Nodes)
      /\ RecoHistos \in Seq(Nodes) /\ SimHistos \in Seq(Nodes)
      /\ N1 \in Seq(Nodes)
    <2>1. ASSUME NEW name \in NodeNames, NEW p \in Products
          PROVE  Writes(name, p) \in Nodes /\ Validates(name, p) \in Nodes
        BY NodeFields DEF Writes, Validates
    <2>2. /\ Tracks \in Products /\ UBTHits \in Products /\ SBTHits \in Products
          /\ CaloHits \in Products /\ TimeDetHits \in Products
          /\ SimHits \in Products /\ SimParticles \in Products
        BY DEF RecoProducts, SimProducts, Products
    <2>3. RecoWriters \in Seq(Nodes)
        <3>1. /\ Writes("write_spectrometer_tracks", Tracks) \in Nodes
              /\ Writes("write_upstream_tagger", UBTHits) \in Nodes
              /\ Writes("write_surround_tagger", SBTHits) \in Nodes
              /\ Writes("write_calorimeter", CaloHits) \in Nodes
              /\ Writes("write_timing_detector", TimeDetHits) \in Nodes
            BY <2>1, <2>2 DEF NodeNames
        <3>. QED
            BY <3>1
    <2>4. SimWriters \in Seq(Nodes)
        <3>1. /\ Writes("write_sim_hits", SimHits) \in Nodes
              /\ Writes("write_sim_particles", SimParticles) \in Nodes
            BY <2>1, <2>2 DEF NodeNames
        <3>. QED
            BY <3>1
    <2>5. RecoHistos \in Seq(Nodes)
        <3>1. /\ Validates("validate_spectrometer", Tracks) \in Nodes
              /\ Validates("validate_upstream_tagger", UBTHits) \in Nodes
              /\ Validates("validate_surround_tagger", SBTHits) \in Nodes
              /\ Validates("validate_calorimeter", CaloHits) \in Nodes
              /\ Validates("validate_timing_detector", TimeDetHits) \in Nodes
            BY <2>1, <2>2 DEF NodeNames
        <3>. QED
            BY <3>1
    <2>6. SimHistos \in Seq(Nodes)
        <3>1. Node("validate_sim_truth", "histogrammer", SimProducts) \in Nodes
            BY NodeFields DEF Products, NodeNames
        <3>. QED
            BY <3>1
    <2>7. N1 \in Seq(Nodes)
        BY ListsGive
    <2>. QED
        BY <2>3, <2>4, <2>5, <2>6, <2>7
<1>. HIDE DEF RecoWriters, SimWriters, RecoHistos, SimHistos, N1
<1>. DEFINE W == RecoWriters \o SimWriters
            H == RecoHistos \o SimHistos
            WH == W \o H
            All == WH \o N1
<1>9. W \in Seq(Nodes) /\ Names(RecoWriters) \union Names(SimWriters) \subseteq Names(W)
    BY <1>8, NamesOfBoth
<1>10. H \in Seq(Nodes) /\ Names(RecoHistos) \union Names(SimHistos) \subseteq Names(H)
    BY <1>8, NamesOfBoth
<1>. HIDE DEF W, H
<1>11. WH \in Seq(Nodes) /\ Names(W) \union Names(H) \subseteq Names(WH)
    BY <1>9, <1>10, NamesOfBoth
<1>. HIDE DEF WH
<1>12. Names(WH) \union Names(N1) \subseteq Names(All)
    BY <1>8, <1>11, NamesOfBoth
<1>. HIDE DEF All
<1>13. NodeNames \subseteq Names(All)
    BY <1>2, <1>3, <1>4, <1>5, <1>6, <1>9, <1>10, <1>11, <1>12 DEF NodeNames
<1>14. Names(All) = {node.name : node \in Range(All)}
    BY DEF Names, Range
<1>. QED
    BY <1>7, <1>13, <1>14 DEF W, H, WH, All, N1

\* What is owed is a delivery.
LEMMA OwedDeliveries ==
    ASSUME JobInv
    PROVE  Owed \subseteq AllDeliveries
<1>. SUFFICES ASSUME NEW node \in Observers, NEW cell \in Cells(LayerOf(node.inputs))
              PROVE  <<node.name, cell>> \in AllDeliveries
    BY DEF Owed
<1>1. node.name \in NodeNames
    BY ObserverKnown DEF JobInv, Known, Nodes
<1>2. cell \in Spill \union {<<i, k>> : i \in 1 .. NSpills, k \in 1 .. MaxSeeds}
    <2>1. CASE LayerOf(node.inputs) = "spill"
        BY <2>1, SpillCellShape
    <2>2. CASE LayerOf(node.inputs) = "seed"
        <3>1. PICK i \in 1 .. NSpills, k \in 1 .. MaxSeeds : cell = <<i, k>>
            BY <2>2, SeedCellShape DEF JobInv
        <3>. QED
            BY <3>1
    <2>. QED
        BY <2>1, <2>2, ObserverLayer, ObserverKnown DEF JobInv
<1>. DEFINE N == {n.name : n \in Range(WriterNodes(TRUE) \o HistoNodes(TRUE) \o NoopNodes(TRUE))}
            C == Spill \union {<<i, k>> : i \in 1 .. NSpills, k \in 1 .. MaxSeeds}
<1>3. node.name \in N
    BY <1>1, AllNamed
<1>4. cell \in C
    BY <1>2
<1>5. AllDeliveries = N \X C
    BY DEF AllDeliveries
<1>. HIDE DEF N, C
<1>. QED
    BY <1>3, <1>4, <1>5

\* The deliveries made.
Handed == {<<c.node, c.cell>> : c \in calls}

LEMMA LedgerSame ==
    ASSUME Owed' = Owed, Handed' = Handed, status' = status
    PROVE  [Ledger!LedgerNext]_(Ledger!ledger)
    BY DEF Ledger!ledger, Handed

\* A step that adds to what is owed, and to nothing else.
LEMMA LedgerOwes ==
    ASSUME status = "running", status' = status, calls' = calls,
           Owed \subseteq Owed', Owed' \subseteq AllDeliveries
    PROVE  [Ledger!LedgerNext]_(Ledger!ledger)
<1>1. CASE Owed' = Owed
    BY <1>1, LedgerSame DEF Handed
<1>2. CASE Owed' # Owed
    BY <1>2 DEF Ledger!LedgerNext, Ledger!Owe
<1>. QED
    BY <1>1, <1>2

\* Each step of a job is one of the ledger or changes nothing in it.
LEMMA LedgerStep ==
    ASSUME JobInv, JobInv', [JobNext]_allVars
    PROVE  [Ledger!LedgerNext]_(Ledger!ledger)
<1>0. Owed' \subseteq AllDeliveries
    <2>1. (JobInv => Owed \subseteq AllDeliveries)'
        BY OwedDeliveries, PTL
    <2>. QED
        BY <2>1
<1>1. CASE Registration
    <2>1. ~Registered /\ calls' = calls /\ status' = status /\ status = "running"
        BY <1>1, RegistrationStep DEF JobInv, jobVars
    <2>2. Owed = {}
        BY <2>1 DEF Owed
    <2>. QED
        BY <1>0, <2>1, <2>2, LedgerOwes
<1>2. ASSUME vars' = vars, slice' = slice, children' = children, calls' = calls
      PROVE  Owed' = Owed /\ Handed' = Handed
    BY <1>2 DEF vars, Owed, Registered, Observers, Followed, Cells, SeedsOf, Spill, Handed
<1>3. ASSUME vars' = vars, NEW suffix \in HitTypes, NEW cell \in Spill, ReadHits(suffix, cell)
      PROVE  [Ledger!LedgerNext]_(Ledger!ledger)
    BY <1>2, <1>3, LedgerSame DEF ReadHits
<1>4. ASSUME vars' = vars, NEW p \in {Detector, Field}, ReadConditions(p)
      PROVE  [Ledger!LedgerNext]_(Ledger!ledger)
    BY <1>2, <1>4, LedgerSame DEF ReadConditions
<1>5. ASSUME vars' = vars, NEW node \in Copies, NEW cell \in Spill, CopyHits(node, cell)
      PROVE  [Ledger!LedgerNext]_(Ledger!ledger)
    BY <1>2, <1>5, LedgerSame DEF CopyHits
<1>6. ASSUME vars' = vars, NEW cell \in Spill, Prepare(cell)
      PROVE  [Ledger!LedgerNext]_(Ledger!ledger)
    BY <1>2, <1>6, LedgerSame DEF Prepare
<1>7. ASSUME vars' = vars, NEW cell \in Cells("seed"), Fit(cell)
      PROVE  [Ledger!LedgerNext]_(Ledger!ledger)
    BY <1>2, <1>7, LedgerSame DEF Fit
<1>8. ASSUME vars' = vars, NEW cell \in Spill, Unfold(cell)
      PROVE  [Ledger!LedgerNext]_(Ledger!ledger)
    <2>1. Owed \subseteq Owed'
        BY <1>8, UnfoldStep
    <2>2. calls' = calls /\ status' = status /\ status = "running"
        BY <1>8 DEF Unfold, Running
    <2>. QED
        BY <1>0, <2>1, <2>2, LedgerOwes
<1>9. ASSUME vars' = vars, NEW node \in Observers, NEW cell \in Cells(LayerOf(node.inputs)),
             Observe(node, cell)
      PROVE  [Ledger!LedgerNext]_(Ledger!ledger)
    <2>1. /\ <<node.name, cell>> \in Owed /\ <<node.name, cell>> \notin Handed
          /\ Handed' = Handed \union {<<node.name, cell>>}
        BY <1>9, ObserveStep DEF Handed
    <2>2. /\ slice' = slice /\ children' = children /\ status' = status /\ status = "running"
        BY <1>9 DEF Observe, Running
    <2>3. Owed' = Owed
        BY <1>9, <2>2 DEF vars, Owed, Registered, Observers, Followed, Cells, SeedsOf, Spill
    <2>4. Ledger!HandOver
        BY <2>1, <2>2, <2>3 DEF Ledger!HandOver, Handed
    <2>. QED
        BY <2>4 DEF Ledger!LedgerNext
<1>10. ASSUME vars' = vars, EndJob
       PROVE  [Ledger!LedgerNext]_(Ledger!ledger)
    <2>1. /\ slice' = slice /\ children' = children /\ calls' = calls /\ status = "running"
          /\ Registered /\ status' = "complete" /\ Quiet
        BY <1>10 DEF EndJob, Running
    <2>2. Owed' = Owed /\ Handed' = Handed
        BY <1>2, <1>10, <2>1
    <2>3. Owed \subseteq Handed
        BY <2>1, QuietDelivers DEF Delivered, Called, Owed, Handed
    <2>4. Handed \subseteq Owed
        BY DEF JobInv, Handed
    <2>5. Ledger!Complete
        BY <2>1, <2>2, <2>3, <2>4 DEF Ledger!Complete, Handed
    <2>. QED
        BY <2>5 DEF Ledger!LedgerNext
<1>11. ASSUME vars' = vars, AbortJob
       PROVE  [Ledger!LedgerNext]_(Ledger!ledger)
    <2>1. /\ slice' = slice /\ children' = children /\ calls' = calls /\ status = "running"
          /\ status' = "aborted"
        BY <1>11 DEF AbortJob, Running
    <2>2. Owed' = Owed /\ Handed' = Handed
        BY <1>2, <1>11, <2>1
    <2>3. Ledger!GiveUp
        BY <2>1, <2>2 DEF Ledger!GiveUp, Handed
    <2>. QED
        BY <2>3 DEF Ledger!LedgerNext
<1>12. CASE allVars' = allVars
    <2>1. /\ vars' = vars /\ slice' = slice /\ children' = children /\ calls' = calls
          /\ status' = status
        BY <1>12 DEF allVars, jobVars
    <2>. QED
        BY <1>2, <2>1, LedgerSame
<1>. QED
    BY <1>1, <1>3, <1>4, <1>5, <1>6, <1>7, <1>8, <1>9, <1>10, <1>11, <1>12 DEF JobNext, Call

\* Seen from outside a job is a ledger: what it owes it delivers once, and it
\* completes only with nothing open.
THEOREM JobsKeepTheLedger == JobSpec => LedgerSpec
<1>1. JobInit => Ledger!LedgerInit
    BY DEF JobInit, Init, Registered, Owed, Ledger!LedgerInit
<1>2. JobInv /\ JobInv' /\ [JobNext]_allVars => [Ledger!LedgerNext]_(Ledger!ledger)
    BY LedgerStep
<1>. QED
    BY <1>1, <1>2, JobStarts, JobStep, PTL DEF JobSpec, LedgerSpec, Ledger!LedgerSpec
===============================================================================
