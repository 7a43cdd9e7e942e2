-------------------------- MODULE HistoOutputProofs --------------------------
(***************************************************************************)
(* A call fills only through contexts that its thread has, and the closed  *)
(* file misses exactly the histograms whose own put failed.                *)
(***************************************************************************)
EXTENDS HistoOutput, DataLemmas

-------------------------------------------------------------------------------
(* Sequences of sequences, joined. *)

\* What FlattenSeq joins step by step.
Joins(f, ss) ==
    f = [i \in 1 .. Len(ss) |-> IF i = 1 THEN ss[i] ELSE f[i - 1] \o ss[i]]

\* Any number of sequences can be joined.
LEMMA JoinExists ==
  ASSUME NEW S, NEW ss \in Seq(Seq(S)), ss # <<>>
  PROVE  \E f : Joins(f, ss)
<1> PICK n \in Nat \ {0} : n = Len(ss)
  BY EmptySeq
<1> DEFINE Step(f, k) == f = [i \in 1 .. k |-> IF i = 1 THEN ss[i] ELSE f[i - 1] \o ss[i]]
           Bad == {k \in 1 .. n : ~\E f : Step(f, k)}
<1> HIDE DEF Step
<1>1. Bad = {}
  <2> SUFFICES ASSUME Bad # {} PROVE FALSE
    OBVIOUS
  <2>1. Bad \in SUBSET Nat
    OBVIOUS
  <2> PICK k : k = Min(Bad)
    OBVIOUS
  <2>2. k \in Bad /\ \A y \in Bad : k <= y
    BY <2>1, MinOfNats
  <2>3. k \in 1 .. n
    BY <2>2
  <2>4. CASE k = 1
    <3> DEFINE g == [i \in 1 .. 1 |-> ss[i]]
    <3>1. g = [i \in 1 .. 1 |-> IF i = 1 THEN ss[i] ELSE g[i - 1] \o ss[i]]
      OBVIOUS
    <3>2. Step(g, 1)
      BY ONLY <3>1 DEF Step
    <3> QED
      BY ONLY <2>2, <2>4, <3>2
  <2>5. CASE k # 1
    <3>1. k - 1 \in 1 .. n /\ k - 1 \notin Bad
      <4>1. k - 1 \in 1 .. n /\ ~(k <= k - 1)
        BY <2>3, <2>5
      <4> HIDE DEF Bad
      <4> QED
        BY <4>1, <2>2
    <3>2. PICK f : Step(f, k - 1)
      BY <3>1
    <3> DEFINE g == [i \in 1 .. k |-> IF i < k THEN f[i] ELSE f[k - 1] \o ss[k]]
    <3>3. \A i \in 1 .. k : g[i] = IF i = 1 THEN ss[i] ELSE g[i - 1] \o ss[i]
      <4> TAKE i \in 1 .. k
      <4>1. CASE i = k
        <5>1. k \in 1 .. k /\ ~(k < k) /\ k - 1 \in 1 .. k /\ k - 1 < k
          BY <2>3, <3>1
        <5>2. g[k] = f[k - 1] \o ss[k] /\ g[k - 1] = f[k - 1]
          BY <5>1
        <5> QED
          BY <4>1, <5>2, <2>5
      <4>2. CASE i # k
        <5>1. i \in 1 .. (k - 1) /\ i < k /\ (i # 1 => i - 1 \in 1 .. k /\ i - 1 < k)
          BY <4>2, <2>3
        <5>2. f[i] = IF i = 1 THEN ss[i] ELSE f[i - 1] \o ss[i]
          BY <3>2, <5>1 DEF Step
        <5>3. g[i] = f[i] /\ (i # 1 => g[i - 1] = f[i - 1])
          BY <5>1
        <5> QED
          BY <5>2, <5>3
      <4> QED
        BY <4>1, <4>2
    <3>4. Step(g, k)
      <4> HIDE DEF Bad
      <4>1. g = [i \in 1 .. k |-> g[i]]
        OBVIOUS
      <4> HIDE DEF g
      <4> QED
        BY <3>3, <4>1 DEF Step
    <3> QED
      BY <2>2, <3>4
  <2> QED
    BY <2>4, <2>5
<1>2. \E f : Step(f, n)
  <2>1. n \in 1 .. n
    OBVIOUS
  <2> QED
    BY <1>1, <2>1
<1> QED
  BY <1>2 DEF Joins, Step

\* FlattenSeq is the last of these steps.
LEMMA JoinSteps ==
  ASSUME NEW S, NEW ss \in Seq(Seq(S)), ss # <<>>
  PROVE  \E j : /\ FlattenSeq(ss) = j[Len(ss)]
                /\ \A i \in 1 .. Len(ss) : j[i] = IF i = 1 THEN ss[i] ELSE j[i - 1] \o ss[i]
<1> PICK n \in Nat \ {0} : n = Len(ss)
  BY EmptySeq
<1> DEFINE j == CHOOSE f : Joins(f, ss)
<1>1. Joins(j, ss)
  BY JoinExists
<1>2. FlattenSeq(ss) = j[n]
  BY DEF FlattenSeq, Joins
<1> HIDE DEF j
<1>3. \A i \in 1 .. n : j[i] = IF i = 1 THEN ss[i] ELSE j[i - 1] \o ss[i]
  BY <1>1 DEF Joins
<1> QED
  BY <1>2, <1>3

\* Joined sequences over S are a sequence over S, and none is left out.
LEMMA JoinOver ==
  ASSUME NEW S, NEW ss \in Seq(Seq(S))
  PROVE  /\ FlattenSeq(ss) \in Seq(S)
         /\ \A i \in DOMAIN ss : Range(ss[i]) \subseteq Range(FlattenSeq(ss))
<1> PICK n \in Nat : n = Len(ss)
  OBVIOUS
<1>1. CASE n = 0
  <2>1. ss = <<>> /\ FlattenSeq(ss) = ss
    BY <1>1, EmptySeq DEF FlattenSeq
  <2>2. <<>> \in Seq(S) /\ DOMAIN <<>> = {}
    OBVIOUS
  <2> QED
    BY <2>1, <2>2
<1>2. CASE n # 0
  <2>1. ss # <<>>
    BY <1>2
  <2>2. PICK j : /\ FlattenSeq(ss) = j[n]
                 /\ \A i \in 1 .. n : j[i] = IF i = 1 THEN ss[i] ELSE j[i - 1] \o ss[i]
    BY <2>1, JoinSteps
  <2>3. \A i \in 1 .. n : j[i] = IF i = 1 THEN ss[i] ELSE j[i - 1] \o ss[i]
    BY <2>2
  <2> DEFINE Good(k) == /\ j[k] \in Seq(S)
                        /\ \A i \in 1 .. k : Range(ss[i]) \subseteq Range(j[k])
             Bad == {k \in 1 .. n : ~Good(k)}
  <2>4. Bad = {}
    <3> SUFFICES ASSUME Bad # {} PROVE FALSE
      OBVIOUS
    <3>1. Bad \in SUBSET Nat
      OBVIOUS
    <3> PICK k : k = Min(Bad)
      OBVIOUS
    <3>2. k \in Bad /\ \A y \in Bad : k <= y
      BY <3>1, MinOfNats
    <3>3. k \in 1 .. n /\ ss[k] \in Seq(S)
      BY <3>2
    <3>4. CASE k = 1
      <4>1. j[1] = ss[1]
        BY <2>3, <3>3, <3>4
      <4>2. Good(1)
        BY <4>1, <3>3, <3>4
      <4> QED
        BY <4>2, <3>2, <3>4
    <3>5. CASE k # 1
      <4>1. k - 1 \in 1 .. n /\ Good(k - 1)
        <5>1. k - 1 \in 1 .. n /\ ~(k <= k - 1)
          BY <3>3, <3>5
        <5> HIDE DEF Good
        <5>2. k - 1 \notin Bad
          <6> HIDE DEF Bad
          <6> QED
            BY <5>1, <3>2
        <5> QED
          BY <5>1, <5>2
      <4>2. j[k] = j[k - 1] \o ss[k]
        BY <2>3, <3>3, <3>5
      <4>3. j[k] \in Seq(S) /\ Range(j[k]) = Range(j[k - 1]) \union Range(ss[k])
        <5>1. j[k - 1] \in Seq(S)
          BY <4>1
        <5> PICK u : u = j[k - 1]
          OBVIOUS
        <5> PICK w : w = ss[k]
          OBVIOUS
        <5>2. u \in Seq(S) /\ w \in Seq(S)
          BY ONLY <5>1, <3>3, u = j[k - 1], w = ss[k]
        <5>3. u \o w \in Seq(S) /\ Range(u \o w) = Range(u) \union Range(w)
          BY ONLY <5>2, RangeConcatenation
        <5> QED
          BY ONLY <5>3, <4>2, u = j[k - 1], w = ss[k]
      <4>4. ASSUME NEW i \in 1 .. k PROVE Range(ss[i]) \subseteq Range(j[k])
        <5>1. i = k \/ i \in 1 .. (k - 1)
          BY <3>3
        <5> QED
          BY <5>1, <4>1, <4>3
      <4> QED
        BY <3>2, <4>3, <4>4
    <3> QED
      BY <3>4, <3>5
  <2>5. Good(n)
    <3>1. n \in 1 .. n
      BY <1>2
    <3> HIDE DEF Good
    <3> QED
      BY <2>4, <3>1
  <2> QED
    BY <2>2, <2>5
<1> QED
  BY <1>1, <1>2

\* One sequence, two sequences.
LEMMA JoinOne ==
  ASSUME NEW S, NEW s \in Seq(S)
  PROVE  FlattenSeq(<<s>>) = s
<1> PICK T : T = Seq(S)
  OBVIOUS
<1> PICK ss : ss = <<s>>
  OBVIOUS
<1>1. ss \in Seq(T) /\ ss # <<>> /\ Len(ss) = 1 /\ ss[1] = s
  OBVIOUS
<1>2. ss \in Seq(Seq(S))
  BY <1>1
<1>3. PICK j : /\ FlattenSeq(ss) = j[Len(ss)]
               /\ \A i \in 1 .. Len(ss) : j[i] = IF i = 1 THEN ss[i] ELSE j[i - 1] \o ss[i]
  BY ONLY <1>1, <1>2, JoinSteps
<1>4. j[1] = ss[1]
  BY <1>1, <1>3
<1> QED
  BY <1>1, <1>3, <1>4

LEMMA JoinTwo ==
  ASSUME NEW S, NEW s \in Seq(S), NEW r \in Seq(S)
  PROVE  FlattenSeq(<<s, r>>) = s \o r
<1> PICK T : T = Seq(S)
  OBVIOUS
<1> PICK ss : ss = <<s, r>>
  OBVIOUS
<1>1. ss \in Seq(T) /\ ss # <<>> /\ Len(ss) = 2 /\ ss[1] = s /\ ss[2] = r
  OBVIOUS
<1>2. ss \in Seq(Seq(S))
  BY <1>1
<1>3. PICK j : /\ FlattenSeq(ss) = j[Len(ss)]
               /\ \A i \in 1 .. Len(ss) : j[i] = IF i = 1 THEN ss[i] ELSE j[i - 1] \o ss[i]
  BY ONLY <1>1, <1>2, JoinSteps
<1>4. 1 \in 1 .. Len(ss) /\ 2 \in 1 .. Len(ss)
  BY <1>1
<1>5. /\ j[1] = IF 1 = 1 THEN ss[1] ELSE j[1 - 1] \o ss[1]
      /\ j[2] = IF 2 = 1 THEN ss[2] ELSE j[2 - 1] \o ss[2]
  BY <1>3, <1>4
<1>6. j[2] = j[1] \o ss[2]
  <2>1. 2 # 1 /\ 2 - 1 = 1
    OBVIOUS
  <2> QED
    BY ONLY <1>5, <2>1, Zenon
<1> QED
  BY <1>1, <1>3, <1>5, <1>6

\* A sequence without repetition n times: each of its elements is there n times.
LEMMA JoinRepeated ==
  ASSUME NEW S, NEW s \in Seq(S), IsInjective(s), NEW n \in Nat, NEW x
  PROVE  /\ FlattenSeq([k \in 1 .. n |-> s]) \in Seq(S)
         /\ Occurrences(FlattenSeq([k \in 1 .. n |-> s]), x) = IF x \in Range(s) THEN n ELSE 0
<1> PICK T : T = Seq(S)
  OBVIOUS
<1> PICK ss : ss = [k \in 1 .. n |-> s]
  OBVIOUS
<1>1. ss \in Seq(T) /\ Len(ss) = n /\ \A k \in 1 .. n : ss[k] = s
  OBVIOUS
<1>2. FlattenSeq(ss) \in Seq(S)
  BY <1>1, JoinOver
<1>3. CASE n = 0
  <2>1. FlattenSeq(ss) = ss /\ DOMAIN ss = {}
    BY <1>1, <1>3 DEF FlattenSeq
  <2>2. Occurrences(ss, x) = 0
    BY <2>1, FS_EmptySet DEF Occurrences
  <2> QED
    BY <1>2, <1>3, <2>1, <2>2
<1>4. CASE n # 0
  <2>1. ss # <<>>
    BY <1>1, <1>4
  <2>2. PICK j : /\ FlattenSeq(ss) = j[Len(ss)]
                 /\ \A i \in 1 .. Len(ss) : j[i] = IF i = 1 THEN ss[i] ELSE j[i - 1] \o ss[i]
    <3>1. ss \in Seq(Seq(S))
      BY <1>1
    <3> QED
      BY ONLY <3>1, <2>1, JoinSteps
  <2>3. \A i \in 1 .. n : j[i] = IF i = 1 THEN s ELSE j[i - 1] \o s
    BY <1>1, <2>2
  <2> DEFINE Good(k) == j[k] \in Seq(S) /\ Occurrences(j[k], x) = IF x \in Range(s) THEN k ELSE 0
             Bad == {k \in 1 .. n : ~Good(k)}
  <2>4. Occurrences(s, x) = IF x \in Range(s) THEN 1 ELSE 0
    BY OccurrencesOnce
  <2>5. Bad = {}
    <3> SUFFICES ASSUME Bad # {} PROVE FALSE
      OBVIOUS
    <3>1. Bad \in SUBSET Nat
      OBVIOUS
    <3> PICK k : k = Min(Bad)
      OBVIOUS
    <3>2. k \in Bad /\ \A y \in Bad : k <= y
      BY <3>1, MinOfNats
    <3>3. k \in 1 .. n
      BY <3>2
    <3>4. CASE k = 1
      <4>1. j[1] = s
        BY <2>3, <3>3, <3>4
      <4>2. Good(1)
        BY <4>1, <2>4
      <4> QED
        BY <4>2, <3>2, <3>4
    <3>5. CASE k # 1
      <4>1. k - 1 \in 1 .. n /\ Good(k - 1)
        <5>1. k - 1 \in 1 .. n /\ ~(k <= k - 1)
          BY <3>3, <3>5
        <5> HIDE DEF Good
        <5>2. k - 1 \notin Bad
          <6> HIDE DEF Bad
          <6> QED
            BY <5>1, <3>2
        <5> QED
          BY <5>1, <5>2
      <4> PICK u : u = j[k - 1]
        OBVIOUS
      <4>2. j[k] = u \o s /\ u \in Seq(S) /\ Occurrences(u, x) = IF x \in Range(s) THEN k - 1 ELSE 0
        BY <2>3, <3>3, <3>5, <4>1
      <4>3. u \o s \in Seq(S) /\ Occurrences(u \o s, x) = Occurrences(u, x) + Occurrences(s, x)
        BY <4>2, OccurrencesJoin
      <4>4. Good(k)
        <5>1. CASE x \in Range(s)
          BY <2>4, <3>3, <4>2, <4>3, <5>1
        <5>2. CASE x \notin Range(s)
          BY <2>4, <3>3, <4>2, <4>3, <5>2
        <5> QED
          BY <5>1, <5>2
      <4> QED
        BY <4>4, <3>2
    <3> QED
      BY <3>4, <3>5
  <2>6. Good(n)
    <3>1. n \in 1 .. n
      BY <1>4
    <3> HIDE DEF Good
    <3> QED
      BY <2>5, <3>1
  <2> QED
    BY <1>1, <1>2, <2>2, <2>6
<1> QED
  BY <1>3, <1>4

-------------------------------------------------------------------------------
(* The histograms of a histogrammer. *)

Names == {"h_spectrometer_track_multiplicity", "h_ref_x", "h_ref_y", "h_ref_z",
          "h_upstream_tagger_multiplicity", "h_surround_tagger_multiplicity",
          "h_calorimeter_multiplicity", "h_timing_detector_multiplicity",
          "h_sim_hit_multiplicity", "h_sim_hit_x", "h_sim_hit_y", "h_sim_hit_z",
          "h_sim_particle_multiplicity", "h_sim_particle_vtx_x", "h_sim_particle_vtx_y",
          "h_sim_particle_vtx_z"}
HistGroup == [count : Names, coords : Seq(Names)]

\* The names of a group: that of its count, and those of the coordinates, each once.
Named(G, count, coords) ==
    /\ G = Group(count, coords)
    /\ count \in Names /\ coords \in Seq(Names)
    /\ IsInjective(coords) /\ count \notin Range(coords)

\* Three different names, or none, are named right.
LEMMA ThreeNames ==
  /\ <<>> \in Seq(Names) /\ IsInjective(<<>>) /\ Range(<<>>) = {}
  /\ \A a, b, c \in Names : a # b /\ a # c /\ b # c =>
        <<a, b, c>> \in Seq(Names) /\ IsInjective(<<a, b, c>>) /\ Range(<<a, b, c>>) = {a, b, c}
<1> PICK S : S = Names
  OBVIOUS
<1>1. <<>> \in Seq(S) /\ IsInjective(<<>>) /\ Range(<<>>) = {}
  BY EmptyRange
<1>2. ASSUME NEW a \in S, NEW b \in S, NEW c \in S, a # b, a # c, b # c
      PROVE  <<a, b, c>> \in Seq(S) /\ IsInjective(<<a, b, c>>) /\ Range(<<a, b, c>>) = {a, b, c}
  <2> PICK s : s = <<a, b, c>>
    OBVIOUS
  <2>1. DOMAIN s = {1, 2, 3} /\ s[1] = a /\ s[2] = b /\ s[3] = c
    OBVIOUS
  <2>2. Range(s) = {a, b, c}
    BY <2>1 DEF Range
  <2>3. IsInjective(s)
    BY <1>2, <2>1 DEF IsInjective
  <2> QED
    BY <2>2, <2>3
<1> QED
  BY <1>1, <1>2

\* A histogrammer has one group of histograms, that of the simulation two, with
\* different names.
LEMMA GroupForms ==
  ASSUME NEW g \in DOMAIN Groups
  PROVE  \/ \E G, count, coords : Groups[g] = <<G>> /\ Named(G, count, coords)
         \/ \E G, count, coords, H, count2, coords2 :
               /\ Groups[g] = <<G, H>> /\ Named(G, count, coords) /\ Named(H, count2, coords2)
               /\ count # count2 /\ count \notin Range(coords2) /\ count2 \notin Range(coords)
               /\ Range(coords) \intersect Range(coords2) = {}
<1> DEFINE None == <<>>
           Refs == <<"h_ref_x", "h_ref_y", "h_ref_z">>
           Xyz == <<"h_sim_hit_x", "h_sim_hit_y", "h_sim_hit_z">>
           Vtx == <<"h_sim_particle_vtx_x", "h_sim_particle_vtx_y", "h_sim_particle_vtx_z">>
<1>1. None \in Seq(Names) /\ IsInjective(None) /\ Range(None) = {}
  BY ThreeNames
<1>2. Refs \in Seq(Names) /\ IsInjective(Refs) /\ Range(Refs) = {"h_ref_x", "h_ref_y", "h_ref_z"}
  <2>1. "h_ref_x" \in Names /\ "h_ref_y" \in Names /\ "h_ref_z" \in Names
    BY DEF Names
  <2> QED
    BY <2>1, ThreeNames
<1>3. /\ Xyz \in Seq(Names) /\ IsInjective(Xyz)
      /\ Range(Xyz) = {"h_sim_hit_x", "h_sim_hit_y", "h_sim_hit_z"}
  <2>1. "h_sim_hit_x" \in Names /\ "h_sim_hit_y" \in Names /\ "h_sim_hit_z" \in Names
    BY DEF Names
  <2> QED
    BY <2>1, ThreeNames
<1>4. /\ Vtx \in Seq(Names) /\ IsInjective(Vtx)
      /\ Range(Vtx) = {"h_sim_particle_vtx_x", "h_sim_particle_vtx_y", "h_sim_particle_vtx_z"}
  <2>1. /\ "h_sim_particle_vtx_x" \in Names
        /\ "h_sim_particle_vtx_y" \in Names
        /\ "h_sim_particle_vtx_z" \in Names
    BY DEF Names
  <2> QED
    BY <2>1, ThreeNames
<1>5. /\ SpectrometerGroups = <<Group("h_spectrometer_track_multiplicity", Refs)>>
      /\ UpstreamTaggerGroups = <<Group("h_upstream_tagger_multiplicity", None)>>
      /\ SurroundTaggerGroups = <<Group("h_surround_tagger_multiplicity", None)>>
      /\ CalorimeterGroups = <<Group("h_calorimeter_multiplicity", None)>>
      /\ TimingDetectorGroups = <<Group("h_timing_detector_multiplicity", None)>>
      /\ SimTruthGroups = <<Group("h_sim_hit_multiplicity", Xyz),
                            Group("h_sim_particle_multiplicity", Vtx)>>
  BY DEF SpectrometerGroups, UpstreamTaggerGroups, SurroundTaggerGroups, CalorimeterGroups,
         TimingDetectorGroups, SimTruthGroups
<1> HIDE DEF None, Refs, Xyz, Vtx
<1>6. ASSUME NEW count \in Names, Groups[g] = <<Group(count, None)>>
      PROVE  \E G, k, coords : Groups[g] = <<G>> /\ Named(G, k, coords)
  BY <1>1, <1>6 DEF Named
<1>7. CASE g = "spectrometer"
  <2>1. Groups[g] = <<Group("h_spectrometer_track_multiplicity", Refs)>>
    BY <1>5, <1>7 DEF Groups
  <2>2. "h_spectrometer_track_multiplicity" \notin Range(Refs)
    BY <1>2
  <2>3. Named(Group("h_spectrometer_track_multiplicity", Refs),
              "h_spectrometer_track_multiplicity", Refs)
    BY <1>2, <2>2 DEF Named, Names
  <2> QED
    BY <2>1, <2>3
<1>8. CASE g = "sim_truth"
  <2>1. Groups[g] = <<Group("h_sim_hit_multiplicity", Xyz),
                      Group("h_sim_particle_multiplicity", Vtx)>>
    BY <1>5, <1>8 DEF Groups
  <2>2. Named(Group("h_sim_hit_multiplicity", Xyz), "h_sim_hit_multiplicity", Xyz)
    BY <1>3 DEF Named, Names
  <2>3. Named(Group("h_sim_particle_multiplicity", Vtx), "h_sim_particle_multiplicity", Vtx)
    BY <1>4 DEF Named, Names
  <2>4. /\ "h_sim_hit_multiplicity" # "h_sim_particle_multiplicity"
        /\ "h_sim_hit_multiplicity" \notin Range(Vtx)
        /\ "h_sim_particle_multiplicity" \notin Range(Xyz)
        /\ Range(Xyz) \intersect Range(Vtx) = {}
    BY <1>3, <1>4
  <2> QED
    BY <2>1, <2>2, <2>3, <2>4
<1>9. CASE g = "upstream_tagger"
  BY <1>5, <1>6, <1>9 DEF Groups, Names
<1>10. CASE g = "surround_tagger"
  BY <1>5, <1>6, <1>10 DEF Groups, Names
<1>11. CASE g = "calorimeter"
  BY <1>5, <1>6, <1>11 DEF Groups, Names
<1>12. CASE g = "timing_detector"
  BY <1>5, <1>6, <1>12 DEF Groups, Names
<1> QED
  BY <1>7, <1>8, <1>9, <1>10, <1>11, <1>12 DEF Groups

\* Each has a group of histograms at least.
LEMMA GroupShape ==
  ASSUME NEW g \in DOMAIN Groups
  PROVE  Groups[g] \in Seq(HistGroup) /\ Groups[g] # <<>>
<1>1. \A G, count, coords : Named(G, count, coords) => G \in HistGroup
  BY DEF Named, Group, HistGroup
<1>2. \A G, H : G \in HistGroup /\ H \in HistGroup =>
         /\ <<G>> \in Seq(HistGroup) /\ <<G>> # <<>>
         /\ <<G, H>> \in Seq(HistGroup) /\ <<G, H>> # <<>>
  OBVIOUS
<1>3. CASE \E G, count, coords : Groups[g] = <<G>> /\ Named(G, count, coords)
  BY <1>1, <1>2, <1>3
<1>4. CASE ~\E G, count, coords : Groups[g] = <<G>> /\ Named(G, count, coords)
  <2>1. PICK G, count, coords, H, count2, coords2 :
          Groups[g] = <<G, H>> /\ Named(G, count, coords) /\ Named(H, count2, coords2)
    BY <1>4, GroupForms
  <2> QED
    BY <1>1, <1>2, <2>1
<1> QED
  BY <1>3, <1>4

\* A sequence whose elements are all in R is one over R.
LEMMA SeqOver ==
  ASSUME NEW S, NEW s \in Seq(S), NEW R, Range(s) \subseteq R
  PROVE  s \in Seq(R)
<1>1. \A i \in 1 .. Len(s) : s[i] \in R
  BY DEF Range
<1> QED
  BY <1>1

\* The histograms of g are those of its groups: the counts and the coordinates.
LEMMA HistsShape ==
  ASSUME NEW g \in DOMAIN Groups
  PROVE  /\ HistsOf(g) \in Seq(Names) /\ HistsOf(g) # <<>>
         /\ \A i \in DOMAIN Groups[g] :
               /\ Groups[g][i].count \in Range(HistsOf(g))
               /\ Groups[g][i].coords \in Seq(Range(HistsOf(g)))
<1> PICK G : G = Groups[g]
  OBVIOUS
<1>1. G \in Seq(HistGroup) /\ G # <<>>
  BY GroupShape
<1> PICK counts : counts = [i \in DOMAIN G |-> G[i].count]
  OBVIOUS
<1> PICK coords : coords = [i \in DOMAIN G |-> G[i].coords]
  OBVIOUS
<1> PICK m \in Nat : m = Len(G)
  BY <1>1
<1>9. DOMAIN G = 1 .. m /\ \A i \in 1 .. m : G[i] \in HistGroup
  BY <1>1
<1>2. \A i \in DOMAIN G : G[i].count \in Names /\ G[i].coords \in Seq(Names)
  <2> TAKE i \in DOMAIN G
  <2>1. G[i] \in HistGroup
    BY <1>9
  <2> QED
    BY <2>1 DEF HistGroup
<1>3. counts \in Seq(Names) /\ Len(counts) = Len(G) /\ coords \in Seq(Seq(Names))
  BY <1>9, <1>2
<1> PICK joined : joined = FlattenSeq(coords)
  OBVIOUS
<1>4. /\ joined \in Seq(Names)
      /\ \A i \in DOMAIN coords : Range(coords[i]) \subseteq Range(joined)
  BY ONLY <1>3, JoinOver, joined = FlattenSeq(coords)
<1>5. HistsOf(g) = counts \o joined
  BY DEF HistsOf
<1>6. Range(counts \o joined) = Range(counts) \union Range(joined)
  BY ONLY <1>3, <1>4, RangeConcatenation
<1>7. ASSUME NEW i \in DOMAIN G
      PROVE  /\ G[i].count \in Range(HistsOf(g))
             /\ G[i].coords \in Seq(Range(HistsOf(g)))
  <2>1. G[i].count \in Range(counts)
    BY DEF Range
  <2>2. Range(G[i].coords) \subseteq Range(joined)
    BY <1>4
  <2>3. G[i].coords \in Seq(Range(HistsOf(g)))
    BY <2>2, <1>2, <1>5, <1>6, SeqOver
  <2> QED
    BY <2>1, <2>3, <1>5, <1>6
<1>8. counts \o joined \in Seq(Names) /\ counts \o joined # <<>>
  BY <1>1, <1>3, <1>4
<1> QED
  BY <1>5, <1>7, <1>8

\* Every histogrammer of the job has its own ones, at least one, each once.
LEMMA HistsOwned ==
  /\ \A g \in Histogrammers :
        /\ HistsOf(g) \in Seq(Hists) /\ HistsOf(g) # <<>>
        /\ IsInjective(HistsOf(g))
        /\ HistsOf(g)[1] \in Range(HistsOf(g))
  /\ \A g, h \in Histogrammers : g # h => Range(HistsOf(g)) \intersect Range(HistsOf(h)) = {}
  /\ Hists = UNION {Range(HistsOf(g)) : g \in Histogrammers}
<1>1. Histogrammers \subseteq DOMAIN Groups
  BY GroupAssumption
<1>2. ASSUME NEW g \in Histogrammers
      PROVE  /\ HistsOf(g) \in Seq(Hists) /\ HistsOf(g) # <<>>
             /\ HistsOf(g)[1] \in Range(HistsOf(g))
  <2> PICK s : s = HistsOf(g)
    OBVIOUS
  <2>1. s \in Seq(Names) /\ s # <<>>
    BY <1>1, HistsShape
  <2>2. Range(s) \subseteq Hists
    BY DEF Hists
  <2>3. s \in Seq(Hists)
    BY <2>1, <2>2, SeqOver
  <2>4. 1 \in DOMAIN s
    BY <2>1
  <2>5. s[1] \in Range(s)
    BY <2>4 DEF Range
  <2> QED
    BY <2>1, <2>3, <2>5
<1> QED
  BY <1>1, <1>2, GroupAssumption DEF Hists

\* What a call fills is its histogrammer's.
LEMMA FillsOwned ==
  ASSUME NEW c \in Calls
  PROVE  /\ TargetOf[c] \in Histogrammers
         /\ FillsOf(c) \in Seq(Range(HistsOf(TargetOf[c])))
<1> PICK g : g = TargetOf[c]
  OBVIOUS
<1> PICK R : R = Range(HistsOf(g))
  OBVIOUS
<1>1. g \in Histogrammers /\ g \in DOMAIN Groups /\ Sizes[c] \in [DOMAIN Groups[g] -> Nat]
  BY CallAssumption, GroupAssumption
<1> PICK m \in Nat : DOMAIN Groups[g] = 1 .. m
  BY <1>1, GroupShape
<1>2. ASSUME NEW i \in 1 .. m
      PROVE  <<Groups[g][i].count>> \o
             FlattenSeq([n \in 1 .. Sizes[c][i] |-> Groups[g][i].coords]) \in Seq(R)
  <2> PICK coords : coords = Groups[g][i].coords
    OBVIOUS
  <2>1. Groups[g][i].count \in R /\ coords \in Seq(R) /\ Sizes[c][i] \in Nat
    BY <1>1, HistsShape
  <2> PICK many : many = [n \in 1 .. Sizes[c][i] |-> coords]
    OBVIOUS
  <2>2. many \in Seq(Seq(R))
    <3> PICK k \in Nat : k = Sizes[c][i]
      BY <2>1
    <3> PICK T : T = Seq(R)
      OBVIOUS
    <3>1. many = [n \in 1 .. k |-> coords] /\ coords \in T
      BY <2>1
    <3>2. many \in Seq(T)
      BY ONLY <3>1, k \in Nat
    <3> QED
      BY <3>2
  <2>3. FlattenSeq(many) \in Seq(R)
    BY ONLY <2>2, JoinOver
  <2> QED
    BY <2>1, <2>3
<1> PICK fills : fills = [i \in DOMAIN Sizes[c] |->
          <<Groups[g][i].count>> \o
          FlattenSeq([n \in 1 .. Sizes[c][i] |-> Groups[g][i].coords])]
  OBVIOUS
<1>3. fills \in Seq(Seq(R))
  <2>1. DOMAIN fills = 1 .. m
    BY <1>1
  <2>2. fills = [i \in 1 .. m |-> fills[i]] /\ \A i \in 1 .. m : fills[i] \in Seq(R)
    BY <1>1, <1>2
  <2> PICK T : T = Seq(R)
    OBVIOUS
  <2>3. fills \in Seq(T)
    <3>1. \A i \in 1 .. m : fills[i] \in T
      BY <2>2
    <3> QED
      BY ONLY <3>1, <2>2, m \in Nat
  <2> QED
    BY <2>3
<1>4. FlattenSeq(fills) \in Seq(R)
  BY ONLY <1>3, JoinOver
<1>5. FillsOf(c) = FlattenSeq(fills)
  BY DEF FillsOf
<1> QED
  BY <1>1, <1>4, <1>5

\* A histogram of g is the count or a coordinate of one of its groups.
LEMMA HistsOrigin ==
  ASSUME NEW g \in DOMAIN Groups, NEW h \in Range(HistsOf(g))
  PROVE  \E i \in DOMAIN Groups[g] :
            h = Groups[g][i].count \/ h \in Range(Groups[g][i].coords)
<1> PICK G : G = Groups[g]
  OBVIOUS
<1> PICK m \in Nat : DOMAIN G = 1 .. m /\ \A i \in 1 .. m : G[i] \in HistGroup
  BY GroupShape
<1> PICK counts : counts = [i \in DOMAIN G |-> G[i].count]
  OBVIOUS
<1> PICK coords : coords = [i \in DOMAIN G |-> G[i].coords]
  OBVIOUS
<1> PICK S : S = UNION {Range(coords[i]) : i \in 1 .. m}
  OBVIOUS
<1>1. \A i \in 1 .. m : G[i].count \in Names /\ G[i].coords \in Seq(Names)
  BY DEF HistGroup
<1>2. counts \in Seq(Names)
  BY <1>1
<1>3. \A i \in 1 .. m : coords[i] \in Seq(S)
  <2> TAKE i \in 1 .. m
  <2>1. coords[i] \in Seq(Names) /\ Range(coords[i]) \subseteq S
    BY <1>1
  <2> QED
    BY <2>1, SeqOver
<1>4. coords \in Seq(Seq(S))
  <2> PICK T : T = Seq(S)
    OBVIOUS
  <2>1. \A i \in 1 .. m : coords[i] \in T
    BY <1>3
  <2>2. coords = [i \in 1 .. m |-> coords[i]]
    OBVIOUS
  <2>3. coords \in Seq(T)
    BY ONLY <2>1, <2>2, m \in Nat
  <2> QED
    BY <2>3
<1> PICK joined : joined = FlattenSeq(coords)
  OBVIOUS
<1>5. joined \in Seq(S) /\ Range(joined) \subseteq S
  <2>1. joined \in Seq(S)
    BY ONLY <1>4, JoinOver, joined = FlattenSeq(coords)
  <2> QED
    BY <2>1, RangeOfSeq
<1> PICK S2 : S2 = Names \union S
  OBVIOUS
<1>6. counts \in Seq(S2) /\ joined \in Seq(S2)
  BY <1>2, <1>5, RangeOfSeq, SeqOver
<1>7. Range(HistsOf(g)) = Range(counts) \union Range(joined)
  <2>1. HistsOf(g) = counts \o joined
    BY DEF HistsOf
  <2>2. Range(counts \o joined) = Range(counts) \union Range(joined)
    BY ONLY <1>6, RangeConcatenation
  <2> QED
    BY <2>1, <2>2
<1>8. CASE h \in Range(counts)
  <2>1. PICK i \in 1 .. m : h = counts[i]
    BY <1>8 DEF Range
  <2> QED
    BY <2>1
<1>9. CASE h \in Range(joined)
  <2>1. PICK i \in 1 .. m : h \in Range(coords[i])
    BY <1>5, <1>9
  <2> QED
    BY <2>1
<1> QED
  BY <1>7, <1>8, <1>9

\* What a product of n elements fills.
LEMMA GroupFills ==
  ASSUME NEW G, NEW count, NEW coords, Named(G, count, coords), NEW n \in Nat, NEW h
  PROVE  /\ G.count = count /\ G.coords = coords
         /\ <<G.count>> \o FlattenSeq([k \in 1 .. n |-> G.coords]) \in Seq(Names)
         /\ Occurrences(<<G.count>> \o FlattenSeq([k \in 1 .. n |-> G.coords]), h) =
               IF h = count THEN 1 ELSE IF h \in Range(coords) THEN n ELSE 0
<1>1. G.count = count /\ G.coords = coords
  BY DEF Named, Group
<1>2. count \in Names /\ coords \in Seq(Names) /\ IsInjective(coords) /\ count \notin Range(coords)
  BY DEF Named
<1> PICK many : many = FlattenSeq([k \in 1 .. n |-> coords])
  OBVIOUS
<1>3. many \in Seq(Names) /\ Occurrences(many, h) = IF h \in Range(coords) THEN n ELSE 0
  BY ONLY <1>2, JoinRepeated, n \in Nat, many = FlattenSeq([k \in 1 .. n |-> coords])
<1>4. <<count>> \in Seq(Names) /\ IsInjective(<<count>>) /\ Range(<<count>>) = {count}
  BY <1>2 DEF IsInjective, Range
<1>5. Occurrences(<<count>>, h) = IF h = count THEN 1 ELSE 0
  BY <1>4, OccurrencesOnce
<1>6. /\ <<count>> \o many \in Seq(Names)
      /\ Occurrences(<<count>> \o many, h) = Occurrences(<<count>>, h) + Occurrences(many, h)
  <2> PICK one : one = <<count>>
    OBVIOUS
  <2>1. one \in Seq(Names) /\ many \in Seq(Names)
    BY <1>3, <1>4
  <2>2. /\ one \o many \in Seq(Names)
        /\ Occurrences(one \o many, h) = Occurrences(one, h) + Occurrences(many, h)
    BY ONLY <2>1, OccurrencesJoin
  <2> QED
    BY <2>2
<1>7. Occurrences(<<count>> \o many, h) =
         IF h = count THEN 1 ELSE IF h \in Range(coords) THEN n ELSE 0
  <2>1. CASE h = count
    BY <1>2, <1>3, <1>5, <1>6, <2>1
  <2>2. CASE h # count /\ h \in Range(coords)
    BY <1>3, <1>5, <1>6, <2>2
  <2>3. CASE h # count /\ h \notin Range(coords)
    BY <1>3, <1>5, <1>6, <2>3
  <2> QED
    BY <2>1, <2>2, <2>3
<1> QED
  BY <1>1, <1>6, <1>7

\* A call fills each histogram of its histogrammer as often as it contributes to it.
LEMMA FillsCounted ==
  ASSUME NEW c \in Calls, NEW h \in Range(HistsOf(TargetOf[c]))
  PROVE  Weight(c, h) \in Nat /\ Occurrences(FillsOf(c), h) = Weight(c, h)
<1> PICK g : g = TargetOf[c]
  OBVIOUS
<1> PICK groups : groups = Groups[g]
  OBVIOUS
<1> PICK sizes : sizes = Sizes[c]
  OBVIOUS
<1>1. g \in DOMAIN Groups /\ sizes \in [DOMAIN groups -> Nat]
  BY CallAssumption, GroupAssumption
<1> DEFINE Has(j) == h = groups[j].count \/ h \in Range(groups[j].coords)
           Fills(j) == <<groups[j].count>> \o FlattenSeq([n \in 1 .. sizes[j] |-> groups[j].coords])
<1>2. \E j \in DOMAIN groups : Has(j)
  BY <1>1, HistsOrigin
<1>3. ASSUME NEW j \in DOMAIN groups, \A k \in DOMAIN groups : Has(k) => k = j, Has(j)
      PROVE  Weight(c, h) = IF h = groups[j].count THEN 1 ELSE sizes[j]
  <2> PICK i : i = CHOOSE k \in DOMAIN groups : Has(k)
    OBVIOUS
  <2>1. i \in DOMAIN groups /\ Has(i)
    BY <1>2
  <2>2. i = j
    BY <1>3, <2>1
  <2>3. Weight(c, h) = IF h = groups[i].count THEN 1 ELSE sizes[i]
    BY DEF Weight
  <2> QED
    BY <2>2, <2>3
<1> PICK fills : fills = [i \in DOMAIN sizes |-> Fills(i)]
  OBVIOUS
<1>4. FillsOf(c) = FlattenSeq(fills)
  BY DEF FillsOf
<1>5. CASE \E G, count, coords : groups = <<G>> /\ Named(G, count, coords)
  <2>1. PICK G, count, coords : groups = <<G>> /\ Named(G, count, coords)
    BY <1>5
  <2>2. DOMAIN groups = {1} /\ groups[1] = G /\ sizes[1] \in Nat
    BY <1>1, <2>1
  <2>3. /\ G.count = count /\ G.coords = coords
        /\ Fills(1) \in Seq(Names)
        /\ Occurrences(Fills(1), h) =
              IF h = count THEN 1 ELSE IF h \in Range(coords) THEN sizes[1] ELSE 0
    <3> PICK n \in Nat : n = sizes[1]
      BY <2>2
    <3>1. Named(G, count, coords)
      BY <2>1
    <3>2. /\ G.count = count /\ G.coords = coords
          /\ <<G.count>> \o FlattenSeq([k \in 1 .. n |-> G.coords]) \in Seq(Names)
          /\ Occurrences(<<G.count>> \o FlattenSeq([k \in 1 .. n |-> G.coords]), h) =
                IF h = count THEN 1 ELSE IF h \in Range(coords) THEN n ELSE 0
      BY ONLY <3>1, n \in Nat, GroupFills
    <3>3. Fills(1) = <<G.count>> \o FlattenSeq([k \in 1 .. n |-> G.coords])
      BY <2>2
    <3> HIDE DEF Fills
    <3> QED
      BY <3>2, <3>3
  <2>4. Weight(c, h) = (IF h = count THEN 1 ELSE sizes[1]) /\ (h = count \/ h \in Range(coords))
    BY <1>2, <1>3, <2>2, <2>3
  <2> PICK a : a = Fills(1)
    OBVIOUS
  <2> HIDE DEF Fills, Has
  <2>5. fills = <<a>>
    <3>1. fills = [i \in {1} |-> a]
      BY <1>1, <2>2
    <3>2. {1} = 1 .. 1
      OBVIOUS
    <3> QED
      BY <3>1, <3>2
  <2>6. FlattenSeq(<<a>>) = a
    BY <2>3, JoinOne
  <2> QED
    BY <1>4, <2>2, <2>3, <2>4, <2>5, <2>6
<1>6. CASE ~\E G, count, coords : groups = <<G>> /\ Named(G, count, coords)
  <2>1. PICK G, count, coords, H, count2, coords2 :
               /\ groups = <<G, H>> /\ Named(G, count, coords) /\ Named(H, count2, coords2)
               /\ count # count2 /\ count \notin Range(coords2) /\ count2 \notin Range(coords)
               /\ Range(coords) \intersect Range(coords2) = {}
    BY <1>1, <1>6, GroupForms
  <2>2. /\ DOMAIN groups = {1, 2} /\ groups[1] = G /\ groups[2] = H
        /\ sizes[1] \in Nat /\ sizes[2] \in Nat
    BY <1>1, <2>1
  <2>3. /\ G.count = count /\ G.coords = coords
        /\ Fills(1) \in Seq(Names)
        /\ Occurrences(Fills(1), h) =
              IF h = count THEN 1 ELSE IF h \in Range(coords) THEN sizes[1] ELSE 0
    <3> PICK n \in Nat : n = sizes[1]
      BY <2>2
    <3>1. Named(G, count, coords)
      BY <2>1
    <3>2. /\ G.count = count /\ G.coords = coords
          /\ <<G.count>> \o FlattenSeq([k \in 1 .. n |-> G.coords]) \in Seq(Names)
          /\ Occurrences(<<G.count>> \o FlattenSeq([k \in 1 .. n |-> G.coords]), h) =
                IF h = count THEN 1 ELSE IF h \in Range(coords) THEN n ELSE 0
      BY ONLY <3>1, n \in Nat, GroupFills
    <3>3. Fills(1) = <<G.count>> \o FlattenSeq([k \in 1 .. n |-> G.coords])
      BY <2>2
    <3> HIDE DEF Fills
    <3> QED
      BY <3>2, <3>3
  <2>4. /\ H.count = count2 /\ H.coords = coords2
        /\ Fills(2) \in Seq(Names)
        /\ Occurrences(Fills(2), h) =
              IF h = count2 THEN 1 ELSE IF h \in Range(coords2) THEN sizes[2] ELSE 0
    <3> PICK n \in Nat : n = sizes[2]
      BY <2>2
    <3>1. Named(H, count2, coords2)
      BY <2>1
    <3>2. /\ H.count = count2 /\ H.coords = coords2
          /\ <<H.count>> \o FlattenSeq([k \in 1 .. n |-> H.coords]) \in Seq(Names)
          /\ Occurrences(<<H.count>> \o FlattenSeq([k \in 1 .. n |-> H.coords]), h) =
                IF h = count2 THEN 1 ELSE IF h \in Range(coords2) THEN n ELSE 0
      BY ONLY <3>1, n \in Nat, GroupFills
    <3>3. Fills(2) = <<H.count>> \o FlattenSeq([k \in 1 .. n |-> H.coords])
      BY <2>2
    <3> HIDE DEF Fills
    <3> QED
      BY <3>2, <3>3
  <2>5. /\ Has(1) <=> h = count \/ h \in Range(coords)
        /\ Has(2) <=> h = count2 \/ h \in Range(coords2)
    BY <2>2, <2>3, <2>4
  <2> PICK a : a = Fills(1)
    OBVIOUS
  <2> PICK b : b = Fills(2)
    OBVIOUS
  <2> HIDE DEF Fills, Has
  <2>6. fills = <<a, b>>
    <3>1. fills = [i \in {1, 2} |-> IF i = 1 THEN a ELSE b]
      BY <1>1, <2>2
    <3>2. {1, 2} = 1 .. 2
      OBVIOUS
    <3> QED
      BY <3>1, <3>2
  <2>7. FlattenSeq(<<a, b>>) = a \o b
    BY <2>3, <2>4, JoinTwo
  <2>8. Occurrences(a \o b, h) = Occurrences(a, h) + Occurrences(b, h)
    BY <2>3, <2>4, OccurrencesJoin
  <2>9. CASE Has(1)
    <3>1. ~Has(2)
      BY <2>1, <2>5, <2>9
    <3>2. Weight(c, h) = IF h = count THEN 1 ELSE sizes[1]
      BY <1>3, <2>2, <2>3, <2>9, <3>1
    <3>3. Occurrences(a, h) = Weight(c, h) /\ Occurrences(b, h) = 0
      BY <2>3, <2>4, <2>5, <2>9, <3>1, <3>2
    <3>4. Weight(c, h) \in Nat
      BY <2>2, <3>2
    <3>5. Occurrences(a \o b, h) = Weight(c, h)
      BY <2>8, <3>3, <3>4
    <3> QED
      BY ONLY <1>4, <2>6, <2>7, <3>4, <3>5
  <2>10. CASE ~Has(1)
    <3>1. Has(2)
      BY <1>2, <2>2, <2>10
    <3>2. Weight(c, h) = IF h = count2 THEN 1 ELSE sizes[2]
      BY <1>3, <2>2, <2>4, <2>10, <3>1
    <3>3. Occurrences(a, h) = 0 /\ Occurrences(b, h) = Weight(c, h)
      BY <2>3, <2>4, <2>5, <2>10, <3>1, <3>2
    <3>4. Weight(c, h) \in Nat
      BY <2>2, <3>2
    <3>5. Occurrences(a \o b, h) = Weight(c, h)
      BY <2>8, <3>3, <3>4
    <3> QED
      BY ONLY <1>4, <2>6, <2>7, <3>4, <3>5
  <2> QED
    BY <2>9, <2>10
<1> QED
  BY <1>5, <1>6

-------------------------------------------------------------------------------
(* Filling. *)

FillTypeOK ==
    /\ pending \subseteq Calls
    /\ cur \in [Threads -> Calls \union {NoCall}]
    /\ todo \in [Threads -> Seq(Hists)]
    /\ contexts \in [Threads -> SUBSET Hists]

\* As long as the job starts calls, a thread that has the first context of a
\* histogrammer has all of them: a set is left half-made only by an exception,
\* which is the end of the job.
ContextsAreWhole ==
    pending # {} =>
        \A t \in Threads, g \in Histogrammers :
            HistsOf(g)[1] \in contexts[t] => Range(HistsOf(g)) \subseteq contexts[t]

\* What is still to be filled belongs to a running call.
FillInv ==
    /\ FillTypeOK
    /\ ContextsAreWhole
    /\ \A t \in Threads : cur[t] = NoCall => todo[t] = <<>>
    /\ FillsHaveContexts

LEMMA FillInit == Init => FillInv
<1> SUFFICES ASSUME Init PROVE FillInv
  OBVIOUS
<1>1. FillTypeOK
  BY DEF Init, FillTypeOK
<1>2. ContextsAreWhole
  <2> SUFFICES ASSUME NEW t \in Threads, NEW g \in Histogrammers
               PROVE  ~(HistsOf(g)[1] \in contexts[t])
    BY DEF ContextsAreWhole
  <2> QED
    BY DEF Init
<1>3. FillsHaveContexts
  BY EmptyRange DEF FillsHaveContexts, Init
<1> QED
  BY <1>1, <1>2, <1>3 DEF FillInv, Init

\* A call that starts has every context that it fills through.
LEMMA StartKeepsContexts ==
  ASSUME FillInv, NEW t \in Threads, NEW c \in Calls, StartObserve(t, c)
  PROVE  FillInv'
<1> PICK g : g = TargetOf[c]
  OBVIOUS
<1> PICK mine : mine = Range(HistsOf(g))
  OBVIOUS
<1> PICK fills : fills = FillsOf(c)
  OBVIOUS
<1>1. g \in Histogrammers /\ fills \in Seq(mine)
  BY FillsOwned
<1>2. mine \subseteq Hists
  BY <1>1, HistsOwned
<1>3. Range(fills) \subseteq mine
  BY <1>1, RangeOfSeq
<1>4. c \in pending
  BY DEF StartObserve, CanObserve
<1>5. /\ Range(Needed(t, g)) \subseteq mine
      /\ mine \subseteq contexts[t] \union Range(Needed(t, g))
  <2>1. CASE HistsOf(g)[1] \in contexts[t]
    <3>1. Range(Needed(t, g)) = {}
      BY <2>1, EmptyRange DEF Needed
    <3>2. mine \subseteq contexts[t]
      BY <1>1, <1>4, <2>1 DEF FillInv, ContextsAreWhole
    <3> QED
      BY <3>1, <3>2
  <2>2. CASE HistsOf(g)[1] \notin contexts[t]
    BY <2>2 DEF Needed
  <2> QED
    BY <2>1, <2>2
<1>6. /\ pending' = pending \ {c}
      /\ cur' = [cur EXCEPT ![t] = c]
      /\ todo' = [todo EXCEPT ![t] = fills]
      /\ contexts' = [contexts EXCEPT ![t] = @ \union Range(Needed(t, g))]
  BY DEF StartObserve
<1>7. FillTypeOK'
  <2>1. fills \in Seq(Hists)
    BY <1>1, <1>2, <1>3, SeqOver
  <2> QED
    BY <1>2, <1>5, <1>6, <2>1 DEF FillInv, FillTypeOK
<1>8. contexts'[t] = contexts[t] \union mine
  BY <1>5, <1>6 DEF FillInv, FillTypeOK
<1>9. \A u \in Threads \ {t} : contexts'[u] = contexts[u]
  BY <1>6 DEF FillInv, FillTypeOK
<1>10. ContextsAreWhole'
  <2> SUFFICES ASSUME NEW u \in Threads, NEW h \in Histogrammers,
                      HistsOf(h)[1] \in contexts'[u]
               PROVE  Range(HistsOf(h)) \subseteq contexts'[u]
    BY DEF ContextsAreWhole
  <2>1. CASE u # t \/ HistsOf(h)[1] \in contexts[u]
    <3>1. HistsOf(h)[1] \in contexts[u]
      BY <1>9, <2>1
    <3>2. Range(HistsOf(h)) \subseteq contexts[u]
      BY <3>1, <1>4 DEF FillInv, ContextsAreWhole
    <3> QED
      BY <3>2, <1>8, <1>9
  <2>2. CASE u = t /\ HistsOf(h)[1] \notin contexts[u]
    <3>1. HistsOf(h)[1] \in mine /\ HistsOf(h)[1] \in Range(HistsOf(h))
      BY <1>8, <2>2, HistsOwned
    <3>2. h = g
      BY <1>1, <3>1, HistsOwned
    <3> QED
      BY <3>2, <1>8, <2>2
  <2> QED
    BY <2>1, <2>2
<1>11. \A u \in Threads : cur'[u] = NoCall => todo'[u] = <<>>
  BY <1>6, NullAssumption DEF FillInv, FillTypeOK
<1>12. FillsHaveContexts'
  <2> SUFFICES ASSUME NEW u \in Threads PROVE Range(todo'[u]) \subseteq contexts'[u]
    BY DEF FillsHaveContexts
  <2>1. CASE u = t
    <3>1. todo'[t] = fills
      BY <1>6 DEF FillInv, FillTypeOK
    <3> QED
      BY <3>1, <2>1, <1>3, <1>8
  <2>2. CASE u # t
    <3>1. todo'[u] = todo[u]
      BY <1>6, <2>2 DEF FillInv, FillTypeOK
    <3> QED
      BY <3>1, <2>2, <1>9 DEF FillInv, FillsHaveContexts
  <2> QED
    BY <2>1, <2>2
<1> QED
  BY <1>7, <1>10, <1>11, <1>12 DEF FillInv

\* Contexts are only added while calls run, and go when all have returned.
LEMMA FillStep == FillInv /\ [Next]_vars => FillInv'
<1> SUFFICES ASSUME FillInv, [Next]_vars PROVE FillInv'
  OBVIOUS
<1>1. ASSUME NEW t \in Threads, NEW c \in Calls, StartObserve(t, c) PROVE FillInv'
  BY <1>1, StartKeepsContexts
<1>2. ASSUME NEW t \in Threads, NEW c \in Calls, StartObserveFails(t, c) PROVE FillInv'
  <2> PICK need : need = Needed(t, TargetOf[c])
    OBVIOUS
  <2>1. PICK n \in 0 .. (Len(need) - 1) :
          contexts' = [contexts EXCEPT ![t] = @ \union Range(SubSeq(need, 1, n))]
    BY <1>2 DEF StartObserveFails
  <2>2. need \in Seq(Hists)
    BY FillsOwned, HistsOwned DEF Needed
  <2>3. Range(SubSeq(need, 1, n)) \subseteq Hists
    <3> PICK s : s = SubSeq(need, 1, n)
      OBVIOUS
    <3>1. s \in Seq(Hists)
      BY <2>2
    <3> QED
      BY <3>1, RangeOfSeq
  <2>4. pending' = {} /\ UNCHANGED <<cur, todo>>
    BY <1>2 DEF StartObserveFails
  <2>5. \A u \in Threads : contexts[u] \subseteq contexts'[u] /\ contexts'[u] \subseteq Hists
    BY <2>1, <2>3 DEF FillInv, FillTypeOK
  <2>6. contexts' \in [Threads -> SUBSET Hists]
    BY <2>1, <2>3 DEF FillInv, FillTypeOK
  <2> QED
    BY <2>4, <2>5, <2>6
       DEF FillInv, FillTypeOK, ContextsAreWhole, FillsHaveContexts
<1>3. ASSUME NEW t \in Threads, FillHist(t) PROVE FillInv'
  <2>1. /\ todo[t] # <<>>
        /\ todo' = [todo EXCEPT ![t] = Tail(@)]
        /\ UNCHANGED <<pending, cur, contexts>>
    BY <1>3 DEF FillHist
  <2> PICK s : s = todo[t]
    OBVIOUS
  <2>2. s \in Seq(Hists) /\ s # <<>>
    BY <2>1 DEF FillInv, FillTypeOK
  <2>3. Tail(s) \in Seq(Hists) /\ Range(Tail(s)) \subseteq Range(s)
    BY <2>2, TailRange
  <2>4. todo' \in [Threads -> Seq(Hists)] /\ todo'[t] = Tail(s)
        /\ \A u \in Threads \ {t} : todo'[u] = todo[u]
    BY <2>1, <2>3 DEF FillInv, FillTypeOK
  <2>5. FillTypeOK' /\ ContextsAreWhole'
    BY <2>1, <2>4 DEF FillInv, FillTypeOK, ContextsAreWhole
  <2>6. \A u \in Threads : cur'[u] = NoCall => todo'[u] = <<>>
    BY <2>1, <2>4 DEF FillInv
  <2>7. FillsHaveContexts'
    BY <2>1, <2>3, <2>4 DEF FillInv, FillsHaveContexts
  <2> QED
    BY <2>5, <2>6, <2>7 DEF FillInv
<1>4. ASSUME NEW t \in Threads, EndObserve(t) PROVE FillInv'
  BY <1>4 DEF EndObserve, FillInv, FillTypeOK, ContextsAreWhole, FillsHaveContexts
<1>5. CASE AbortJob
  BY <1>5 DEF AbortJob, FillInv, FillTypeOK, ContextsAreWhole, FillsHaveContexts
<1>6. ASSUME NEW g \in Histogrammers, BeginDestructor(g) PROVE FillInv'
  <2>1. /\ pending = {} /\ \A t \in Threads : cur[t] = NoCall
        /\ contexts' = [t \in Threads |-> contexts[t] \ Range(HistsOf(g))]
        /\ UNCHANGED <<pending, cur, todo>>
    BY <1>6 DEF BeginDestructor, Quiescent
  <2>2. FillTypeOK' /\ ContextsAreWhole'
    BY <2>1 DEF FillInv, FillTypeOK, ContextsAreWhole
  <2>3. FillsHaveContexts'
    BY <2>1, EmptyRange DEF FillInv, FillsHaveContexts
  <2> QED
    BY <2>1, <2>2, <2>3 DEF FillInv
<1>7. CASE UNCHANGED filling
  BY <1>7 DEF filling, FillInv, FillTypeOK, ContextsAreWhole, FillsHaveContexts
<1>8. CASE Put \/ PutFails \/ EndDestructor \/ UNCHANGED vars
  BY <1>7, <1>8 DEF Put, PutFails, EndDestructor, vars, filling
<1> QED
  BY <1>1, <1>2, <1>3, <1>4, <1>5, <1>6, <1>8 DEF Next, MainStep, ThreadStep, Finished

THEOREM FillCorrect == Spec => []FillInv
  BY FillInit, FillStep, PTL DEF Spec

\* No call fills through a context that its thread does not have
\* (rec_output_module's histogrammers test the first context only).
THEOREM ContextsAreThere == Spec => []FillsHaveContexts
<1>1. FillInv => FillsHaveContexts
  BY DEF FillInv
<1> QED
  BY <1>1, FillCorrect, PTL

-------------------------------------------------------------------------------
(* The end of the job. *)

EndTypeOK ==
    /\ alive \subseteq Histogrammers
    /\ dying \in alive \union {NoHistogrammer}
    /\ puts \in Seq(Hists)
    /\ DOMAIN file \subseteq Hists
    /\ open = (alive # {})
    /\ faults \subseteq Hists

\* The histograms that are still to be put: the rest of the histogrammer that is
\* being destroyed, and all of those that wait for it.
Left == Range(puts) \union UNION {Range(HistsOf(g)) : g \in alive \ {dying}}

\* What is neither in the file nor to be put has failed.
EndInv ==
    /\ EndTypeOK
    /\ dying = NoHistogrammer => puts = <<>>
    /\ IsInjective(puts)
    /\ dying # NoHistogrammer => Range(puts) \subseteq Range(HistsOf(dying))
    /\ DOMAIN file \intersect Left = {}
    /\ Hists \ (DOMAIN file \union Left) = faults

LEMMA EndInit == Init => EndInv
<1> SUFFICES ASSUME Init PROVE EndInv
  OBVIOUS
<1>1. puts = <<>> /\ DOMAIN file = {} /\ alive = Histogrammers /\ dying = NoHistogrammer
      /\ open = TRUE /\ faults = {}
  BY DEF Init
<1>2. Left = Hists
  BY <1>1, EmptyRange, HistsOwned, NullAssumption DEF Left
<1>3. Hists \ (DOMAIN file \union Left) = {}
  BY <1>2
<1>4. EndTypeOK
  <2>1. open = (alive # {})
    BY <1>1, GroupAssumption
  <2>2. puts \in Seq(Hists) /\ DOMAIN file \subseteq Hists /\ faults \subseteq Hists
    BY <1>1
  <2> QED
    BY <1>1, <2>1, <2>2 DEF EndTypeOK
<1> QED
  BY <1>1, <1>3, <1>4, EmptyRange DEF EndInv

LEMMA EndStep == EndInv /\ [Next]_vars => EndInv'
<1> SUFFICES ASSUME EndInv, [Next]_vars PROVE EndInv'
  OBVIOUS
<1>1. CASE UNCHANGED ending
  <2>1. Left' = Left
    BY <1>1 DEF Left, ending
  <2> QED
    BY <1>1, <2>1 DEF EndInv, EndTypeOK, ending
<1>2. ASSUME NEW g \in Histogrammers, BeginDestructor(g) PROVE EndInv'
  <2>1. /\ g \in alive /\ dying = NoHistogrammer /\ dying' = g /\ puts' = HistsOf(g)
        /\ UNCHANGED <<alive, file, open, faults>>
    BY <1>2 DEF BeginDestructor
  <2>2. puts = <<>> /\ NoHistogrammer \notin alive
    BY <2>1, NullAssumption DEF EndInv, EndTypeOK
  <2>3. Left' = Left
    <3>1. Left = UNION {Range(HistsOf(h)) : h \in alive}
      BY <2>1, <2>2, EmptyRange DEF Left
    <3>2. Left' = Range(HistsOf(g)) \union UNION {Range(HistsOf(h)) : h \in alive \ {g}}
      BY <2>1 DEF Left
    <3> QED
      BY <2>1, <3>1, <3>2
  <2>4. EndTypeOK'
    BY <2>1, HistsOwned DEF EndInv, EndTypeOK
  <2> QED
    BY <2>1, <2>3, <2>4, HistsOwned, NullAssumption DEF EndInv
<1>3. ASSUME puts # <<>>
      PROVE  /\ dying \in alive /\ open
             /\ Head(puts) \in Hists /\ Tail(puts) \in Seq(Hists) /\ IsInjective(Tail(puts))
             /\ Range(Tail(puts)) \subseteq Range(HistsOf(dying))
             /\ Head(puts) \in Left
             /\ puts' = Tail(puts) /\ UNCHANGED <<alive, dying>> => Left' = Left \ {Head(puts)}
  <2> PICK s : s = puts
    OBVIOUS
  <2> PICK r : r = Tail(s)
    OBVIOUS
  <2> PICK h : h = Head(s)
    OBVIOUS
  <2>1. /\ dying \in alive /\ open /\ s \in Seq(Hists)
        /\ Range(s) \subseteq Range(HistsOf(dying))
        /\ alive \subseteq Histogrammers
    BY <1>3, NullAssumption DEF EndInv, EndTypeOK
  <2>2. /\ h \in Hists /\ r \in Seq(Hists) /\ Range(s) = {h} \union Range(r)
        /\ IsInjective(r) /\ h \notin Range(r)
    BY <1>3, <2>1, TailRange DEF EndInv
  <2>3. \A g \in alive \ {dying} : h \notin Range(HistsOf(g))
    BY <2>1, <2>2, HistsOwned
  <2>4. ASSUME puts' = Tail(puts), UNCHANGED <<alive, dying>> PROVE Left' = Left \ {h}
    <3>1. Left' = Range(r) \union UNION {Range(HistsOf(g)) : g \in alive \ {dying}}
      BY <2>4 DEF Left
    <3>2. Left = ({h} \union Range(r)) \union UNION {Range(HistsOf(g)) : g \in alive \ {dying}}
      BY <2>2 DEF Left
    <3> QED
      BY <2>2, <2>3, <3>1, <3>2
  <2> QED
    BY <2>1, <2>2, <2>4 DEF Left
<1>4. CASE Put
  <2> PICK h : h = Head(puts)
    OBVIOUS
  <2>1. /\ puts # <<>> /\ puts' = Tail(puts) /\ UNCHANGED <<alive, dying, open, faults>>
        /\ DOMAIN file' = DOMAIN file \union {h}
    BY <1>3, <1>4 DEF Put
  <2>2. Left' = Left \ {h} /\ h \in Left /\ h \in Hists
    BY <1>3, <2>1
  <2>3. DOMAIN file' \union Left' = DOMAIN file \union Left
    BY <2>1, <2>2
  <2>4. DOMAIN file' \intersect Left' = {}
    BY <2>1, <2>2 DEF EndInv
  <2>5. EndTypeOK'
    BY <1>3, <2>1, <2>2 DEF EndInv, EndTypeOK
  <2>6. dying' # NoHistogrammer /\ IsInjective(puts')
        /\ Range(puts') \subseteq Range(HistsOf(dying'))
    BY <1>3, <2>1, NullAssumption DEF EndInv, EndTypeOK
  <2> QED
    BY <2>1, <2>3, <2>4, <2>5, <2>6 DEF EndInv
<1>5. CASE PutFails
  <2> PICK h : h = Head(puts)
    OBVIOUS
  <2>1. /\ puts # <<>> /\ puts' = Tail(puts) /\ UNCHANGED <<alive, dying, file, open>>
        /\ faults' = faults \union {h}
    BY <1>5 DEF PutFails
  <2>2. Left' = Left \ {h} /\ h \in Left /\ h \in Hists
    BY <1>3, <2>1
  <2>3. h \notin DOMAIN file
    BY <2>2 DEF EndInv
  <2>4. Hists \ (DOMAIN file' \union Left') = (Hists \ (DOMAIN file \union Left)) \union {h}
    BY <2>1, <2>2, <2>3
  <2>6. Hists \ (DOMAIN file' \union Left') = faults'
    BY <2>1, <2>4 DEF EndInv
  <2>7. EndTypeOK'
    BY <1>3, <2>1, <2>2 DEF EndInv, EndTypeOK
  <2>8. dying' # NoHistogrammer /\ IsInjective(puts')
        /\ Range(puts') \subseteq Range(HistsOf(dying'))
    BY <1>3, <2>1, NullAssumption DEF EndInv, EndTypeOK
  <2>9. DOMAIN file' \intersect Left' = {}
    BY <2>1, <2>2 DEF EndInv
  <2> QED
    BY <2>1, <2>6, <2>7, <2>8, <2>9 DEF EndInv
<1>6. CASE EndDestructor
  <2>1. /\ dying # NoHistogrammer /\ puts = <<>> /\ alive' = alive \ {dying}
        /\ dying' = NoHistogrammer /\ open' = (alive' # {})
        /\ UNCHANGED <<puts, file, faults>>
    BY <1>6 DEF EndDestructor
  <2>2. NoHistogrammer \notin alive
    BY NullAssumption DEF EndInv, EndTypeOK
  <2>3. Left' = Left
    <3>1. alive' \ {dying'} = alive \ {dying}
      BY <2>1, <2>2
    <3> QED
      BY <2>1, <3>1 DEF Left
  <2>4. EndTypeOK'
    BY <2>1 DEF EndInv, EndTypeOK
  <2> QED
    BY <2>1, <2>3, <2>4 DEF EndInv
<1>7. ASSUME NEW t \in Threads, ThreadStep(t) PROVE UNCHANGED ending
  BY <1>7 DEF ThreadStep, StartObserve, StartObserveFails, FillHist, EndObserve
<1>8. CASE AbortJob \/ Finished \/ UNCHANGED vars
  BY <1>1, <1>8 DEF AbortJob, Finished, vars
<1> QED
  BY <1>1, <1>2, <1>4, <1>5, <1>6, <1>7, <1>8 DEF Next, MainStep

THEOREM EndCorrect == Spec => []EndInv
  BY EndInit, EndStep, PTL DEF Spec

\* Whichever histogrammer goes last, the closed file misses just those
\* histograms whose own put failed (the destructors of the histogrammers and
\* HistoFileService).
THEOREM FileMissesFaultsOnly == Spec => []ClosedFileIsComplete
<1>1. EndInv => ClosedFileIsComplete
  <2> SUFFICES ASSUME EndInv, ~open PROVE Hists \ DOMAIN file = faults
    BY DEF ClosedFileIsComplete
  <2>1. alive = {} /\ dying = NoHistogrammer /\ puts = <<>>
    BY DEF EndInv, EndTypeOK
  <2>2. Left = {}
    BY <2>1, EmptyRange DEF Left
  <2> QED
    BY <2>2 DEF EndInv
<1> QED
  BY <1>1, EndCorrect, PTL

-------------------------------------------------------------------------------
(* Counting. *)

\* The histograms of the histogrammers that still wait to be destroyed.
Waiting == UNION {Range(HistsOf(g)) : g \in alive \ {dying}}

TearingDown == alive # Histogrammers \/ dying # NoHistogrammer

\* A call is waiting, run by one thread, or completed; none is when the job is
\* torn down.  What a thread has still to fill is its call's.
CallInv ==
    /\ completed \subseteq Calls /\ completed \intersect pending = {}
    /\ \A t \in Threads : cur[t] # NoCall =>
          /\ cur[t] \notin pending \union completed
          /\ \A u \in Threads : cur[u] = cur[t] => u = t
          /\ todo[t] \in Seq(Range(HistsOf(TargetOf[cur[t]])))
    /\ TearingDown => pending = {} /\ \A t \in Threads : cur[t] = NoCall

\* Statistics wait in contexts that exist, of histogrammers not yet destroyed.
ContextInv ==
    /\ bins \in [Hists -> Int] /\ entries \in [Hists -> Int]
    /\ buffered \in [Threads -> [Hists -> Int]]
    /\ \A t \in Threads, h \in Hists :
          h \notin contexts[t] \/ h \notin Waiting => buffered[t][h] = 0

\* What the call of thread t has filled into h so far.
FilledBy(t, h) ==
    IF cur[t] # NoCall /\ h \in Range(HistsOf(TargetOf[cur[t]]))
    THEN Weight(cur[t], h) - Occurrences(todo[t], h)
    ELSE 0

\* The calls that filled h, all of it.
CompletedOf(h) == {c \in completed : h \in Range(HistsOf(TargetOf[c]))}
Weights(h) == [c \in Calls |-> Weight(c, h)]

Filled(h) == [t \in Threads |-> FilledBy(t, h)]
BufferedFor(h) == [t \in Threads |-> buffered[t][h]]

\* The bins count the completed calls and what the running ones have filled; the
\* same number is in the statistics, of the histogram or of the contexts.
BinsCount ==
    \A h \in Hists : bins[h] = Sum(Weights(h), CompletedOf(h)) + Sum(Filled(h), Threads)
EntriesCount ==
    \A h \in Hists : bins[h] = entries[h] + Sum(BufferedFor(h), Threads)

\* What was put into the file is what the histogram holds.
FileInv == \A h \in DOMAIN file : file[h] = [bins |-> bins[h], entries |-> entries[h]]

CountInv == FillInv /\ EndInv /\ CallInv /\ ContextInv /\ BinsCount /\ EntriesCount /\ FileInv

\* The sums of the model are sums over functions.
LEMMA ExpectedIsSum ==
  ASSUME completed \subseteq Calls, NEW h
  PROVE  Expected(h) = Sum(Weights(h), CompletedOf(h))
<1> PICK S : S = CompletedOf(h)
  OBVIOUS
<1> PICK f : f = Weights(h)
  OBVIOUS
<1> DEFINE Body(g) == [s \in SUBSET S |->
              IF s = {} THEN 0
              ELSE Weight(CHOOSE c \in s : TRUE, h) + g[s \ {CHOOSE c \in s : TRUE}]]
<1>1. IsFiniteSet(S) /\ S \subseteq Calls
  BY CallAssumption, FS_Subset DEF CompletedOf
<1>2. ASSUME NEW g PROVE Sums(g, f, S) <=> g = Body(g)
  <2>1. \A s \in SUBSET S : s # {} => f[Pick(s)] = Weight(CHOOSE c \in s : TRUE, h)
    BY <1>1 DEF Weights, Pick
  <2>2. [s \in SUBSET S |-> IF s = {} THEN 0 ELSE f[Pick(s)] + g[s \ {Pick(s)}]] = Body(g)
    BY <2>1 DEF Pick
  <2> HIDE DEF Body
  <2> QED
    BY <2>2 DEF Sums
<1>3. Expected(h) = (CHOOSE g : g = Body(g))[S]
  BY DEF Expected, CompletedOf, MapThenSumSet, MapThenFoldSet
<1> PICK m : m = CHOOSE g : g = Body(g)
  OBVIOUS
<1> HIDE DEF Body
<1>4. Sums(m, f, S)
  <2>1. \E g : Sums(g, f, S)
    BY <1>1, SumsExist
  <2> QED
    BY <2>1, <1>2
<1>5. Sums(CHOOSE g : Sums(g, f, S), f, S)
  BY <1>1, SumsExist
<1>6. m[S] = (CHOOSE g : Sums(g, f, S))[S]
  BY ONLY <1>1, <1>4, <1>5, SumsSame
<1> QED
  BY <1>3, <1>6 DEF Sum

LEMMA ContextsSum ==
  ASSUME NEW h, NEW S \in SUBSET Threads
  PROVE  MapThenSumSet(LAMBDA t : buffered[t][h], S) = Sum(BufferedFor(h), S)
<1> PICK f : f = BufferedFor(h)
  OBVIOUS
<1> DEFINE Body(g) == [s \in SUBSET S |->
              IF s = {} THEN 0
              ELSE buffered[CHOOSE t \in s : TRUE][h] + g[s \ {CHOOSE t \in s : TRUE}]]
<1>1. IsFiniteSet(S)
  BY CallAssumption, FS_Subset
<1>2. ASSUME NEW g PROVE Sums(g, f, S) <=> g = Body(g)
  <2>1. \A s \in SUBSET S : s # {} => f[Pick(s)] = buffered[CHOOSE t \in s : TRUE][h]
    BY DEF BufferedFor, Pick
  <2>2. [s \in SUBSET S |-> IF s = {} THEN 0 ELSE f[Pick(s)] + g[s \ {Pick(s)}]] = Body(g)
    BY <2>1 DEF Pick
  <2> HIDE DEF Body
  <2> QED
    BY <2>2 DEF Sums
<1>3. MapThenSumSet(LAMBDA t : buffered[t][h], S) = (CHOOSE g : g = Body(g))[S]
  BY DEF MapThenSumSet, MapThenFoldSet
<1> PICK m : m = CHOOSE g : g = Body(g)
  OBVIOUS
<1> HIDE DEF Body
<1>4. Sums(m, f, S)
  <2>1. \E g : Sums(g, f, S)
    BY <1>1, SumsExist
  <2> QED
    BY <2>1, <1>2
<1>5. Sums(CHOOSE g : Sums(g, f, S), f, S)
  BY <1>1, SumsExist
<1>6. m[S] = (CHOOSE g : Sums(g, f, S))[S]
  BY ONLY <1>1, <1>4, <1>5, SumsSame
<1> QED
  BY <1>3, <1>6 DEF Sum

\* All that is summed are numbers.
LEMMA SumsTyped ==
  ASSUME CountInv, NEW h \in Hists
  PROVE  /\ IsFiniteSet(Threads) /\ IsFiniteSet(CompletedOf(h))
         /\ \A t \in Threads : Filled(h)[t] \in Int /\ BufferedFor(h)[t] \in Int
         /\ \A c \in CompletedOf(h) : Weights(h)[c] \in Int
         /\ Sum(Filled(h), Threads) \in Int /\ Sum(BufferedFor(h), Threads) \in Int
         /\ Sum(Weights(h), CompletedOf(h)) \in Int
<1>1. IsFiniteSet(Threads) /\ IsFiniteSet(CompletedOf(h))
  BY CallAssumption, FS_Subset DEF CompletedOf, CountInv, CallInv
<1>2. ASSUME NEW t \in Threads PROVE Filled(h)[t] \in Int /\ BufferedFor(h)[t] \in Int
  <2>1. BufferedFor(h)[t] \in Int
    BY DEF BufferedFor, CountInv, ContextInv
  <2>2. Filled(h)[t] = FilledBy(t, h)
    BY DEF Filled
  <2>3. CASE cur[t] # NoCall /\ h \in Range(HistsOf(TargetOf[cur[t]]))
    <3>1. cur[t] \in Calls /\ todo[t] \in Seq(Hists)
      BY <2>3 DEF CountInv, FillInv, FillTypeOK
    <3>2. Weight(cur[t], h) \in Nat
      BY <2>3, <3>1, FillsCounted
    <3>3. Occurrences(todo[t], h) \in Nat
      BY <3>1, OccurrencesJoin
    <3> QED
      BY <2>1, <2>2, <2>3, <3>2, <3>3 DEF FilledBy
  <2>4. CASE ~(cur[t] # NoCall /\ h \in Range(HistsOf(TargetOf[cur[t]])))
    BY <2>1, <2>2, <2>4 DEF FilledBy
  <2> QED
    BY <2>3, <2>4
<1>3. ASSUME NEW c \in CompletedOf(h) PROVE Weights(h)[c] \in Int
  <2>1. c \in Calls /\ h \in Range(HistsOf(TargetOf[c]))
    BY DEF CompletedOf, CountInv, CallInv
  <2>2. Weight(c, h) \in Nat
    BY <2>1, FillsCounted
  <2> QED
    BY <2>1, <2>2 DEF Weights
<1> PICK filled : filled = Filled(h)
  OBVIOUS
<1> PICK wait : wait = BufferedFor(h)
  OBVIOUS
<1> PICK weights : weights = Weights(h)
  OBVIOUS
<1> PICK D : D = CompletedOf(h)
  OBVIOUS
<1>4. Sum(filled, Threads) \in Int /\ Sum(wait, Threads) \in Int /\ Sum(weights, D) \in Int
  <2>1. \A t \in Threads : filled[t] \in Int /\ wait[t] \in Int
    BY <1>2
  <2>2. \A c \in D : weights[c] \in Int
    BY <1>3
  <2> QED
    BY <1>1, <2>1, <2>2, SumTake
<1> QED
  BY <1>1, <1>2, <1>3, <1>4

\* A sum of zeroes.
LEMMA SumZero ==
  ASSUME NEW S, IsFiniteSet(S), NEW f, \A x \in S : f[x] = 0
  PROVE  Sum(f, S) = 0
<1> PICK T : T = {}
  OBVIOUS
<1>1. Sum(f, S) = Sum(f, T)
  BY SumPart
<1>2. Sum(f, T) = 0
  BY FS_EmptySet, SumTake
<1> QED
  BY <1>1, <1>2

LEMMA CountInit == Init => CountInv
<1> SUFFICES ASSUME Init PROVE CountInv
  OBVIOUS
<1>1. FillInv /\ EndInv
  BY FillInit, EndInit
<1>2. CallInv
  BY DEF Init, CallInv, TearingDown
<1>3. ContextInv
  BY DEF Init, ContextInv
<1>4. ASSUME NEW h \in Hists
      PROVE  /\ Sum(Weights(h), CompletedOf(h)) = 0
             /\ Sum(Filled(h), Threads) = 0 /\ Sum(BufferedFor(h), Threads) = 0
  <2>1. IsFiniteSet(Threads) /\ CompletedOf(h) = {} /\ IsFiniteSet(CompletedOf(h))
    BY CallAssumption, FS_EmptySet DEF Init, CompletedOf
  <2>2. \A t \in Threads : Filled(h)[t] = 0 /\ BufferedFor(h)[t] = 0
    BY DEF Init, Filled, FilledBy, BufferedFor
  <2> QED
    BY <2>1, <2>2, SumZero
<1>5. BinsCount /\ EntriesCount /\ FileInv
  BY <1>4 DEF Init, BinsCount, EntriesCount, FileInv
<1> QED
  BY <1>1, <1>2, <1>3, <1>5 DEF CountInv

\* As long as the same is filled the bins are right.
LEMMA BinsKept ==
  ASSUME CountInv, completed' = completed, bins' = bins,
         \A h \in Hists, t \in Threads : FilledBy(t, h)' = FilledBy(t, h)
  PROVE  BinsCount'
<1> SUFFICES ASSUME NEW h \in Hists
             PROVE  bins'[h] = Sum(Weights(h), CompletedOf(h))' + Sum(Filled(h), Threads)'
  BY DEF BinsCount
<1>1. CompletedOf(h)' = CompletedOf(h) /\ Weights(h)' = Weights(h)
  BY DEF CompletedOf, Weights
<1>2. Filled(h)' = Filled(h)
  BY DEF Filled
<1> QED
  BY <1>1, <1>2 DEF CountInv, BinsCount

\* A call starts: none of it is filled.
LEMMA StartKeepsCount ==
  ASSUME CountInv, NEW t \in Threads, NEW c \in Calls, StartObserve(t, c), FillInv', EndInv'
  PROVE  CountInv'
<1> PICK fills : fills = FillsOf(c)
  OBVIOUS
<1>1. /\ c \in pending /\ cur[t] = NoCall /\ ~TearingDown
      /\ pending' = pending \ {c}
      /\ cur' = [cur EXCEPT ![t] = c]
      /\ todo' = [todo EXCEPT ![t] = fills]
      /\ UNCHANGED <<completed, bins, buffered, entries, alive, dying, file>>
  BY DEF StartObserve, CanObserve, TearingDown, ending
<1>2. /\ cur'[t] = c /\ todo'[t] = fills
      /\ \A u \in Threads \ {t} : cur'[u] = cur[u] /\ todo'[u] = todo[u]
  BY <1>1 DEF CountInv, FillInv, FillTypeOK
<1>3. fills \in Seq(Range(HistsOf(TargetOf[c])))
  BY FillsOwned
<1>4. c # NoCall /\ c \notin completed /\ c \notin pending'
  BY <1>1, NullAssumption DEF CountInv, CallInv
<1>5. CallInv'
  <2>1. completed' \subseteq Calls /\ completed' \intersect pending' = {}
    BY <1>1 DEF CountInv, CallInv
  <2>2. ~TearingDown'
    BY <1>1 DEF TearingDown
  <2>3. ASSUME NEW u \in Threads, cur'[u] # NoCall
        PROVE  /\ cur'[u] \notin pending' \union completed'
               /\ \A v \in Threads : cur'[v] = cur'[u] => v = u
               /\ todo'[u] \in Seq(Range(HistsOf(TargetOf[cur'[u]])))
    <3>1. \A v \in Threads \ {t} : cur[v] # c
      BY <1>1, <1>4 DEF CountInv, CallInv
    <3>2. CASE u = t
      BY <1>1, <1>2, <1>3, <1>4, <3>1, <3>2
    <3>3. CASE u # t
      BY <1>1, <1>2, <2>3, <3>1, <3>3 DEF CountInv, CallInv
    <3> QED
      BY <3>2, <3>3
  <2> QED
    BY <2>1, <2>2, <2>3 DEF CallInv
<1>6. ContextInv'
  <2>1. Waiting' = Waiting
    BY <1>1 DEF Waiting
  <2>2. \A u \in Threads : contexts[u] \subseteq contexts'[u]
    BY DEF StartObserve, CountInv, FillInv, FillTypeOK
  <2> QED
    BY <1>1, <2>1, <2>2 DEF CountInv, ContextInv
<1>7. BinsCount'
  <2>1. ASSUME NEW h \in Hists, NEW u \in Threads PROVE FilledBy(u, h)' = FilledBy(u, h)
    <3>1. CASE u = t
      <4>1. FilledBy(t, h) = 0
        BY <1>1 DEF FilledBy
      <4>2. FilledBy(t, h)' = IF h \in Range(HistsOf(TargetOf[c]))
                              THEN Weight(c, h) - Occurrences(fills, h) ELSE 0
        BY <1>2, <1>4 DEF FilledBy
      <4>3. h \in Range(HistsOf(TargetOf[c])) =>
               Weight(c, h) \in Nat /\ Occurrences(fills, h) = Weight(c, h)
        BY FillsCounted
      <4> QED
        BY <3>1, <4>1, <4>2, <4>3
    <3>2. CASE u # t
      BY <1>2, <3>2 DEF FilledBy
    <3> QED
      BY <3>1, <3>2
  <2> QED
    BY <1>1, <2>1, BinsKept
<1>8. EntriesCount' /\ FileInv'
  BY <1>1 DEF CountInv, EntriesCount, FileInv, BufferedFor
<1> QED
  BY <1>5, <1>6, <1>7, <1>8 DEF CountInv

\* A fill: one more in the bin, in the statistics of the context, and in what the
\* call has filled.
LEMMA FillKeepsCount ==
  ASSUME CountInv, NEW t \in Threads, FillHist(t), FillInv', EndInv'
  PROVE  CountInv'
<1> PICK s : s = todo[t]
  OBVIOUS
<1> PICK k : k = Head(s)
  OBVIOUS
<1> PICK c : c = cur[t]
  OBVIOUS
<1>1. /\ s # <<>>
      /\ todo' = [todo EXCEPT ![t] = Tail(@)]
      /\ bins' = [bins EXCEPT ![k] = @ + 1]
      /\ buffered' = [buffered EXCEPT ![t][k] = @ + 1]
      /\ UNCHANGED <<pending, cur, completed, contexts, entries, alive, dying, file>>
  BY DEF FillHist, ending
<1>2. c # NoCall /\ c \in Calls /\ s \in Seq(Hists)
  BY <1>1 DEF CountInv, FillInv, FillTypeOK
<1>3. s \in Seq(Range(HistsOf(TargetOf[c])))
  BY <1>2 DEF CountInv, CallInv
<1>4. /\ k \in Hists /\ k \in Range(HistsOf(TargetOf[c]))
      /\ Tail(s) \in Seq(Range(HistsOf(TargetOf[c]))) /\ Tail(s) \in Seq(Hists)
      /\ Range(s) = {k} \union Range(Tail(s))
  BY <1>1, <1>2, <1>3, TailRange
<1>5. k \in contexts[t]
  BY <1>4 DEF CountInv, FillInv, FillsHaveContexts
<1>6. ~TearingDown
  BY <1>2 DEF CountInv, CallInv
<1>7. todo'[t] = Tail(s) /\ \A u \in Threads \ {t} : todo'[u] = todo[u]
  BY <1>1 DEF CountInv, FillInv, FillTypeOK
<1>8. CallInv'
  <2>1. completed' \subseteq Calls /\ completed' \intersect pending' = {} /\ ~TearingDown'
    BY <1>1, <1>6 DEF CountInv, CallInv, TearingDown
  <2>2. ASSUME NEW u \in Threads, cur'[u] # NoCall
        PROVE  /\ cur'[u] \notin pending' \union completed'
               /\ \A v \in Threads : cur'[v] = cur'[u] => v = u
               /\ todo'[u] \in Seq(Range(HistsOf(TargetOf[cur'[u]])))
    BY <1>1, <1>4, <1>7, <2>2 DEF CountInv, CallInv
  <2> QED
    BY <2>1, <2>2 DEF CallInv
<1>9. /\ bins \in [Hists -> Int] /\ buffered \in [Threads -> [Hists -> Int]]
      /\ entries \in [Hists -> Int]
  BY DEF CountInv, ContextInv
<1>10. /\ bins' \in [Hists -> Int] /\ bins'[k] = bins[k] + 1
       /\ \A h \in Hists \ {k} : bins'[h] = bins[h]
  BY <1>1, <1>4, <1>9
<1>11. /\ buffered' \in [Threads -> [Hists -> Int]]
       /\ buffered'[t][k] = buffered[t][k] + 1
       /\ \A u \in Threads, h \in Hists : u # t \/ h # k => buffered'[u][h] = buffered[u][h]
  BY <1>1, <1>4, <1>9
<1>12. ContextInv'
  <2>1. Waiting' = Waiting
    BY <1>1 DEF Waiting
  <2>2. k \in Waiting
    BY <1>4, <1>6, HistsOwned, NullAssumption DEF Waiting, TearingDown
  <2>3. ASSUME NEW u \in Threads, NEW h \in Hists, h \notin contexts'[u] \/ h \notin Waiting'
        PROVE  buffered'[u][h] = 0
    <3>1. u # t \/ h # k
      BY <1>1, <1>5, <2>1, <2>2, <2>3
    <3> QED
      BY <1>1, <1>11, <2>1, <2>3, <3>1 DEF CountInv, ContextInv
  <2> QED
    BY <1>1, <1>9, <1>10, <1>11, <2>3 DEF ContextInv
<1>13. ASSUME NEW h \in Hists, NEW u \in Threads
       PROVE  FilledBy(u, h)' = IF u = t /\ h = k THEN FilledBy(u, h) + 1 ELSE FilledBy(u, h)
  <2>1. CASE u # t
    BY <1>1, <1>7, <2>1 DEF FilledBy
  <2>2. CASE u = t /\ h \in Range(HistsOf(TargetOf[c]))
    <3>1. Occurrences(s, h) = (IF h = k THEN 1 ELSE 0) + Occurrences(Tail(s), h)
      BY <1>1, <1>2, OccurrencesTail
    <3>2. Occurrences(Tail(s), h) \in Nat /\ Weight(c, h) \in Nat
      BY <1>2, <1>4, <2>2, OccurrencesJoin, FillsCounted
    <3>3. /\ FilledBy(t, h) = Weight(c, h) - Occurrences(s, h)
          /\ FilledBy(t, h)' = Weight(c, h) - Occurrences(Tail(s), h)
      BY <1>1, <1>2, <1>7, <2>2 DEF FilledBy
    <3> QED
      BY <2>2, <3>1, <3>2, <3>3
  <2>3. CASE u = t /\ h \notin Range(HistsOf(TargetOf[c]))
    <3>1. h # k
      BY <1>4, <2>3
    <3>2. FilledBy(t, h) = 0 /\ FilledBy(t, h)' = 0
      BY <1>1, <2>3 DEF FilledBy
    <3> QED
      BY <2>3, <3>1, <3>2
  <2> QED
    BY <2>1, <2>2, <2>3
<1>14. ASSUME NEW h \in Hists
       PROVE  /\ bins'[h] = Sum(Weights(h), CompletedOf(h))' + Sum(Filled(h), Threads)'
              /\ bins'[h] = entries'[h] + Sum(BufferedFor(h), Threads)'
  <2> PICK d : d = IF h = k THEN 1 ELSE 0
    OBVIOUS
  <2>1. d \in Int /\ bins'[h] = bins[h] + d /\ entries'[h] = entries[h]
    BY <1>1, <1>9, <1>10
  <2>2. Sum(Weights(h), CompletedOf(h))' = Sum(Weights(h), CompletedOf(h))
    BY <1>1 DEF Weights, CompletedOf
  <2> PICK old : old = Filled(h)
    OBVIOUS
  <2> PICK new : new = Filled(h)'
    OBVIOUS
  <2>3. /\ \A u \in Threads : old[u] \in Int /\ IsFiniteSet(Threads)
        /\ Sum(old, Threads) \in Int
    BY SumsTyped
  <2>4. new[t] = old[t] + d /\ \A u \in Threads \ {t} : old[u] = new[u]
    BY <1>13, <2>3 DEF Filled
  <2>5. \A u \in Threads : old[u] \in Int /\ new[u] \in Int
    BY <2>1, <2>3, <2>4
  <2>6. Sum(new, Threads) = Sum(old, Threads) + new[t] - old[t]
    BY ONLY <2>3, <2>4, <2>5, SumChange, t \in Threads
  <2> PICK old2 : old2 = BufferedFor(h)
    OBVIOUS
  <2> PICK new2 : new2 = BufferedFor(h)'
    OBVIOUS
  <2>7. \A u \in Threads : old2[u] \in Int /\ Sum(old2, Threads) \in Int
    BY SumsTyped
  <2>8. new2[t] = old2[t] + d /\ \A u \in Threads \ {t} : old2[u] = new2[u]
    BY <1>9, <1>11 DEF BufferedFor
  <2>9. \A u \in Threads : old2[u] \in Int /\ new2[u] \in Int
    BY <2>1, <2>7, <2>8
  <2>10. Sum(new2, Threads) = Sum(old2, Threads) + new2[t] - old2[t]
    BY ONLY <2>3, <2>8, <2>9, SumChange, t \in Threads
  <2>11. /\ Sum(new, Threads) = Sum(old, Threads) + d /\ Sum(new2, Threads) = Sum(old2, Threads) + d
         /\ Sum(old2, Threads) \in Int
    BY ONLY <2>1, <2>3, <2>4, <2>5, <2>6, <2>7, <2>8, <2>9, <2>10, t \in Threads
  <2>12. /\ bins[h] = Sum(Weights(h), CompletedOf(h)) + Sum(old, Threads)
         /\ bins[h] = entries[h] + Sum(old2, Threads)
    BY DEF CountInv, BinsCount, EntriesCount
  <2>13. Sum(Weights(h), CompletedOf(h)) \in Int /\ entries[h] \in Int
    BY <1>9, SumsTyped
  <2>14. /\ Sum(Filled(h), Threads)' = Sum(new, Threads)
         /\ Sum(BufferedFor(h), Threads)' = Sum(new2, Threads)
    OBVIOUS
  <2> QED
    BY ONLY <2>1, <2>2, <2>3, <2>11, <2>12, <2>13, <2>14
<1>15. FileInv'
  <2>1. DOMAIN file = {}
    <3>1. Left = Hists
      BY <1>6, HistsOwned, NullAssumption, EmptyRange
         DEF Left, TearingDown, CountInv, EndInv, EndTypeOK
    <3> QED
      BY <3>1 DEF CountInv, EndInv, EndTypeOK
  <2> QED
    BY <1>1, <2>1 DEF FileInv
<1> QED
  BY <1>8, <1>12, <1>14, <1>15 DEF CountInv, BinsCount, EntriesCount

\* A call returns: what it has filled is what it contributes.
LEMMA EndKeepsCount ==
  ASSUME CountInv, NEW t \in Threads, EndObserve(t), FillInv', EndInv'
  PROVE  CountInv'
<1> PICK c : c = cur[t]
  OBVIOUS
<1>1. /\ c # NoCall /\ todo[t] = <<>>
      /\ cur' = [cur EXCEPT ![t] = NoCall]
      /\ completed' = completed \union {c}
      /\ UNCHANGED <<pending, todo, contexts, bins, buffered, entries, alive, dying, file>>
  BY DEF EndObserve, ending
<1>2. c \in Calls /\ c \notin pending /\ c \notin completed
  BY <1>1 DEF CountInv, FillInv, FillTypeOK, CallInv
<1>3. cur'[t] = NoCall /\ \A u \in Threads \ {t} : cur'[u] = cur[u]
  BY <1>1 DEF CountInv, FillInv, FillTypeOK
<1>4. CallInv'
  <2>1. /\ completed' \subseteq Calls /\ completed' \intersect pending' = {}
        /\ ~TearingDown'
    BY <1>1, <1>2 DEF CountInv, CallInv, TearingDown
  <2>2. ASSUME NEW u \in Threads, cur'[u] # NoCall
        PROVE  /\ cur'[u] \notin pending' \union completed'
               /\ \A v \in Threads : cur'[v] = cur'[u] => v = u
               /\ todo'[u] \in Seq(Range(HistsOf(TargetOf[cur'[u]])))
    <3>1. u # t /\ cur'[u] = cur[u] /\ cur[u] # NoCall
      BY <1>3, <2>2
    <3>2. cur[u] # c
      BY <1>1, <3>1 DEF CountInv, CallInv
    <3>3. \A v \in Threads : cur'[v] = cur'[u] => v # t
      BY <1>3, <2>2
    <3> QED
      BY <1>1, <1>3, <3>1, <3>2, <3>3 DEF CountInv, CallInv
  <2> QED
    BY <2>1, <2>2 DEF CallInv
<1>5. ContextInv'
  BY <1>1 DEF CountInv, ContextInv, Waiting
<1>6. ASSUME NEW h \in Hists
      PROVE  bins'[h] = Sum(Weights(h), CompletedOf(h))' + Sum(Filled(h), Threads)'
  <2> PICK old : old = Filled(h)
    OBVIOUS
  <2> PICK new : new = Filled(h)'
    OBVIOUS
  <2> PICK weights : weights = Weights(h)
    OBVIOUS
  <2> PICK D : D = CompletedOf(h)
    OBVIOUS
  <2> PICK E : E = CompletedOf(h)'
    OBVIOUS
  <2>1. /\ IsFiniteSet(Threads) /\ IsFiniteSet(D)
        /\ \A u \in Threads : old[u] \in Int
        /\ \A d \in D : weights[d] \in Int
        /\ Sum(old, Threads) \in Int /\ Sum(weights, D) \in Int
    BY SumsTyped
  <2>2. bins[h] = Sum(weights, D) + Sum(old, Threads)
    BY DEF CountInv, BinsCount
  <2>3. new[t] = 0 /\ \A u \in Threads \ {t} : old[u] = new[u]
    BY <1>1, <1>3 DEF Filled, FilledBy
  <2>4. \A u \in Threads : old[u] \in Int /\ new[u] \in Int
    BY <2>1, <2>3
  <2>5. Sum(new, Threads) = Sum(old, Threads) + new[t] - old[t]
    BY ONLY <2>1, <2>3, <2>4, SumChange, t \in Threads
  <2>6. weights = Weights(h)'
    BY DEF Weights
  <2>7. CASE h \in Range(HistsOf(TargetOf[c]))
    <3>1. Occurrences(todo[t], h) = 0
      BY <1>1, FS_EmptySet DEF Occurrences
    <3>2. Weight(c, h) \in Nat
      BY <1>2, <2>7, FillsCounted
    <3>3. old[t] = Weight(c, h) /\ weights[c] = Weight(c, h)
      BY <1>1, <1>2, <2>7, <3>1, <3>2 DEF Filled, FilledBy, Weights
    <3>4. E = D \union {c} /\ c \notin D /\ c \in E /\ E \ {c} = D
      BY <1>1, <1>2, <2>7 DEF CompletedOf
    <3>5. IsFiniteSet(E) /\ \A d \in E : weights[d] \in Int
      BY <2>1, <3>2, <3>3, <3>4, FS_AddElement
    <3>6. Sum(weights, E) = weights[c] + Sum(weights, E \ {c})
      BY ONLY <3>4, <3>5, SumTake
    <3>7. Sum(weights, E) = Weight(c, h) + Sum(weights, D)
      BY ONLY <3>3, <3>4, <3>6
    <3>8. Sum(new, Threads) = Sum(old, Threads) - Weight(c, h)
      BY ONLY <2>1, <2>3, <2>5, <3>2, <3>3
    <3>9. bins[h] = Sum(weights, E) + Sum(new, Threads)
      BY ONLY <2>1, <2>2, <3>2, <3>7, <3>8
    <3> QED
      BY ONLY <1>1, <2>6, <3>9, new = Filled(h)', E = CompletedOf(h)'
  <2>8. CASE h \notin Range(HistsOf(TargetOf[c]))
    <3>1. old[t] = 0
      BY <2>8 DEF Filled, FilledBy
    <3>2. E = D
      BY <1>1, <2>8 DEF CompletedOf
    <3>3. bins[h] = Sum(weights, E) + Sum(new, Threads)
      BY ONLY <2>1, <2>2, <2>3, <2>5, <3>1, <3>2
    <3> QED
      BY ONLY <1>1, <2>6, <3>3, new = Filled(h)', E = CompletedOf(h)'
  <2> QED
    BY <2>7, <2>8
<1>7. EntriesCount' /\ FileInv'
  BY <1>1 DEF CountInv, EntriesCount, FileInv, BufferedFor
<1> QED
  BY <1>4, <1>5, <1>6, <1>7 DEF CountInv, BinsCount

\* The destructor of a histogrammer: the contexts hand over what they have.
LEMMA ClearKeepsCount ==
  ASSUME CountInv, NEW g \in Histogrammers, BeginDestructor(g), FillInv', EndInv'
  PROVE  CountInv'
<1> PICK mine : mine = Range(HistsOf(g))
  OBVIOUS
<1>1. /\ pending = {} /\ \A t \in Threads : cur[t] = NoCall
      /\ g \in alive /\ dying = NoHistogrammer /\ dying' = g
      /\ entries' = [h \in Hists |-> IF h \in mine
            THEN entries[h] + MapThenSumSet(LAMBDA t : buffered[t][h],
                                            {t \in Threads : h \in contexts[t]})
            ELSE entries[h]]
      /\ buffered' = [t \in Threads |-> [h \in Hists |-> IF h \in mine THEN 0 ELSE buffered[t][h]]]
      /\ contexts' = [t \in Threads |-> contexts[t] \ mine]
      /\ UNCHANGED <<pending, cur, completed, todo, bins, alive, file>>
  BY DEF BeginDestructor, Quiescent
<1>2. mine \subseteq Hists
  BY DEF Hists
<1>3. ASSUME NEW h \in Hists
      PROVE  entries'[h] = IF h \in mine THEN entries[h] + Sum(BufferedFor(h), Threads)
                           ELSE entries[h]
  <2> PICK T : T = {t \in Threads : h \in contexts[t]}
    OBVIOUS
  <2>1. T \in SUBSET Threads
    OBVIOUS
  <2>2. MapThenSumSet(LAMBDA t : buffered[t][h], T) = Sum(BufferedFor(h), T)
    BY <2>1, ContextsSum
  <2> PICK f : f = BufferedFor(h)
    OBVIOUS
  <2>3. /\ IsFiniteSet(Threads) /\ \A t \in Threads : f[t] \in Int
        /\ \A t \in Threads \ T : f[t] = 0
    BY SumsTyped DEF CountInv, ContextInv, BufferedFor
  <2>4. Sum(f, Threads) = Sum(f, T)
    BY ONLY <2>1, <2>3, SumPart
  <2> QED
    BY <1>1, <2>2, <2>4
<1>4. ASSUME NEW t \in Threads, NEW h \in Hists
      PROVE  buffered'[t][h] = IF h \in mine THEN 0 ELSE buffered[t][h]
  BY <1>1
<1>5. CallInv'
  BY <1>1 DEF CountInv, CallInv
<1>6. ContextInv'
  <2>1. entries' \in [Hists -> Int]
    <3>1. \A h \in Hists : entries[h] \in Int /\ Sum(BufferedFor(h), Threads) \in Int
      BY SumsTyped DEF CountInv, ContextInv
    <3>2. \A h \in Hists : entries'[h] \in Int
      BY <1>3, <3>1
    <3> QED
      BY <1>1, <3>2
  <2>2. buffered' \in [Threads -> [Hists -> Int]]
    <3>1. \A t \in Threads : buffered[t] \in [Hists -> Int]
      BY DEF CountInv, ContextInv
    <3> QED
      BY <1>1, <3>1
  <2>3. Waiting \subseteq Waiting' \union mine
    BY <1>1 DEF Waiting
  <2>4. ASSUME NEW t \in Threads, NEW h \in Hists, h \notin contexts'[t] \/ h \notin Waiting'
        PROVE  buffered'[t][h] = 0
    <3>1. CASE h \in mine
      BY <1>4, <3>1
    <3>2. CASE h \notin mine
      <4>1. h \notin contexts[t] \/ h \notin Waiting
        BY <1>1, <2>3, <2>4, <3>2
      <4> QED
        BY <1>4, <3>2, <4>1 DEF CountInv, ContextInv
    <3> QED
      BY <3>1, <3>2
  <2> QED
    BY <1>1, <2>1, <2>2, <2>4 DEF CountInv, ContextInv
<1>7. BinsCount'
  BY <1>1, BinsKept DEF FilledBy
<1>8. EntriesCount'
  <2> SUFFICES ASSUME NEW h \in Hists PROVE bins'[h] = entries'[h] + Sum(BufferedFor(h), Threads)'
    BY DEF EntriesCount
  <2> PICK old : old = BufferedFor(h)
    OBVIOUS
  <2> PICK new : new = BufferedFor(h)'
    OBVIOUS
  <2>1. /\ bins[h] = entries[h] + Sum(old, Threads)
        /\ entries[h] \in Int /\ Sum(old, Threads) \in Int /\ IsFiniteSet(Threads)
    BY SumsTyped DEF CountInv, EntriesCount, ContextInv
  <2>2. CASE h \in mine
    <3>1. \A t \in Threads : new[t] = 0
      BY <1>4, <2>2 DEF BufferedFor
    <3>2. Sum(new, Threads) = 0
      BY ONLY <2>1, <3>1, SumZero
    <3>3. entries'[h] = entries[h] + Sum(old, Threads) /\ bins'[h] = bins[h]
      BY <1>1, <1>3, <2>2
    <3>4. bins'[h] = entries'[h] + Sum(new, Threads)
      BY ONLY <2>1, <3>2, <3>3
    <3> QED
      BY ONLY <3>4, new = BufferedFor(h)'
  <2>3. CASE h \notin mine
    <3>1. \A t \in Threads : new[t] = old[t]
      BY <1>4, <2>3 DEF BufferedFor
    <3>2. Sum(new, Threads) = Sum(old, Threads)
      BY ONLY <2>1, <3>1, SumSame
    <3>3. entries'[h] = entries[h] /\ bins'[h] = bins[h]
      BY <1>1, <1>3, <2>3
    <3>4. bins'[h] = entries'[h] + Sum(new, Threads)
      BY ONLY <2>1, <3>2, <3>3
    <3> QED
      BY ONLY <3>4, new = BufferedFor(h)'
  <2> QED
    BY <2>2, <2>3
<1>9. FileInv'
  <2> SUFFICES ASSUME NEW h \in DOMAIN file PROVE entries'[h] = entries[h]
    BY <1>1 DEF CountInv, FileInv
  <2>1. mine \subseteq Left
    BY <1>1, NullAssumption DEF Left, CountInv, EndInv, EndTypeOK
  <2>2. h \in Hists /\ h \notin mine
    BY <2>1 DEF CountInv, EndInv, EndTypeOK
  <2> QED
    BY <1>3, <2>2
<1> QED
  BY <1>5, <1>6, <1>7, <1>8, <1>9 DEF CountInv

\* What neither fills nor clears keeps the counts: it may start no further call,
\* or make contexts.
LEMMA OthersKeepCount ==
  ASSUME CountInv, FillInv', EndInv', FileInv',
         Waiting' = Waiting, TearingDown' => TearingDown,
         pending' \subseteq pending,
         \A t \in Threads : contexts[t] \subseteq contexts'[t],
         cur' = cur, completed' = completed, todo' = todo, bins' = bins,
         buffered' = buffered, entries' = entries
  PROVE  CountInv'
<1>1. CallInv'
  BY DEF CountInv, CallInv
<1>2. ContextInv'
  BY DEF CountInv, ContextInv
<1>3. BinsCount'
  BY DEF CountInv, BinsCount, CompletedOf, Filled, FilledBy
<1>4. EntriesCount'
  BY DEF CountInv, EntriesCount, BufferedFor
<1> QED
  BY <1>1, <1>2, <1>3, <1>4 DEF CountInv

LEMMA CountStep == CountInv /\ [Next]_vars => CountInv'
<1> SUFFICES ASSUME CountInv, [Next]_vars PROVE CountInv'
  OBVIOUS
<1>1. FillInv' /\ EndInv'
  BY FillStep, EndStep DEF CountInv
<1>2. ASSUME NEW t \in Threads, NEW c \in Calls, StartObserve(t, c) PROVE CountInv'
  BY <1>1, <1>2, StartKeepsCount
<1>3. ASSUME NEW t \in Threads, FillHist(t) PROVE CountInv'
  BY <1>1, <1>3, FillKeepsCount
<1>4. ASSUME NEW t \in Threads, EndObserve(t) PROVE CountInv'
  BY <1>1, <1>4, EndKeepsCount
<1>5. ASSUME NEW g \in Histogrammers, BeginDestructor(g) PROVE CountInv'
  BY <1>1, <1>5, ClearKeepsCount
<1>6. ASSUME NEW t \in Threads, NEW c \in Calls, StartObserveFails(t, c) PROVE CountInv'
  <2>1. /\ pending' = {} /\ cur' = cur /\ completed' = completed /\ todo' = todo
        /\ bins' = bins /\ buffered' = buffered /\ entries' = entries
        /\ alive' = alive /\ dying' = dying /\ file' = file
    BY <1>6 DEF StartObserveFails, ending
  <2>2. \A u \in Threads : contexts[u] \subseteq contexts'[u]
    BY <1>6 DEF StartObserveFails, CountInv, FillInv, FillTypeOK
  <2>3. Waiting' = Waiting /\ TearingDown' = TearingDown
    BY <2>1 DEF Waiting, TearingDown
  <2>4. FileInv'
    BY <2>1 DEF CountInv, FileInv
  <2>5. pending' \subseteq pending
    BY <2>1
  <2> QED
    BY <1>1, <2>1, <2>2, <2>3, <2>4, <2>5, OthersKeepCount
<1>7. CASE AbortJob
  <2>1. /\ pending' = {} /\ cur' = cur /\ completed' = completed /\ todo' = todo
        /\ bins' = bins /\ buffered' = buffered /\ entries' = entries /\ contexts' = contexts
        /\ alive' = alive /\ dying' = dying /\ file' = file
    BY <1>7 DEF AbortJob, ending
  <2>2. Waiting' = Waiting /\ TearingDown' = TearingDown
    BY <2>1 DEF Waiting, TearingDown
  <2>3. FileInv'
    BY <2>1 DEF CountInv, FileInv
  <2>4. pending' \subseteq pending /\ \A u \in Threads : contexts[u] \subseteq contexts'[u]
    BY <2>1
  <2> QED
    BY <1>1, <2>1, <2>2, <2>3, <2>4, OthersKeepCount
<1>8. ASSUME filling' = filling, entries' = entries, FileInv',
             Waiting' = Waiting, TearingDown' => TearingDown
      PROVE  CountInv'
  <2>1. /\ pending' = pending /\ cur' = cur /\ completed' = completed /\ todo' = todo
        /\ bins' = bins /\ buffered' = buffered /\ entries' = entries /\ contexts' = contexts
    BY <1>8 DEF filling
  <2>2. pending' \subseteq pending /\ \A u \in Threads : contexts[u] \subseteq contexts'[u]
    BY <2>1
  <2> QED
    BY <1>1, <1>8, <2>1, <2>2, OthersKeepCount
<1>9. ASSUME puts # <<>> PROVE open /\ Head(puts) \in Hists
  <2>1. dying # NoHistogrammer /\ puts \in Seq(Hists)
    BY <1>9 DEF CountInv, EndInv, EndTypeOK
  <2>2. dying \in alive
    BY <2>1 DEF CountInv, EndInv, EndTypeOK
  <2>3. open
    BY <2>2 DEF CountInv, EndInv, EndTypeOK
  <2>4. Head(puts) \in Hists
    BY <1>9, <2>1
  <2> QED
    BY <2>3, <2>4
<1>10. CASE Put
  <2> PICK k : k = Head(puts)
    OBVIOUS
  <2>1. /\ filling' = filling /\ entries' = entries /\ alive' = alive /\ dying' = dying
        /\ file' = [x \in DOMAIN file \union {k} |->
                       IF x = k THEN [bins |-> bins[k], entries |-> entries[k]] ELSE file[x]]
    BY <1>9, <1>10 DEF Put
  <2>2. Waiting' = Waiting /\ TearingDown' = TearingDown
    BY <2>1 DEF Waiting, TearingDown
  <2>3. FileInv'
    <3> SUFFICES ASSUME NEW h \in DOMAIN file'
                 PROVE  file'[h] = [bins |-> bins'[h], entries |-> entries'[h]]
      BY DEF FileInv
    <3>1. bins' = bins /\ entries' = entries
      BY <2>1 DEF filling
    <3>2. CASE h = k
      BY <2>1, <3>1, <3>2
    <3>3. CASE h # k
      BY <2>1, <3>1, <3>3 DEF CountInv, FileInv
    <3> QED
      BY <3>2, <3>3
  <2> QED
    BY <1>8, <2>1, <2>2, <2>3
<1>11. CASE PutFails \/ UNCHANGED vars
  <2>1. /\ filling' = filling /\ entries' = entries /\ alive' = alive /\ dying' = dying
        /\ file' = file
    BY <1>11 DEF PutFails, vars, ending
  <2>2. Waiting' = Waiting /\ TearingDown' = TearingDown
    BY <2>1 DEF Waiting, TearingDown
  <2>3. FileInv'
    BY <2>1 DEF CountInv, FileInv, filling
  <2> QED
    BY <1>8, <2>1, <2>2, <2>3
<1>12. CASE EndDestructor
  <2>1. /\ filling' = filling /\ entries' = entries /\ file' = file
        /\ dying # NoHistogrammer /\ alive' = alive \ {dying} /\ dying' = NoHistogrammer
    BY <1>12 DEF EndDestructor
  <2>2. NoHistogrammer \notin alive
    BY NullAssumption DEF CountInv, EndInv, EndTypeOK
  <2>3. alive' \ {dying'} = alive \ {dying}
    BY <2>1, <2>2
  <2>4. Waiting' = Waiting /\ TearingDown
    BY <2>1, <2>3 DEF Waiting, TearingDown
  <2>5. FileInv'
    BY <2>1 DEF CountInv, FileInv, filling
  <2> QED
    BY <1>8, <2>1, <2>4, <2>5
<1> QED
  BY <1>2, <1>3, <1>4, <1>5, <1>6, <1>7, <1>10, <1>11, <1>12
     DEF Next, MainStep, ThreadStep, Finished

THEOREM CountCorrect == Spec => []CountInv
  BY CountInit, CountStep, PTL DEF Spec

\* What is in the file is that of all completed calls, bins and statistics, although
\* the threads kept the statistics to themselves until the destructor of the
\* histogrammer (fill_contexts_.clear() before the puts).
THEOREM FileCountsCalls == Spec => []FileIsExact
<1>1. CountInv => FileIsExact
  <2> SUFFICES ASSUME CountInv, NEW h \in DOMAIN file
               PROVE  file[h] = [bins |-> Expected(h), entries |-> Expected(h)]
    BY DEF FileIsExact
  <2>1. h \in Hists /\ h \notin Left
    BY DEF CountInv, EndInv, EndTypeOK
  <2>2. h \notin Waiting
    BY <2>1 DEF Left, Waiting
  <2>3. TearingDown
    <3> SUFFICES ASSUME ~TearingDown PROVE FALSE
      OBVIOUS
    <3>1. Waiting = Hists
      BY HistsOwned, NullAssumption DEF Waiting, TearingDown
    <3> QED
      BY <2>1, <2>2, <3>1
  <2>4. \A t \in Threads : Filled(h)[t] = 0 /\ BufferedFor(h)[t] = 0
    BY <2>1, <2>2, <2>3
       DEF CountInv, CallInv, ContextInv, Filled, FilledBy, BufferedFor
  <2> PICK filled : filled = Filled(h)
    OBVIOUS
  <2> PICK wait : wait = BufferedFor(h)
    OBVIOUS
  <2>5. Sum(filled, Threads) = 0 /\ Sum(wait, Threads) = 0
    BY <2>4, CallAssumption, SumZero
  <2>6. Expected(h) = Sum(Weights(h), CompletedOf(h)) /\ Sum(Weights(h), CompletedOf(h)) \in Int
    BY <2>1, ExpectedIsSum, SumsTyped DEF CountInv, CallInv
  <2>7. bins[h] = Expected(h)
    BY <2>1, <2>5, <2>6 DEF CountInv, BinsCount
  <2>8. entries[h] = bins[h]
    BY <2>1, <2>5 DEF CountInv, EntriesCount, ContextInv
  <2> QED
    BY <2>7, <2>8 DEF CountInv, FileInv
<1> QED
  BY <1>1, CountCorrect, PTL
===============================================================================
