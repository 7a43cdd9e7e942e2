# A TLA+ model of trout

trout is a set of phlex plugins that reconstruct SHiP events: it reads digitised
hits, finds and fits tracks in the straw-tube spectrometer, copies the hits of
the other subdetectors, and writes the results to RNTuples and to validation
histograms. phlex calls the nodes of the plugins on a pool of TBB threads, in
parallel wherever a node is registered with `concurrency::unlimited`.

This directory holds TLA+ modules that model the parts of trout with state of
their own, TLC configurations that check them on small instances, and TLAPS
proofs of the most important properties for instances of any size. Paths below
are relative to the root of the repository.

## The system

| Part | Source | State | Operations | Hard behaviour |
|---|---|---|---|---|
| RNTuple output | `include/io/typed_rntuple_writer.hpp` | one file and its mutex; per tuple a writer and one fill context per thread | construct, `write`, `write_sim`, cluster flush, destroy | concurrent calls on shared tuples; a lock held only around flushes; data that only destructors write; I/O errors at any of these points |
| Validation histograms | `src/io/rec_output_module.cpp`, `include/HistoFileService.hpp`, the histogrammers | per histogram bins and statistics, per thread fill contexts; a shared file | `observe`, destructor, `put` | bins are shared, statistics wait in contexts; destructors in any order on one file; failing `put` |
| Measurements | `include/detectors/spectrometer/SpectrometerMeasurements.hpp`, `prepare_measurements.cpp` | measurements; source links sorted by station | build, look up | ties, window edges, NaN; two containers that must agree on indices |
| Seeds | `src/detectors/spectrometer/generate_seeds.cpp` | hits of two stations, a flat index | predicate and function of an unfold | look-ahead scan, index arithmetic, NaN |
| Track finding and fitting | `SpectrometerCkf.hpp`, `fit_seed.cpp` | branches of one seed, results | find candidates, refit | many fits at a time while seeds are still being emitted; errors of Acts |
| Registration of output nodes | `src/io/rec_output_module.cpp` | configuration | register | mode, path clash, simulation switch |
| Geometry provider | `src/acts_geometry_provider.cpp` | Geant4 stores, tracking geometry | find stations, build, clean up | life cycle when building fails; thread that must clean up |
| Field provider | `src/acts_field_provider.cpp`, `include/acts_field_provider.hpp` | none after construction | look up | faces of the map, NaN and infinite positions, an evaluator that throws or answers NaN |
| Containers | `include/GeometryContainers.hpp`, `GroupBy.hpp`, `Range.hpp`, `IndexSourceLink.hpp` | none | select by volume, layer, module; group | overflow of the upper bound |
| Random numbers | `src/philox_rng.hpp` | counter, word buffer | draws of one or two words | counter without carry, words skipped |
| Reading hits | `src/io/read_digitised_hits.cpp` | one vector per hit type | provide a copy per spill | one vector shared by all spills |
| Other subdetectors | `*_reco.cpp` | none | copy | only their wiring |
| The job | all plugins, `workflows/run_reconstruction.jsonnet` | products per data cell | calls of nodes as their inputs turn up | names spelt in eleven files; several spills at a time; products in any order; a job that is aborted |

The parts meet as follows. The source gives a spill its hits;
`prepare_measurements` joins them with the geometry and the field (job layer)
into a `SpillContext` that everything downstream shares read-only;
`generate_seeds` unfolds the spill into one child per seed; `fit_seed` runs for
every child; observers of `rec_output_module` get the tracks of each seed and
the hits of each spill, and hand them to the RNTuple writer and to the
histogrammers. At the end of the job the nodes are destroyed on the main
thread; the destructors write what is still in memory.

What makes each part correct:

- RNTuple output: every hit is in its own tuple once, in the order of its call,
  when the file closes; the file is used by one flush at a time; nothing is added
  to a tuple that is sealed; an error costs data but never the end of the job.
- Histograms: bins and statistics are those of the completed calls; a fill finds
  its context; a histogram is missing only when its own `put` failed.
- Measurements: a link leads to the measurement of the station it is filed under,
  and there is one link for each.
- Seeds: all compatible pairs, each once, in the order of the hits.
- Tracks: a candidate has exactly one hit of each station with hits that its
  branch met; a result belongs to its candidate and shows whether its fit failed;
  one result at most per seed; only seeds that point forward are fitted.
- Field: the map is asked inside its bounds only, and every lookup gives numbers.
- The job: every observer is called once for each cell of its layer, with what
  belongs to that cell, before the job counts as complete; every job ends.
- Registration: the nodes of a mode handle the same products, every observer has
  the object it calls, and the two outputs are two files.
- Geometry: a station is where the walk from the world first meets its name; the
  container holds all stations; a job that got its geometry leaves nothing in the
  Geant4 stores.
- Containers: a selection is exactly what was asked for, a group is whole.
- Random numbers: no word twice, none shared by two events.

## The modules

- `HitStore` is the abstract specification of the RNTuple output: hits are
  accepted, become durable, and the store closes as complete only if every
  accepted hit is durable and closing does not fail.
- `RNTupleWriter` models `HitRNTupleWriter`. `phase` is the life cycle of the
  object; `appended`, `dying`, `sealed` say which `TypedHitWriter`s exist, are
  being destroyed, are gone. `pc`, `cur`, `done` are the position of a thread in
  `write_all`: `FillHit` is `write` up to the test of `ShouldFlushCluster`,
  `AcquireFile` the scoped lock, `FlushCluster` and `FlushFails` the flush and the
  unlock; `FillFails` and `FlushColumnsFails` are the exceptions before the lock. `buffer[n][t]` is the cluster in the context of thread `t`,
  `committed[n]` the entries in the file. Destruction is `DestroyWriter`, then
  `DestroyContext` for every context, then `CommitDataset`; members go in reverse
  order of declaration, elements of the `std::tuple` in any order. A destructor
  that fails (`DestroyContextFails`, `CommitDatasetFails`, `CloseFileFails`) loses
  data and lets the next one run.
- `SpectrometerMeasurements` is the loop of the constructor of that name, one
  action per outcome for a hit, and the selection of links.
- `SeedGeneration` extends it to `prepare_measurements` and `generate_seeds`;
  `cursor` is the running value of the unfold, `EmitSeed` one call of the unfold
  function.
- `SpectrometerTracking` composes `SeedGeneration` with `fit_seed`: a seed that is
  emitted becomes a queued fit, and all fits interleave with one another and with
  the unfold. The branches of the combinatorial Kalman filter are explicit, so
  that the selector decides how many there are; a branch is its track states,
  each with the flags that the calibrator and the fit set. `CandidateHits` is the
  backward walk of `findCandidateHits`, `StatesOfFit` the look-up by surface in
  the refit, `FromACTSFitResult` the conversion.
- `HistoOutput` models the six histogrammers and `HistoFileService`. `Groups` has
  their histograms; `FillsOf` is the body of an `observe`, `StartObserve` and
  `StartObserveFails` are `ensure_contexts`; `BeginDestructor`, `Put`, `PutFails`, `EndDestructor` are
  the destructor, interleaved over histogrammers only in the order they are
  destroyed, as the main thread does it.
- `RecOutput` models `PHLEX_REGISTER_ALGORITHMS` of `rec_output_module.cpp`, which
  runs once before the first event and creates the objects whose life
  `RNTupleWriter` and `HistoOutput` describe: `step` is the position in the
  function, `todo` the observers up to the next step, `content` what the two
  files hold. `WeaklyCanonical` is the library function as implemented in
  libstdc++.
- `SpillLedger` is the abstract specification of a job: deliveries become owed,
  are made once, and the job calls itself complete only when none is open.
- `ReconstructionJob` extends `RecOutput` to a whole job: after the registration the
  nodes of all plugins are called. `store` holds the products by selector and
  data cell; a node is `Ready` when each of its inputs exists for its cell or for
  one that contains it, as phlex joins them; `ReadHits`, `ReadConditions`,
  `CopyHits`, `Prepare`, `Unfold`, `Fit`, `Observe` are one call each. What
  happens inside a call is in the module of the component: here it is atomic.
  The input is the file that `make_test_input` writes.
- `GeometryProvider` models `acts_geometry_provider.cpp`. `stack` holds the
  recursive calls of `find_station`, `history` the `G4NavigationHistory`; `Descend`,
  `Return`, `Found`, `NotFound` are the parts of a call; `stores`, `cleanup` and
  `Exit` are the life of the Geant4 stores.
- `GeometrySelection` models `GeometryContainers.hpp` and `GroupBy.hpp` over
  identifiers of small width, which overflow as the packed ones do.
- `FieldProvider` models a lookup of `ShipActsFieldProvider`: the guards before the
  evaluator is asked, its answer or exception, the guard behind it.
- `PhiloxRng` models `philox_rng.hpp`; a word is named by the counter of its block
  and its place in it, as Philox is a bijection.
- `MC*` give the constants values; `*Proofs` hold the theorems.

Operators whose name is that of another with a suffix (`AcquireFile_NoLock`) are
faulty versions of it. They are used in no specification; a property counts as
meaningful only because TLC refutes it when the faulty version takes the place
of the original.

### What is taken from libraries

ROOT: `ShouldFlushCluster` may answer anything after any fill; a flush makes the
context's cluster the next entries of the tuple or throws and changes nothing;
the destructor of a context flushes what is left and swallows an error. A
histogram context increments bins at once and hands over its statistics when
destroyed. Eigen: `normalized()` divides only by a norm that compares greater than
zero. phlex: a call runs on one thread from start to end; after an
exception no call is started; nodes are destroyed when no call runs. Acts: a
branch starts on the surface of its seed, with the seed's position as prediction,
crosses stations downstream in any subset, may stop anywhere, and the filter or
a fit may fail.

### Abstractions

Positions have one transverse coordinate (all three in `FieldProvider`) and are
integers or NaN; comparisons with NaN are false as in IEEE arithmetic. The cut on the direction is squared to
stay within the integers; of a pair without a transverse coordinate it compares the
difference along the beam in mm, as the code does. Infinite positions are not
in the domain of hits. Values of hits, covariances and fit parameters do not
appear: no property tells them apart. A histogram is the number of its
increments.

## The runs

| Run | Instance | What it shows |
|---|---|---|
| `writer` | 3 threads, 3 tuples of which one is simulation, calls with 3, 2 and 1 hits, two of them on one tuple, up to 2 failures | exclusive use of the file, no hit lost, doubled or out of order, complete clean close, nothing written after sealing; the job ends; the writer implements `HitStore` |
| `seeds` | all spills of at most 4 of 9 kinds of hit over 3 stations with overlapping windows | measurements and links agree; the seeds are all compatible pairs, each once, in row order |
| `tracking` | 4 stations, 4 spills chosen for two hits on a station, two seeds of which one has a hit without a transverse coordinate, a station without hits, no seed; filter and fits fail at will, fits leave any states out | candidates are whole, results follow the candidates, one track per seed, only seeds within the angle reach the filter, completion |
| `histograms` | 3 threads, the spectrometer and simulation histogrammers with all their histograms, 3 calls, up to 2 failing puts, one context that cannot be made, abort at any time | exact and complete histograms, no fill without a context |
| `job` | every configuration of the output over two files; then 2 spills of at most 1 seed over a file of 2 events, one slice of hit types at a time, abort at any time | the same products in every mode, observers with their objects, two files for comparable paths; complete delivery; the job implements `SpillLedger` and ends |
| `philox` | 2 generators of one or two events, counter word of 1 bit, 5 draws each in any order | words fresh until the wrap, streams disjoint, pairs within a block, no read beyond the buffer |
| `geometry_provider` | all 27 namings of all 64 acyclic geometries of four volumes, two stations | stations placed where a walk first meets them, with their width, refusal only if a station is missing, container, end of the job |
| `geometry_selection` | 3 volumes, 3 layers, 2 sensitives; containers of up to 3 elements, every query; field lookups at 11 values of each coordinate | selections and groups exact, also at overflow; field map asked only inside |
| `rec_output_paths` | the registration of `job` alone | fails: see findings |
| `seeds_angle` | as `seeds`, at most 2 hits | fails: see findings |
| `tracking_branching` | as `tracking` | fails: see findings |
| `histograms_title` | as `histograms` | fails: see findings |

Bounds. The calls, threads and tuples of the writer suffice for every pair of
interesting events: two threads on one tuple, two tuples on one file, a thread
waiting for the mutex while its owner fails, a cluster of several hits, a context
left over for the destructor, a second error after a first. Properties are
stated per tuple and per pair of contexts, and the proofs remove the bounds for
most of them. In `seeds` four hits allow 2 x 2 pairs, the least in which rows and
columns differ, and 3 x 1 in which list lengths differ. `IndexRange` stands for
2^32; a spill never has more hits. In `philox` five draws of two words use three
blocks, one more than the counter has values. Four volumes give shared volumes,
a station below another, two volumes of one name and a name in a branch that is
searched in vain. Three elements give a selection with neighbours on both sides,
and a group of three. In `tracking` two concurrent fits show every
interference, as fits share nothing that changes. In `job` a slice is the chain of
one hit type (two where an observer joins them): chains meet in nothing but the
output, whose own concurrency the writer and the histograms have; two spills
show every mix-up between spills, and one seed per spill every one between a
seed and its spill. Two seeds of one spill are in `tracking`; with them `job` does
not finish in five minutes. The coordinates of the lookups lie beyond, on and inside each face of the map, and
include NaN and both infinities. The lookups share the run of the containers,
with which they have no state in common.

Fairness. The writer and the histograms assume weak fairness of the main thread
and of every worker: TBB runs each task that it has started, and `std::mutex` is
only ever held for one flush. `tracking` assumes that the pool keeps running
some fit while one can run, and the unfold while it can; each fit is finite, so
no stronger assumption is needed. `geometry_provider` assumes only that the
one thread goes on. `job` assumes that the registration goes on and that the pool
runs some call as long as there is one; aborting is never required. Deadlock is checked in every run; the final states
stutter explicitly.

## Findings

- `tracking_branching`: the header of `SpectrometerCkf.hpp` (lines 8-11) says every
  candidate at a surface is kept; since `selectNearestMeasurement` is connected,
  one is. The comments at lines 89-96 and 250-252 describe the new behaviour.
- `histograms_title`: `h_spectrometer_track_multiplicity` is titled "Spectrometer
  tracks per event;N;Events", but `validate_spectrometer` observes the layer
  `seed`: it has one entry per seed, and events without a seed have none.
- `rec_output_paths`: the check that the two outputs differ
  (`rec_output_module.cpp` 183-188) compares `weakly_canonical` paths. For a bare
  name of a file that does not exist, that function returns the name itself, while
  a path with a directory becomes absolute. With `rntuple_file = "o.root"` and
  `histo_file = "./o.root"` the first run passes the check and the histogram file
  truncates the RNTuple output, which the comment above the check says it
  prevents.

- `seeds_angle`: the comment on `kMinForwardCosine` (`generate_seeds.cpp` 23-24) calls
  it the "minimum cos(angle from the beam/z axis)" a pair "must have to be considered
  a plausible seed". Line 77 takes `normalized()` of the difference of the two
  positions. If its x or y is NaN, the squared norm does not compare greater than
  zero, the vector comes back as it was, and line 78 compares a distance of metres,
  in mm, with 0.9: the pair becomes a seed. `makeSeedFromHitPair` then finds that the
  direction is not finite (`SpectrometerCkf.hpp` 53) and `fit_seed` drops the seed
  without a word. `OnlyForwardPairsAreFitted`, of `tracking`, shows that this second
  check turns away exactly those seeds.

Observations that are not findings:

`prepare_measurements` copes with an empty product of the geometry or the field
(line 25). The providers of this repository never make one: they throw instead.
The model keeps that branch (`MissingGeometry`), as the code does.

The object that empties the Geant4 stores
is made after the geometry is built (`acts_geometry_provider.cpp` 235). If building
throws, the stores keep their volumes. In the model, which takes it that the
process then leaves through `exit`, `CleanExit` fails; it holds in every job that got
its geometry (`CleanExitOnceProvided`). Whether the process gets that far after an
exception is up to phlex.

`fit_seed` hands on the result of a failed fit. `ResultsFollowCandidates` shows that
its status tells it apart, but `SpectrometerHistogrammer::observe` does not look at
the status and histograms its unset reference position.

`read_digitised_hits` gives every spill all hits of its input, so a job of ten spills
(`workflows/smoke.jsonnet`) writes each hit ten times. `CleanJobIsComplete` is stated
for what the code does. As the hits of two spills are the same, a mix-up of them
cannot be seen; one of contexts, seeds or tracks can.

`workflows/tracking.jsonnet` loads, beside the sources and the tracking, only
`rec_output`, and gives it a creator and a layer, of which it uses neither. The
observers of the other subdetectors then have no producer. The model has the full
workflow of `run_reconstruction.jsonnet`. The plugins that the other two workflows
need to make their input are not in the repository.

A station off the beam axis by more than the margin sticks out of the container,
whose comment says that it spans all stations (`acts_geometry_provider.cpp` 109):
the container is centred on the axis. `ContainerSpansStations` holds for
stations that are off it by no more than the margin, as all are today.

## The proofs

All are checked by TLAPS, from the named assumptions on the constants and
nothing else. `SpectrometerTrackingProofs` has the proofs of measurements and seeds
too, and `ReconstructionJobProofs` those of `RecOutput`, as the tracking and the job
extend them.

`DataLemmas` has what several proofs need of numbers, finite sets and sequences: a
least number exists, a flat index has its row and column within range
(`RowInRange`, `FlatIndex`), what enumerates a finite set in the order of the
numbers before each element (`Enumeration`), the minimum and maximum of an image
(`MinMaxOfImage`), concatenation and append, how often a value occurs in a sequence
(`OccurrencesJoin`, `OccurrencesTail`), and the sum of a function over a finite set: it
exists (`SumsExist`), does not depend on the order (`SumTake`), and changes by what
one element changes (`SumChange`). The sum is a recursive function; what is proved of
it goes by the least counterexample, as no theorem of induction can be used.

`RNTupleWriterProofs`. `FileExclusive` is not inductive. `ControlInv` adds to the
types (i) `LifeCycle`, what each phase implies for the writers and threads, and
(ii) `LockInv`: the thread in `commit` is the owner of the mutex and an owner is in
`commit`. It is proved action by action; `TypeCorrect` and `FileIsExclusive`
follow. `WriterInv` adds to it that a hit in a context or a file was handed over
(its number is at most `done`), that each sequence is injective and all are
disjoint, that without errors nothing handed over is missing, that a context that
does not exist holds nothing, and that a sealed tuple has no context. From it
follow `HitsNotTwice`, `HitsNotLost`, `ClosedFileIsComplete` and
`ImplementsStore`, the refinement of `HitStore`: filling maps to `Accept`, a flush
to `Persist` of a cluster, an error to `Fault`, closing to `Close` or `CloseFails`, and
all else to a stutter. `CallsStayInOrder` needs more: `OrderInv` says that one thread runs a
call, that the hits of a call wait in the context of one thread only, and that
those that wait come after those in the file; only together do they carry the
order through a flush, in whatever order the contexts are flushed.
`SealedTuplesAreFrozen`, an action property, rests on `DyingInv`: a tuple that is
being destroyed is not sealed yet.

`SpectrometerTrackingProofs`, measurements and seeds. `BestStationIsNearest` shows
that the choice of a station is defined and right. `SeedInv` consists of the types, of the fact that nothing
is unfolded while measurements are built, and of `SeedsBelowCursor`. It rests on
`RowInRange` and on the scan returning the first valid index
(`FindNextValidIsFirst`). `SpillInv` adds the containers: the links are filed station by
station and each measurement has one (`LinksFiled`), the measurements are those of
the accepted hits, in their order (`HitsMeasured`), and the unfold works on all
measurements of stations 1 and 2, each once (`UnfoldInv`, which needs that the
selection by station is a run of the sorted links). `LinksAlwaysResolve` is one of
its parts; `AllPairsAreSeeds` combines it with `SeedsBelowCursor` at the end of the
index: what the flat index meets is, through links and measurements, every pair of
hits of the two stations.

`SpectrometerTrackingProofs`, the fits. `TrackingInv` takes `SpillInv` with it and
says that there is one fit for each seed and what a fit has at each stage (`FitRight`): one
branch at most, going downstream, each of its states a hole at a station without
hits or a hit of its station with its link (`GoodBranch`); one candidate if the
branch met hits, with one hit of each station it met, from the last back
(`GoodHits`); one track at most, with hits of the candidate, marked as failed when
its fit failed (`GoodTrack`). The middle part is the backward walk and the look-up
by surface in the refit, which are right only because a branch meets each station
once. `OneTrackEach`, `CandidatesComplete` and `ResultsCorrect` follow.
`OnlyForwardPairsFitted` reaches back to the seeds: one is a pair that passed the cut,
so it is within the angle or without a transverse coordinate (`SeedAngle`), and only
in the first case is its direction finite. A fit takes its verdict when it starts
(`VerdictTaken`), and the measurements of its seed do not change after.

`HistoOutputProofs`. The fills of a call and the histograms of a histogrammer are
joined sequences (`FlattenSeq`): `JoinSteps` and `JoinOver` say what a join contains,
`FillsCounted` that a call fills each histogram as often as `Weight` says.
`FillsHaveContexts` is not inductive: a thread with the first context of a
histogrammer must have all of them as long as the job still starts calls
(`ContextsAreWhole`), and it is only because a failure to make one ends the job that
this holds. `FileMissesFaultsOnly` rests on `EndInv`: each histogram is in the file, is
left to be put (`Left`), or is one of the `faults`, the histograms whose own put
failed, and no two of these at once. `FileCountsCalls`, that the file is
exact, rests on `CountInv`: a call is waiting, run by one thread or completed; the
bins of a histogram are the fills of the completed calls and those that running
calls have done so far (`BinsCount`); its bins are the statistics that reached it and
those waiting in contexts (`EntriesCount`); and nothing waits for a histogram that is
to be put or in the file. The hard steps are the fill, which moves one unit from
what a thread has to do to bins and context, and the destructor, which empties the
contexts of all threads at once.

`ReconstructionJobProofs`. For the registration: `OutputsAreApart` rests on an
invariant of the two checks: once the writer exists the paths have been compared
and, as far as they are comparable, found different; a file made by the job is not
taken for one that was there before. `SimWritersAreThere` needs that what is still
to be registered is, in each step, a tail of the list of that step.
`SameProductsObserved` rests on `PlanInv`: what the observers of an object have been
given, and what those still to be registered will be given, is in each step what
is planned for it. For the job: `JobRegisters` shows that a job does nothing to the
registration but run it, so that its invariants carry over. `JobInv` says of every
product in the store that it is the right one for its cell (`Right`), of every seed
that it is in the store, of every call that it was made once and with what belongs
to its cell, and of a complete job that every call was made. The step that
completes a job is the hard one: nothing may be ready, so, down the chain of nodes
(`QuietMakes`, then `QuietDelivers`), everything was made. `CompleteJobs` follows, and
`JobsKeepTheLedger`, the refinement of `SpillLedger`: the end of the
registration and an unfold map to `Owe`, the call of an observer to `HandOver`, the
two ends of a job to `Complete` and `GiveUp`, all else to a stutter.

`PhiloxRngProofs`. `RngInv` says of every generator that its blocks so far are the
counters below `ctr0` (until the wrap), that the words used from the buffered
block are those before `idx`, and that `ctr1` is the event. Freshness follows as a
new word is beyond every word used, disjointness from `ctr1`.

`GeometrySelectionProofs`. The heart is that packed identifiers are ordered as
their components are (`ValueOrder`), so that the container, which every insertion
keeps sorted, has what is asked for in one run. `SelectionsAreExact`: the two
bounds of a query enclose this run, and nothing when the upper one overflows.
`GroupsAreComplete` is about `groupByModule`, whose key is the whole identifier; it
needs `GroupInv`: a group begins at the first element of its key and goes to the end
of it. For the field, `LookupsAreSafe` is inductive with the
types; its heart is `GuardsAreTheBox`: the comparisons that reject a position, NaN
and infinities included, let through exactly the points of the closed box.

`GeometryProviderProofs`. `SearchInv` relates phases, stations and the open calls.
`StationsFitContainer` holds of a container built from the stations as found, by the
minimum and maximum of their faces; along the beam it leaves the margin, across it
it speaks of stations off the axis by no more than the margin. `RefusalsAreRight` is about the search itself: `WalkInv` says that
the open calls are a path from the world (`Nested`) and that no path to the target
goes through a daughter that a call is done with (`Explored`); when the call for
the world returns empty-handed, there is no path. `StationsWherePlaced` adds
`PlaceInv`: each level of the history is the one above moved by its placement
(`Positioned`), and no caller is for a volume of the target (`Unmatched`). When a
volume matches, the open calls are a path to it (`FoundPath`), the history ends at
the sum over that path (`RunningTotal`), and any other path parts from it at a later
daughter, as `Explored` excludes the earlier ones (`FoundFirst`). It needs
`PlacementAssumption`, which Geant4 guarantees: a placed volume is added to its mother
once, and no volume lies within itself. `CleanExitOnceProvided` is not
inductive; `ExitInv` says that there are no surfaces before the build, and that
from then to the exit the cleanup is held or has emptied the stores.

Only model-checked: liveness (`Terminates`, `SpillCompletes`, `Closes`, `Ends`,
`JobEnds`), which is out of the prover's reach. Every invariant of a passing run and
each of their other action properties and refinements has a theorem.

## Not modelled

The constant hit uncertainty, the small plugins (two identity or filter nodes and
an observer that is not built) and the scripts of the smoke test. Of the modelled
parts: values and layout of the output, rotations and the second transverse
coordinate of the geometry, what a failed Geant4 conversion leaves behind, the
values of the field, fit parameters, the order by time and the Kalman filter
accessor of the containers, which nothing uses, and `findTracks` and
`trackProxyToFitResult`, which nothing calls. Files that cannot be opened for
reading end the job before it starts. PROJECT.json gives the reason for each part.

## Plan

1. Done: `HitStore`, `RNTupleWriter`; `SpectrometerMeasurements`,
   `SeedGeneration`, `SpectrometerTracking`; `HistoOutput`; `RecOutput`; `SpillLedger`,
   `ReconstructionJob`; `PhiloxRng`; `GeometryProvider`; `GeometrySelection`;
   `FieldProvider`; the proofs listed above.
2. An abstract search (the first path in the order of the walk) that
   `GeometryProvider` implements; `FoundFirst` and `NothingBelow` are its two steps.
