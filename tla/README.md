# Palladio in TLA+

Palladio is a plugin for Houdini that runs CityEngine rules on geometry. This
directory models its control: how a `pldAssign` and a `pldGenerate` node split
their input, share caches and threads with one another, and put together what
the rule engine (PRT) hands back. The modules are written from the sources in
`src/src/`; TLC checks them on small instances, TLAPS proves the central ones
for all instances. `PROJECT.json` has the line of the code for each definition,
the hazards each property is for, and for each property a plausible bug that
breaks it.

## 1. The system

Two nodes make up the program. `pldAssign` divides the incoming primitives into
parts, evaluates the default rule attributes of each part, offers them as node
parameters and writes what is needed to generate a part to its primitives.
`pldGenerate`, behind it, reads that back, makes one initial shape of each part
and lets PRT generate them on several threads. PRT calls back into an encoder of
its own (`src/src/codec`), which hands geometry and attributes to one
`ModelConverter` per thread, and all of these append to one Houdini detail.
`PRTContext` is one per process: it owns the PRT library, the PRT cache and the
cache of resolve maps.

| Component | State | Operations | Interacts with | What is hard | Correct when |
|---|---|---|---|---|---|
| generate node cook (`SOPGenerate`) | initial shapes, statuses, futures | `cookMySop`, `batchGenerate` twice | converters (one per thread), PRT threads, the host's interrupt | ranges of shapes, two joins, threads that share detail and statuses | every shape is generated or reported once, nothing of one shape lands on another, the cook returns |
| model converter (`ModelConverter`) | detail, hole groups, attribute builders, `mDetailMutex` | `add`, `createPrimitives`, `generateError`, `progress`, `attr*`, `buildHoles` | called by PRT and the encoder from each thread | offsets into a detail that others append to, flat index arrays, deleting primitives | primitives get corners, group, material, report, attributes of their own shape; holes go last |
| houdini encoder (`codec/encoder`) | none between shapes | `encode`, `serializeGeometry`, `convertGeometry`, `forwardGenericAttributes` | calls the converter: attributes first, then `add` | meshes with and without uv sets and holes packed into one set of arrays; parallel vectors of face ranges, materials, reports, shape ids | each face keeps its own corners and holes; the entries of one index belong together |
| rule package context (`PRTContext`) | PRT cache, `mResolveMapCacheMutex`, cores | `getResolveMap`, `scheduleRecook` | all nodes and menus | a miss recooks nodes, also the one that asks | the two caches of a package agree, a changed package reaches the nodes |
| resolve map cache (`ResolveMapCache`) | map, time stamp per package | `get` | the file system | time stamp and contents are read at two moments | an entry with the stamp of the file has its contents |
| attribute conversion (`AttributeConversion`) | a shared string cache; handles of one `ToHoudini` | `convert`, `toPrimAttr`, `FromHoudini` | `LockedLRUCache` from all threads; the detail | one cache for two conversions, a gap between get and insert; handles that serve all maps of a call | each caller gets its own conversion, no value lands on another face or name |
| LRU cache (`LRUCache.h`) | map and list with iterators into each other | `insert`, `get`, `evict` | attribute conversion | stale iterators, capacity | it is a store of the most recently used keys |
| classifier and partition (`PrimitiveClassifier`, `PrimitivePartition`) | parts by value | `updateFromPrimitive`, `add`, `put` | both nodes | a fallback part, names per primitive | both nodes divide alike |
| initial shapes (`ShapeConverter`, `ShapeGenerator`, `ShapeData`) | builders, mapping, seeds, names, by index | `get`, `put`, main attributes | both nodes | vectors that must stay in step when a shape fails | `pldGenerate` sees what `pldAssign` evaluated |
| assign node cook (`SOPAssign`) | main attributes, default values, rule file info | `cookMySop`, `updateDefaultCGAAttributes`, `buildUI`, `updateUIDefaultValues`, `updatePrimitiveAttributes`, `opChanged`, `load` | `PRTContext`, PRT, the parameters of the host | three lookups in one cook; parameters that are written by the cook they trigger | shown parameters belong to the package in use and agree with what is generated; values of the user stay |
| attribute evaluation callbacks (`AttrEvalCallbacks`) | builders, rule file infos | `attrBool`, `attrFloat`, `attrString`, ... | called by PRT with an index | the index | hidden attributes of a shape are left out, no others |
| node parameters (`NodeParameter`, `NodeSpareParameter`) | package, style, start rule; spare parameters in folders | `updateRPK`, `findStartRule`, `addParm`, `addFolder`, menu generators | `PRTContext` | lookups outside cooks; folders found by joined names | each parameter is in the folders of its attribute |
| rule attributes (`RuleAttributes`) | an ordered set | `getRuleAttributes`, `setGlobalGroupOrder`, comparator | `buildUI` | a strict weak order of mixed criteria | no attribute is lost, groups and orders count |
| annotation parsing (`AnnotationParsing`) | none | traits, enumerations, ranges, colours | `buildUI` | `@Range` in three forms, traits that exclude each other | each parameter is of the kind its annotations call for |
| log handler (`LogHandler`) | global level, recent messages | `ScopedLogLevelModifier` | all cooks | save and restore by cooks that overlap | the level of the user comes back |
| rule package file system (`palladio_fs`) | a reader per file | open, read | host's texture reader | a cache that is not flushed | - |
| utilities, stop watch, plugin entry points, build and tests | none | - | - | - | - |

`PROJECT.json`, "components", says for each which module covers it and what is
left out. "hazards" has, at its line, everything we know of in this code that a
test would hardly reach, with the property that is for it, or why there is none.

## 2. The modules

### SOPGenerate: one generate node and its threads

| In the code | In the model |
|---|---|
| `PRTContext::mCores`, `is.size()` | `cores`, `nis` |
| `nThreads`, `isRangeSize`, `isStartPos`, `isPastEndPos` | `NThreads`, `RangeSize`, `Start`, `PastEnd` |
| `for (int8_t ti = 0; ti < nThreads; ti++)` | `Launched`: the values an int8_t runs through, with `IndexHalf` for 2^7 |
| a `std::async` thread in `prt::generateOccluders` or `prt::generate` | `at[t]` and its shape `pos[t]`: `Occlude`, `Fail`, `Succeed`, `Finish` |
| a call of PRT that fails as a whole, which is logged | `OccluderCallFails`, `GenerateCallFails`: the rest of the range is skipped |
| `ModelConverter::add` | `AddMark`, `AddBuild`, `AddConvert` between taking and releasing `lock` |
| `mDetailMutex` | `lock`, the set of threads inside |
| the detail | `detail`, by offset; `end` the last offset |
| `mHoleGroups`, `buildHoles` | `holeGroups`, `WithoutHoles` in `FinishCook` |
| `initialShapeStatus`, `generateError` | `status`, `GenerateError` |
| `future.wait()` for all | `Joined` |
| `UT_AutoInterrupt`, `progress` | `Interrupt`, `interrupted`, the second disjunct in `Finish` |

`StartCook`, `StartGeneration` and `FinishCook` are `cookMySop` up to the first
join, between the joins and after the second. `CookNothing` and
`CookInterrupted` are the cooks that do not get to the batches. Primitives are
records of who made them (`shape`, a history) and of what was written to them.
`Succeed` and `AddMark` are two actions because a thread that got geometry from
PRT can only wait for the mutex then: with one action a thread that never gets
the mutex could still end its shape as failed.

### EncodeShapes, Geometry, AttributeHandles: what one thread hands to its converter

| In the code | In the model |
|---|---|
| the initial shapes a thread gets, and the leaves PRT generates of them | `NextInitialShape`: any sequence of `Leaves` |
| `HoudiniEncoder::encode`, `forwardGenericAttributes`, the `attr*` callbacks | `Forward`, into `builders` by shape id |
| `convertGeometry`: face ranges, materials, reports, shape ids | `FaceRanges`, `InstanceShapeIds`, in `Deliver` |
| `serializeGeometry`: flat arrays, uv sets, holes | `SerializeGeometry` in `Geometry` |
| `createPrimitives`, hole groups | `Corners`, `HoleGroups` in `Geometry`, in `Deliver` |
| the loop of `ModelConverter::add` over face ranges | `ConvertMaterial`, `ConvertReport`, `ConvertAttributes` |
| `ToHoudini::convert` and its handle map | `Convert`; `Extracted`, `Created`, `SetValues` in `AttributeHandles` |
| the end of `add` and of its `ToHoudini` | `Return` forgets `handles` |

One thread is enough: `SOPGenerate` shows that `add` runs alone, and the
builders belong to one converter. The two modules share `ModelConverter::add`:
`SOPGenerate` has its critical section and one face range, `EncodeShapes` what
happens in it. A point, normal or texture coordinate is named by its mesh and its
place there, an element of a value by the map and key it comes from, so that a
mixed up index or handle shows. What Houdini does when an attribute is added
under a name that has one of another type or size is not in the repository:
`replaces`, chosen in `Init`, covers both answers. When there are fewer shape ids
than face ranges the code reads past the array: what it reads is the id of some builder
or of none. The builders are kept by shape id alone, also from one initial shape to the
next, so it matters which ids PRT gives: `ShapeIdOf` is a constant, and the named
assumption `ShapeIdsApart` says that no two leaves of a thread share one.

### PRTContext: packages, caches, recooks

| In the code | In the model |
|---|---|
| a package file and its modification time | `disk[r]`, a version that stands for both; `Write`, `Delete` |
| `ResolveMapCache::mCache` | `cache[r]`: the stamp and the version the map was read from |
| `mPRTCache` | `rules[r]`: the version of the rule file in it |
| `ResolveMapCache::get` under `getResolveMap`'s lock | `LookupMissing`, `LookupHit`, `LookupMiss` (stamp read) then `Load` (package read) |
| `flushAll`, `scheduleRecook`, unlock | `Flush` |
| the `flushAll` of `updateRPK`, without the mutex | `Optimize` |
| the lookups of one `SOPAssign` cook | `stage` 1 to 3, `Continue` |
| `createRuleFileInfo`, `prt::generate` | `Info`, `Generate`: without the mutex |
| `forceRecook` | `dirty`, which a cook that runs does not lose |

`Clients` stands for everyone else who asks for packages: generate nodes, menus,
`updateRPK`.

### LRUCache, RecencyStore, StringConversion

`LRUCache` is `lru_cache` with iterators: `m_map[k].it` is the list node the
iterator points to, and freed nodes are allocated again, so that a stale
iterator would hit another key. `RecencyStore` is the abstract promise: a sequence of
keys by last use with a value each. `EvictsLeastRecentlyUsed` is the refinement
(`INSTANCE RecencyStore WITH recent <- the keys of the list, binding <- the
values of the map`). `StringConversion` lets threads run through
get, convert, insert on this cache as `NameConversion::toPrimAttr` and the
string `setHandleRange` do, with the lock held for each call and not between.
Strings are a style prefix and a stem; `Narrowed` and `PrimAttrName` say what
the conversions do to them.

### ShapeAssign: a geometry through both nodes

`Get` to `Put` are a cook of `pldAssign`, `Divide` and `Extract` the reading in
`pldGenerate`. `Parts` is the partition, `mapping`, `infos`, `shapes`, `ambs` are
the vectors of `ShapeData` and of `evaluateDefaultRuleAttributes`, with the
lengths that failed calls give them. The detail between the two nodes is all
they share. Every cook is modelled on its own input: `Init` has all inputs. A seed
attribute may have any value, the 0 of a shape without one included.

### AssignParms and what it rests on: the rule attribute parameters

`AssignParms` is a `pldAssign` node between its package, its spare parameters and
its user. The modules below it are pure operators; each extends the one before.

| Module | What it has |
|---|---|
| `RuleAttributeCmp` | `RuleAttributeCmp::operator()` and the comparisons it is made of |
| `RuleAttributes` | `getRuleAttributes`: imports, `@Order`, `@Group`, `@Hidden`, `setGlobalGroupOrder`, the insertion into the `std::set` |
| `AnnotationParsing` | which annotations give an attribute which traits, options of enumerations, colours |
| `NodeSpareParameter` | the folders as a sequence of begins and ends, `addParm`, `addFolder`, and the parameter made for each kind |
| `AssignParms` | the node |

| In the code | In the model |
|---|---|
| `SOPAssign::cookMySop` | `Cook`: `Overrides` are sent, `Evaluate`, parameters are built anew if their types do not fit, `UpdateUIDefaultValues` |
| its early returns | `CookFails`: before or after `mDefaultCGAAttributes` is set |
| `mDefaultCGAAttributes` | `defaults` |
| `compareAttributeTypes` | `CompareAttributeTypes` |
| `buildUI`, `NodeSpareParameter::add*` | `BuildParms`, `BuildLayout` |
| `generateAttributeMapFromParameterValues` | `Given`, by `GivenAs` for menus and lists; `Overrides` |
| what the last cook sent (a history) | `sent`, forgotten with every change that makes another cook due |
| `updatePrimitiveAttributes`, read back by `pldGenerate` | `PrimAttributes`, `FromHoudini` |
| `opChanged` after an edit of the user | `Schedule` in `SetParm`: `Edit`, `AddItem`, `RemoveItem`, `Revert` |
| `updateRPK`, `findStartRule` | `ChoosePackage` |
| a package file that is replaced and reloaded | `ReloadPackage` |
| `load` of a scene | `Load`: parameters stay, `defaults` are lost |

The writes of a cook to parameters, and the `opChanged` they cause, are part of
`Cook`: if a value changes, `state` is dirty again. A rule is a declared value for
each attribute, or the name of another attribute it takes its value from, so
that a set value changes others.

### MC modules

`MCSOPGenerate`, `MCPRTContext`, `MCEncodeShapes`, `MCStringConversion`,
`MCShapeAssign` and `MCAssignParms` give the constants values for TLC. There is no
symmetry: the runs with liveness rule it out, and in the others order matters.

### Proof modules

`SOPGenerateProofs` about `SOPGenerate`, `PRTContextProofs` about `PRTContext`,
`RuleAttributesProofs` about `RuleAttributes` and `RuleAttributeCmp`,
`StringConversionProofs` about single operations of `LRUCache` and the threads that
use it, `ShapeAssignProofs` about `ShapeAssign`, `AssignParmsProofs`, which rests on
`RuleAttributesProofs`, about `AssignParms` and `NodeSpareParameter`,
`GeometryProofs` about `Geometry`, and `EncodeShapesProofs`, which rests on it,
about `EncodeShapes` and `AttributeHandles`: see section 5.

## 3. What the runs check

| Run | Bounds | Question |
|---|---|---|
| `SOPGenerate` | up to 3 cores, 3 shapes, index type large enough | Do the ranges cover each shape once (`OutputComplete`), does each primitive keep to its shape (`OwnGroupAndAttributes`), are the batches in order (`OcclusionBeforeGeneration`, `HolesAfterLastAdd`), is a cook aborted only for a reason (`AbortOnlyIfAllErred`), does it return (`CookReturns`)? |
| `SOPGenerateAllFail` | 2 cores, 2 shapes | "if all shapes fail, we abort cooking": violated |
| `SOPGenerateManyCores` | 3 cores and shapes, index half 2 | More threads than the index counts: `OutputComplete` violated |
| `PRTContext` | 2 assign nodes, 1 client, 1 package, 2 versions | `EntryFresh`, `RulesNotOlder`, and the reload that reaches nodes (`ReloadReachesNodes`) |
| `PRTContextRecooks` | 1 assign node, 2 packages (one may be named by an attribute), 2 versions | Do recooks end (`RecooksEnd`)? |
| `StringConversion` | 2 threads, 4 strings, capacity 3 | Iterators, refinement of `RecencyStore`, right answers (`ConversionRight`) |
| `StringConversionShared` | 1 thread, strings in both roles | The answer made for another role: violated |
| `EncodeShapes` | 2 initial shapes of up to 2 leaves of 4 kinds, 3 settings of what to emit, both answers of the host | Does a face have the corners of its own mesh (`CornersOwn`), a group its own holes (`HolesOwn`), a primitive the values of its own mesh, leaf and shape (`KeepsValues`) and no others (`NoForeignValues`)? |
| `EncodeShapesMeshes` | the same | "contains faceRangesSize-1 values": violated |
| `ShapeAssign` | 3 primitives, 2 packages, 3 classifier values, 1 seed | Does `pldGenerate` see what `pldAssign` evaluated (`GenerateSeesAssigned`), are attributes and defaults of the right package (`OwnAttributes`, `DefaultsOfFirstPart`)? |
| `ShapeAssignFailing` | the same | Does every assigned shape get there when others fail: violated |
| `AssignParms` | 5 packages, 6 edits, lists that the user gives up to 2 items | Do parameters show what is generated (`ShowsGenerated`), does generation get the values that the cook sent (`GenerateGetsOverrides`), is every attribute there and in its place (`NoAttributeLost`, `ParmsInOrder`), do values of the user stay (`SetValuesKept`), do cooks end (`Settles`)? |

Why these bounds. Three shapes on two cores give a range with a remainder, on
three cores each its own; one with one core is sequential. Every interleaving at
`add` needs two threads, a third thread adds one that has finished. Two versions
make a package stale once in each place it is kept; `MaxVersion` bounds
`Write`. A cache of three under four strings evicts, re-uses nodes and moves entries
from the back, middle and front. Of the leaves, one has one mesh, one has two, one has
other types under the same names, and one has no geometry; the meshes have no uv
set, one or three, and a hole or none. Two leaves put a face range after one of
another leaf and after one of the same leaf; the second initial shape adds an
offset, old builders and attributes that are there already. Three primitives allow a fallback part next to two
classes and a part of two. The index type of `batchGenerate` holds 128 values;
`IndexHalf` stands for this number, large enough in the run `SOPGenerate` and too
small in `SOPGenerateManyCores`. The packages of `AssignParms` are three versions of
one (other values, options, dependencies and traits of the same attributes, one of
them hidden; one attribute more, and one of another type), one
with imports, groups, orders, colours, a percentage and a menu of numbers, and one
with toggles and a list: between any two of them some attributes go, come, or
change their kind. There is an edit for a parameter of each kind that others
depend on; a list of up to two items can grow and shrink.

In `PRTContextRecooks`, `EncodeShapes*`, `ShapeAssign*` and `AssignParms` deadlock is not an
error: the one when nobody has to cook and packages have reached their bound,
the others when the bounded work is done.

Preconditions in properties. `GenerateSeesAssigned`, `OwnAttributes` and
`DefaultsOfFirstPart` hold if PRT made an initial shape of each part (`InStep`),
`GenerateSeesAssigned` if no input primitive names another classifier than
the node does (`OneClassifier`). Runs with failing shapes or other names are part of
the state space, and `ShapeAssignFailing` shows what happens without `InStep`. `KeepsValues`
and `NoForeignValues` leave out the attributes of calls with too few shape ids, the
subject of `EncodeShapesMeshes`. `KeepsValues` is about names that mean one thing
(`Plain`): one kind of map, one key, always of one type and size; arrays are left
out if the host replaces attributes and attributes are emitted together with
materials or reports, for the reason given below. `ShowsGenerated` is about cooks that
sent the set values as they are on the node afterwards (`sentAll`): each set
parameter whose attribute the package has was sent as a value of the type it is
for, the rule reports its attribute back, and the cook kept the parameter. What
happens otherwise is below. `GenerateGetsOverrides` compares what is on the primitives with
`sent`, which was sent by the default values of before the cook; where not all was
sent (`sentAll`) it is about the parameters that need no default value to be sent, those other
than menus and lists. Both leave out set percentages and menus of numbers (`Scaled`), which reach the
two nodes in different forms. In `NoAttributeLost` two folders may be one if their paths
joined with dots are the same. All these cases occur in the instances.
`ConversionRight` in `StringConversion` is checked for strings that are not
used in two roles with different results, the subject of `StringConversionShared`.

### Where code and intent disagree

The runs that are expected to fail show five disagreements, each with the
line that says otherwise in `PROJECT.json`, "findings":
failures are filed under an index that counts from the start of a thread's range;
the thread index is an int8_t; one cache for two string conversions; a shape id
per instance where one per face range is promised; and vectors out of step after a
failed initial shape.

Others became visible while the modules were written. They have no run of their
own, and the properties leave them out explicitly (paths without `src/src/palladio/`):

- The values of menus and lists are sent to PRT only if `mDefaultCGAAttributes` has
  their attribute (`SOPAssign.cpp:546`, `:576`). After a scene is loaded it is
  empty, so the first cook evaluates dependent attributes without them, while
  `src/README.md:481` says "Only pass non-default rule attribute values to PRT. This
  fixes setting inter-dependent rule attributes". What depends on them stays
  wrong until the next cook.
- A call of PRT that fails as a whole is logged and changes nothing else
  (`SOPGenerate.cpp:124`). The statuses stay as they are, so a cook returns without an
  error, and without geometry, even if all calls fail. `OutputComplete` has such shapes as
  `"skipped"`: nothing of them is in the detail.
- The types of these values are those of the cook before (`SOPAssign.cpp:550`). If
  it was one with another package and failed after the evaluation, the option of a
  menu can be sent as a value of another type than its attribute has, and the rule
  ignores it.
- A cook that builds the parameters anew evaluates with the set values first and
  then makes the evaluated values the default values of the new parameters
  (`SOPAssign.cpp:1232`, `:1256`). A set value so becomes a default value, which is
  not written to primitives (`:993`): `pldGenerate` uses the value of the rule, and
  the next cook shows that. It happens when a reloaded package has an attribute
  more, or one of another type.
- A parameter stays set when a reloaded package hides its attribute. Its value is
  sent to the evaluation and counts for the attributes that depend on it
  (`SOPAssign.cpp:528`), but is not written to primitives, as the rule does not report
  it back (`:998`).
- `scheduleRecook` promises "all assign nodes with matching rpk"
  (`PRTContext.cpp:104`), but compares the package of the main attributes only
  (`:113`): a node that uses the package because a primitive attribute names it is not
  recooked.
- A percentage is divided by 100 on its way to primitives, not on its way to the
  evaluation (`SOPAssign.cpp:1072`, `:614`); the option of a menu of numbers becomes a
  string attribute.
- Each `convert` creates the attributes of all handles of its `ToHoudini` again, as
  arrays when it is called for attributes, as tuples otherwise
  (`AttributeConversion.cpp:319`). If the host replaces an attribute of another
  kind, its values are lost.
- A rule attribute with the primitive name of a report or material key is never
  written, as the handle has the other key (`AttributeConversion.cpp:406`).
- `findStartRule` takes the last rule with the annotation, where its comment
  (`NodeParameter.cpp:44`) speaks of the first.
- Attributes of a package with the name of one of its imports can be equivalent
  in the order, and the set keeps one of each two (`RuleAttributes.cpp:107`).

## 4. Fairness

`SOPGenerate` assumes weak fairness of each thread's steps and of the cooking
thread: the threads of `std::async(std::launch::async, ...)` are scheduled, PRT
finishes each shape, and a thread that waits for `mDetailMutex` gets it: a batch has
finitely many shapes, so nobody can be overtaken for ever. Nothing is assumed of
the user.

`PRTContext` assumes weak fairness of `StartCook` (the host cooks a displayed node
that is dirty) and of the steps inside a lookup, and strong fairness of `Lookup`:
others take the mutex again and again, and `std::mutex` gives no order, but a
waiting thread is not kept out for ever by any scheduler Houdini runs under.
Nothing is assumed of `Write`, `Delete` and `SetParm`. `RecooksEnd` has
its own premise: from some time on packages can be read and nothing changes.

`AssignParms` assumes weak fairness of `Cook \/ CookFails`: the host cooks a
displayed node that is dirty. It is written out (`Fairness`), as a cook is possible
in exactly the dirty states. `Settles` has the premise that the user leaves the
node alone from some time on.

## 5. What is proved

`SOPGenerateProofs`, for every number of cores, initial shapes and cooks:

- `TypeCorrect`: `TypeOK` and `PhaseInv`. Threads work on, and report errors of,
  initial shapes of the cook only.
- `OwnGroupAndAttributesHolds`: the property `OwnGroupAndAttributes`.
- `OcclusionBeforeGenerationHolds`: the property `OcclusionBeforeGeneration`, if
  `MaxCores <= IndexHalf`. The assumption is needed: this is the int8_t.
- `HolesAfterLastAddHolds`: the action property `HolesAfterLastAdd`.
- `AbortOnlyIfAllErredHolds`: the property `AbortOnlyIfAllErred`. On its way,
  `SlotInRange`: the index of `generateError` is always one of the status vector.

The only other assumption is `GenerateAssumption`: the constants are numbers, of
cores there is at least one.

The argument. The ranges: lemmas about `Start` and `PastEnd` say that each is
inside the array (`RangeBounds`), consecutive ones meet (`RangesMeet`) and all
together cover it (`RangesCover`), from one fact about integer division
(`DivFacts`). The inductive invariant is

    IInv == TypeOK /\ PhaseInv /\ MutexInv /\ BlockInv

`TypeOK` is not inductive alone: that a status is written inside the vector needs
to know that a working thread has a range, which `PhaseInv` says by tying `at` to
the phase of the cook. `MutexInv` says that at most one thread is inside `add` and
that the end of the detail is still what this thread saw. `BlockInv` follows the
primitives: each is in its own group, and only those of the block built last lack
their attributes. `OwnGroupAndAttributes` is a consequence. For occlusion
`OccluderInv` says that all shapes a thread has passed are occluded;
with `AllLaunched` and `RangesCover` all shapes are when the batch is joined.
`AbortOnlyIfAllErred` is less plain than it looks, because errors are filed in the
wrong slots: `StatusInv` says that a slot is marked only if some thread met an
error at this distance from its start, and `LastSlot` that the distance can reach
the last slot only if one thread has all shapes. So with several threads no cook
with initial shapes aborts at all after its batches, and with one thread slots and
shapes are the same.
TLC has checked these formulas as invariants before they were proved.

On top of that invariant:

- `OutputCompleteHolds`: the property `OutputComplete`, if `MaxCores <= IndexHalf`.

That the ranges cover all shapes was needed for occlusion already; here they also
have to be disjoint (`RangesDisjoint`), or a shape could be generated twice. The
invariant is

    CompleteInv == NothingYet /\ ProgressInv /\ HolesInv /\ FacesInv /\ OutputComplete

and it is inductive together with `IInv`. `ProgressInv` says that a thread has
dealt with exactly the part of its range that lies before its position, which
needs that no other thread decides about its shapes. `FacesInv` says that a shape
has one face from the moment its block is built, and no primitive before.
`HolesInv` says that what `buildHoles` removes are all the holes and no face;
`FinishCook` then turns the three into `OutputComplete`. A call that fails deals with the rest
of its range at once: these shapes are skipped and have nothing in the detail.

`PRTContextProofs`, for any nodes, clients and packages:

- `TypeCorrect`, `EntryFreshHolds`, `RulesNotOlderHolds`: the properties `TypeOK`,
  `EntryFresh` and `RulesNotOlder`, from `PRTContextAssumption`.

The inductive invariant is

    IInv == TypeOK /\ Asking /\ Holding /\ StampRead /\ EntryOrdered /\ RulesInv

`EntryOrdered` (stamp, contents and file are never in the wrong order of age)
gives `EntryFresh` at once; `Load` keeps it because of `StampRead`: the stamp of
a lookup is not newer than the file. `RulesNotOlder` is not inductive: between
`Load` and `Flush` the entry is new and the rule file old. It compares the rule file with
the version that the resolve map was made of, not with the time stamp of the entry,
which is older if the package was written between the two readings. `RulesInv` excepts
exactly the package of a lookup about to flush, and `Holding` says that there is
none while the mutex is free.

`RuleAttributesProofs`, whatever the annotations of the attributes say:

- `BeforeIrreflexive`, `BeforeTransitive`, `Indistinguishable`: the comparator is
  a strict weak order, as `std::set` requires, and attributes it does not tell apart
  agree in all it looks at. The last two are under `Consistent`: attributes of one
  file agree about the file, those of one group about its order, and a group is not
  after a group in it. Without that it is not transitive.
- `SetGlobalGroupOrderConsistent`: `setGlobalGroupOrder` brings this about for any
  package, if attributes of one file agree about the file (`FilesAgree`); they do
  unless an import has the name of the package (`DeclaredFilesAgree`).
- `InsertKeepsSorted`: insertion keeps a sorted set sorted, and drops only what is
  equivalent to something there.

The argument: the comparator has one rule for two groups, one for a group and a
single attribute, one for two single ones. `FileOnALine` shows that within a file
all three come to the same: everything has a place, a pair of numbers, and at one
place groups are in the dictionary order of their paths, parents first. Dictionary
order is transitive and total (`LexTransitive`, `LexTotal`).

From one insertion to the whole set:

- `SortedSet`: the `std::set` of any sequence of consistent attributes is sorted,
  has only what was inserted, and lacks one only for another that the comparator
  does not tell from it.
- `RuleAttributesSorted`: the same of `getRuleAttributes` for any rule file that is
  `WellFormed`: annotations give names and ints, and no import has the
  package's own name. The latter is needed, see the last item of section 3.
- `NoDeclarationLost`: none of its visible attributes is lost if each has one
  declaration (`OneDeclaration`). The comparator does not look at the style, so of an
  attribute declared for two styles the set would keep one.

`GetRuleAttributes` and the folders are folds. The definition of a fold is
a function, chosen by its equations; that it exists has to be proved, and what it
computes is shown by induction. The library's induction theorems have an
operator as parameter, which no backend can instantiate; `StepInduction` is the same
fact about the *set* of indices at which something holds, and sets can be
instantiated. The function of each fold and its set are defined where it is used.

`StringConversionProofs`, for any threads, strings and capacity, from
`LRUCacheAssumption` (there is room for one entry), `StringConversionAssumption` and
`ConversionAssumption` (the cache is for the strings and conversions of the requests):

- `CacheTypeCorrect`, `IteratorsValidHolds`: the properties `CacheTypeOK` and
  `IteratorsValid`.
- `StoreRefined`: the refinement `EvictsLeastRecentlyUsed`.
- `ConversionRightHolds`: the property `ConversionRight`, if requests for one string
  convert it to the same (`NoSharedStrings`). Without this it is false, which is what
  the run `StringConversionShared` shows.

Its first part has the argument for one operation of the cache. `Matches(list, entries)` says
that a list and a map describe each other: no node twice, every iterator at the node
of its key, as many entries as nodes. It is about any list and map because `insert`
and `get` erase first and push afterwards: `EraseMatches` and `PushMatches` are the
two halves, and `CacheInv` is `Matches` of the cache with its bound. `IteratorsValid`
is weaker than that, and not inductive: it lets two nodes be one. For the
refinement, the keys of the list without a node are the keys without the key in it
(`KeysOfErased`), so that a hit is a `Use` and an insert of a new key a `Bind`;
everything else is a stutter. `ConversionRight` needs `CacheRight`: what the cache
has for the key of a request is the conversion of this request.

`ShapeAssignProofs`, for any number of primitives, any packages and classifier
values, from `ShapeAssignAssumption` (there is a primitive, classifier values are
numbers, a package hides only attributes it has):

- `TypeCorrect`: the property `TypeOK`; parts are not empty and a partition, the
  vectors have the lengths that the code relies on, also when calls fail.
- `OwnAttributesHolds`, `DefaultsOfFirstPartHolds`, `GenerateSeesAssignedHolds`: the
  properties of these names, with the preconditions given in section 3.
- `AssignedReachGenerateInStep`: what the run `ShapeAssignFailing` shows violated
  holds whenever PRT made an initial shape of each part (`InStep`). A failed
  creation is therefore the only cause of the violation.

The argument. The parts are the values of the classifier in order. `PartsByRank` and
`RanksAreABijection` give each value of a finite set of integers one rank and each
rank one value, and so a partition of the primitives. The inductive invariant is

    IInv == InputInv /\ DetailInv /\ MappingInv /\ VectorsInv /\ AttributesInv /\ ExtractInv

`VectorsInv` says which vectors have been filled up to which index, in every phase,
and that entry i is about part i as long as no creation failed. `AttributesInv` ties
each attribute map to the index it was evaluated under: the callbacks filter with
the rule file info of this index, not with that of the shape, and only
`VectorsInv` says that they are of the same package. `DetailInv` says that the
primitives are as in the input until `put`, and what they have afterwards.
`ExtractInv` is the same for the reading in `pldGenerate`; `GenerateSeesAssigned`
follows because the partition of the written detail is that of the input when there
is one classifier name.

`AssignParmsProofs`, for any packages and any values a user sets, through cooks that
succeed or fail, edits, new and reloaded packages and scenes:

- `AttributesComplete`: for each package, the sorted attributes are exactly the
  visible ones of its rule file.
- `TypeCorrect`, `ParmsInOrderHolds`, `NoAttributeLostHolds`,
  `GenerateGetsOverridesHolds`: the properties `TypeOK`, `ParmsInOrder`,
  `NoAttributeLost` and `GenerateGetsOverrides`.
- `SetValuesKeptHolds`: the action property `SetValuesKept`, if `OneStyle`.
- `ShowsGeneratedHolds`: the property `ShowsGenerated`.

`ParmsInOrder` and `NoAttributeLost` are about what `buildUI` would make of the
package of the node. They are stated where the node has no parameters yet, which
is so in an initial state for every package; the lemmas `InOrder` and `NoneLost`
behind the theorems need nothing but that the node's package is one of `Packages`.

The inductive invariant is `IInv /\ LayoutOK /\ ColorsOK`. `IInv` says that a parameter has a value,
a default value and options that fit its kind (`ParmsOK`), and values of the
evaluation fit their type (`ValuesOK`). In clean states it adds `TypesAgree`: if a
parameter and `mDefaultCGAAttributes` have the same attribute, they have it with the
same type. `GenerateGetsOverrides` needs this, because what is sent
to the rule engine depends on the kind of the parameter, and what goes to
primitives on the type of the default value. It does not hold in all
others: a cook that fails late leaves new default values with old parameters.
`GenerateGetsOverrides` itself relates the state before a cook to the one after it. After
the cook, what is on the primitives is what the set parameters show (`LeftAsGiven`,
`SetSent`); if it was the last one, it sent just this, going by the default values of before
(`CookSends`), and no other step than a cook ends in a clean state.
`LayoutOK` says that the arranged parameters are those that the node has, and the
separator; `ColorsOK`, that a colour parameter has a text that `getColorString` writes.

`ShowsGenerated` compares three things: what the cook has evaluated, what
`pldGenerate` evaluates, and what the parameters show. A rule depends on nothing but
the values given for the attributes of its package (`EvaluateSame`), so the first
two agree if those are the same (`GeneratesValues`). There are two cases. If the
parameters fit, the cook leaves the set ones alone; each was sent as the value it
shows (`GivenIsShown`, `OverridesAre`), and `pldGenerate` gets the values that set
parameters show and no others (`SetSent`, from `LeftAsGiven` and `TypesAgree`). If they do not fit, no attribute of the package was set, and all new
parameters are at their default, so that no values are given on either way. A
parameter at its default then shows what was evaluated (`DefaultShown`), a set one what
it has sent; for a colour the two are the same text only by `ColorsOK`. No property
of rules beyond `SoundDeclaration` is used.

The arrangement (`LayoutBuilt`): it is built by inserting blocks, one pair of begin and
end for each missing folder and one entry for each parameter, so the proof is about
one insertion. `SoundLayout` says that every entry is there once and that begins and
ends come in pairs; `Placed`, that an entry is inside exactly the folders of its
path. A block that is inserted before the end of a folder is inside what this end is
inside, and changes nothing of that for the entries that are there
already. `MissingFoldersAdded` is the fold over the missing folders of a path,
`PackageLayout` the one over the attributes. A path must not be
mistaken for one of its own starts, though folders are known by joined names only:
`NamesOfStarts`, which needs names to have at least one part.

The assumptions on the constants, which TLC evaluates on the instance.
`AssignParmsAssumption`: rule files are `WellFormed`, with one declaration of each
attribute; the value of an attribute has its type, and one that follows another has
the other's type, as the CGA compiler demands; a menu has at least one option
(options that another attribute provides are not modelled); a toggle is set to 0 or 1.
`FolderNames`: the name of a folder, split at its dots, has at least one part, which
may be empty, as splitting any string gives. A colour that was written reads as
itself: `parseColor` divides each of the 256 values by 255 and `getColorString`
multiplies by it again, which in single precision gives the value back for each of
them. `OneStyle` is a hypothesis of
`SetValuesKeptHolds` alone: `toRuleAttr` puts the style of the node before every
name, so with an attribute of another style `compareAttributeTypes` never fits and
each cook builds all parameters anew.

TLC has checked `IInv`, `LayoutOK`, `ColorsOK` and `SetSent` as invariants on the
instance of the run `AssignParms`.

`GeometryProofs`, for any meshes that are sound (`SoundMesh`: an index is one of
something there, texture coordinates are given for all corners of a face or for
none, the holes of a face are faces of its mesh):

- `Flattened`: what `FlattenSeq` gives. It has as many elements as its parts have
  together, and each element at its place behind the parts before its own.
- `FacesInOrder`: the faces of a packed geometry are those of its meshes, one mesh
  behind the other.
- `CornersUnpacked`: the corners that `createPrimitives` makes of the flat arrays of
  `serializeGeometry` are those of each face in its own mesh, in reverse order.
- `HolesUnpacked`: the hole groups are those of the faces with holes, each with its
  own holes, wherever the block begins in the detail.

The argument: each flat array is a `FlattenSeq`, and the readers walk through
it with sums of counts. That both come to the same place is `Flattened`, with the lemmas
about sums before it, all by `StepInduction`. An index of a mesh is shifted by the
vertices, normals or coordinates of the meshes before it, and the element at the
shifted index is the mesh's own. For a uv set the counts are those of
this set, or of set 0 for a mesh that has not so many; a face without
coordinates takes nothing from the array.

`EncodeShapesProofs`, for any leaves the rules may generate, any number of initial
shapes and leaves, any setting of what to emit and both answers of the host, from
`EncodeShapesAssumption` (meshes are sound, and a value that is no array has one element)
and, for the values, `ShapeIdsApart` (no two leaves of a thread have the same shape id):

- `FacesInvHolds`: the invariant `FacesInv` below.
- `CornersOwnHolds`, `HolesOwnHolds`: the properties `CornersOwn` and `HolesOwn`, from
  it and from the two theorems about packing.
- `ValuesInvHolds`: the invariant `ValuesInv` below.
- `KeepsValuesHolds`: the property `KeepsValues`.
- `NoForeignValuesHolds`: the action property `NoForeignValues`.

The invariant comes in two parts, of which the first is inductive alone and the
second together with it (the first has its name from what it is about; it is not the
formula of `SOPGenerateProofs`):

    FacesInv  == PhaseInv /\ PrimInv /\ BlockInv /\ HoleInv
    ValuesInv == BuilderInv /\ HandleInv /\ ValueInv

`ShapeIdsApart` is needed: a builder is found by its shape id and never cleared, so
a leaf with the id of an earlier one gets the attributes of that one where it has none
of its own. On the instance, TLC finds `NoForeignValues` violated when ids start
anew in each initial shape.

`PrimInv` says which face of which mesh a primitive is, and `BlockInv` that the last
primitives of the detail are the faces of the geometry of this call in their order.
The range of an index in the loop of `add` is relative to this block, so without it
a step could write to anything. `BuilderInv` says that a builder has the attributes of
one leaf, the one of its shape id. `HandleInv` says that a handle is made of a
form that the rules give under its name; for a plain name this settles its type and that of
the attribute, which is why later calls do not spoil it. `KeepsValues` is
about moments when no call is in progress. In between it is false, and `ValueInv` is what it
becomes there: a primitive whose range the loop has passed has all its values, one
of the range it is at has those written so far and no others, and one of a later
range has none. `NoForeignValues` follows from `HandleInv` and `BuilderInv`, as what
a step writes comes from the maps of the range it is at.

TLC has checked `FacesInv` and `ValuesInv` as invariants on the instance of the run
`EncodeShapes`.

Model-checked only:

- Liveness, `RecooksEnd`, `ReloadReachesNodes`, `CookReturns` and `Settles`: fairness
  and ENABLED are out of the prover's reach.
- What the five runs with an expected violation show is false in general, so there is
  nothing to prove of it.

## 6. What is assumed of code outside the repository

- PRT works on the initial shapes of a call in order, calls
  `generateError` with the index in the array given to that call, and when
  `progress` answers `CANCEL_AND_FINISH` comes to an end between two shapes.
- No two leaves in one call of `prt::generate` have the same shape id, nor do leaves of two of
  its initial shapes (`ShapeIdsApart`). Nothing in the repository says so; without it the hazard
  at `ModelConverter.cpp:221` is real, and `KeepsValues` and `NoForeignValues` say nothing of it.
- A call of PRT may fail as a whole at any shape of its range.
- A file in the PRT cache is filled in one step. A write changes the modification time
  of a package; a write in progress is a package without resolve map.
- `forceRecook` makes a node cook again after the cook it may be in.
- The EncodePreparator delivers a normal for each corner, and texture coordinates
  for all corners of a face or for none, indices of something that is there, and the
  holes of a face in the mesh of the face (`SoundMesh`). A value that is no array has one
  element (`SoundForms`).
- `GU_PrimPoly`'s `buildBlock` makes vertices in the order of the indices it gets.
- An attribute that is added under a name that has one of another type replaces
  it, or that one stays and the handle is not valid (`replaces`).
- A getter of an attribute map answers zero, or no elements, for a key of another
  type.
- A write to a parameter calls `opChanged` if the value changes, and only then.
- Parameters, with overwritten default values, are part of a scene.
- Group creation is by primitive class (`GroupCreation::PRIMCLS`).

## 7. What is abstracted

Encoder options other than what to emit, logging and time measurement are left
out; names are model values or numbers. In `PRTContext` a cook has one initial
shape. In `ShapeAssign` `readable` stands for all of what a part needs of its
package: a resolve map, one rule file and its info; classifier values are
numbers, also where the attribute has strings; start rule and style go the way
of the package.

In `AssignParms` and the modules it extends, names, strings and numbers are
integers: only equality and alphabetical order matter, and where strings have a
form (colours, dots in names) a constant says which (`Spelling`, `Parts`). Numbers
have no more than six decimals, so that nothing is lost when one is written to an
option of a menu. The encoding of a name as a primitive attribute and its decoding are
inverse. There is one initial shape, with no rule attributes on the input
primitives, and all attributes are of one style. A parameter whose attribute the
package no longer has, or has hidden, stays while all visible attributes of the
package have one.

## 8. Not modelled

- Menus of rule files, start rules, styles and packages: they only read.
- Limits of ranges, file extensions, descriptions: they shape a widget.
  `AttributeTraits` has which trait wins, not its arguments.
- Single precision.
- `handleParams` of `pldGenerate`, which copies parameters to encoder options.
- The log level that overlapping cooks save and restore: nothing depends on it but
  log output. `LogHandler` otherwise only prints.
- `RulePackageFS`: it passes a URI on to PRT, and PRT decides what its cache object
  keeps.
- In `ResolveMapCache`, packages inside a digital asset and the unpack directory.
- `lru_cache::clear`, which nobody calls.
- `Utils`, the stop watch, the entry points of the plugins, build files and tests:
  no state worth a model. Tests were read as documentation.

## 9. Where this can go

- Rule attributes on the input primitives of `AssignParms`, which would compose it
  with `ShapeAssign`, and the theorems of both.
- Options of a menu that another attribute provides (`@Enum(valuesAttr=...)`).
