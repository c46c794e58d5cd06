# Verification of cpp_hashmap

TLA+ models of the concurrent hash map of this repository, model-checked with
TLC on small instances, and theorems about them checked by TLAPS for every
instance. Paths are relative to the repository; line numbers are those of
`src/hashmap.h` unless another file is named.

## 1. The system

| component | state | operations | interacts with |
|---|---|---|---|
| **HashMap** (`src/hashmap.h`) | `m_vHashTable`, an array of `shared_ptr<pair>`; `m_nCapacity`; `m_mSharedMutex` | readers `find`, `equalRange`, `operator []`, `size`, `empty`, `capacity`; writers `insert`, `remove`, `extend`, `clear`; constructors, destructor | threads call it concurrently; it calls the hash function once per probe step |
| **hash functions** (`src/hash_functions.cpp`) | none | `(divider, key, step) -> cell` for `int`, `long long`, `const char*`, `std::string` | called by every probing loop |
| **std::shared_mutex** (external) | owner, shared owners | `lock`, `lock_shared`, `unlock`, `unlock_shared` | guards every public operation |
| **what readers return** | references (`find`), weak pointers (`equalRange`), shared pointers (`remove`) | use after the guards are gone | outlive the lock |
| **ThreadSafetyTestableHashMap** (`src/thread_safety_testable_hashmap.h`) | a HashMap, and a log of the start, lock and end time of each operation | the operations of HashMap, each logged under a second mutex | the concurrency test |
| **TSOperationTimingVector** | vector of pointers to timings, `m_bIsSorted` | copy, move, filter, sort, clear, unlink | the log, and the filters the checkers use |
| **workers and checkers** (same header, `test/test_hashmap_thread_safety_access.cpp`) | none | `runWorkerAndFindThreads`, `checkLockTimes`, the finder checks | read the log after the threads joined |
| **CityHash** (`src/cityhash/city.cc`, `citycrc.h`) | none | `CityHash32`, `CityHash64`, `CityHash128`, `CityHashCrc128`, `CityHashCrc256`, with and without seeds | `cityHash` and `cityHashFunction` of `hash_functions.cpp` |
| CityHash's own test, `hashmap_new.h`, `thrsf_wrappers.h`, unit tests, build, `tools/` | | a table of expected numbers, an unused draft, code that is commented out, sequential tests and scripts | not modelled |

What is hard here:

* **Concurrency.** Every public operation takes the shared mutex, but `find`
  takes it twice (lines 254 and 240), and the constructors do not take it at
  all. A writer frees the table a reader would be walking.
* **Open addressing with removal.** A cell may be emptied anywhere on a probe, so
  no loop may stop at the first empty cell; `insert` fills the first hole,
  `extend` rebuilds the table one key at a time while other keys are in it.
* **Loops that end only because the hash function is good**: `while (true)` of
  `insertImpl` (line 334) and of `extendImpl` (line 415).
* **Arithmetic at the boundary**: hash 0 is made 1, a negative key wraps `size_t`
  in mid-probe, `nCount = 0` means `m_nCapacity - 1`, positions count from 1
  inside and from 0 outside; CityHash reads at offsets from both ends of the key, in
  another way for every range of lengths.
* **Ownership by raw pointer.** A table belongs to one map and changes its owner in
  a move; a timing of the test is pointed to by several vectors, each of which
  deletes what it points to unless it is told to forget it (`unlink`).
* **A copy without a lock.** The copy constructor walks its source's cells while
  other threads may extend, fill or free them (line 187).
* **Failure in the middle of a call**: in `insert` the table has grown, and the pair
  cannot be allocated; in `extendImpl` the copy of a key throws (line 421) while the pairs
  are in two tables.

What makes the components correct:

* HashMap: no data race; each call takes effect atomically (it implements an
  atomic multimap); pairs are neither lost, nor doubled, nor put out of reach;
  pairs of a key keep their order while none is removed; the lock is always given
  back and calls return.
* Hash functions: a step stays inside the table; a probe covers the table.
* HashMap objects: every table has one owner (or an extension that threw has left it
  behind) and the length its owner believes;
  a map is a collection of its own; what a reader returned stays good until a clear,
  a destruction, or the end of the last result that holds the pair.
* CityHash: reads inside the key, and reads all of it.
* Test harness: the log orders operations as the lock did; a correct map passes
  the checks; a failed check is reported; timings are freed once.

`PROJECT.json` lists the hazards, each at its line, with the properties that
cover it or the reason none does.

## 2. Modules

```
HashMapInterface      calls, arguments, results, pairs
 |-- Multimap         the promise: atomic operations on one sequence per key
 |-- HashMap          the code (with SharedMutex)
       |-- HashMapProperties   invariants, action properties, liveness, the
             |                 refinement mapping to Multimap
             |-- MCHashMap -- MCHashMapFinite           instances for TLC
             |-- HashMapProofs       the lock; where the pairs are
                   |-- HashMapOrderProofs   in which order; what a probe collects
                         |-- HashMapPromiseProofs   the refinement
HashFunctions         hash_functions.cpp
CityHash              city.cc: the bytes each function reads
 |-- MCHashFunctions (with HashFunctions) -- HashFunctionsProofs
NatRecursion          induction, and recursive functions on the numbers: lemmas
                      for HashFunctionsProofs and HashMapOrderProofs
MapCollections        the promise: several maps, each a collection of pairs
 |-- HashMapObjects   constructors, copy, move, destructor, and what allocates
       |-- MCHashMapObjects, HashMapObjectsProofs
TestableHashMap       the logging map of the concurrency test, over Multimap
 |                    (the body of each call) and SharedMutex
 |-- LockTimesCheck   its filters and checkLockTimes; properties of the log
       |-- MCTestable, TestableHashMapProofs
ThreadSafetyTest      the rounds of the concurrency test and its checks
 |-- ThreadSafetyTestProofs
```

**HashMap.** One step of a thread is one turn of a loop of the code, or one
acquisition or release of the lock. A call goes through the program counter

    idle -> rdlock [-> rdlock2] -> probe | scan | read -> unlock -> idle
    idle -> wrlock -> probe | clear | extend -> rehash <-> move -> unlock -> idle

* `Invoke` picks any call with any arguments of the instance. `AcquireRead`,
  `AcquireReadAgain` (the lock of `findImpl`), `AcquireWrite` and `Release` are
  the guards; a `find` releases twice.
* `Find`, `EqualRange`, `EqualRangeForPos`, `Remove` and `Insert` are one turn of
  the loop over `ik`, with the exits of the loop; `iHits` and `lOut` are the
  locals of the code. `Size` and `Empty` walk the cells. `Clear` has no loop.
* `ExtendBegin` is the early return or the allocation, `Rehash` the head of
  `while (true)` with `firstIndex`, `Move` one turn of the loop over `ik`. Its
  inner loop over `ik_new` reads and writes only the new table, which no other
  thread sees, so it is one step: the first free step of the new probe, if any.
* A pair has its key and a number, the order of its creation. The number stands
  for the identity of the object, so two equal pairs stay two.
* `hashFunction` is a constant operator, the template parameter. Nothing is
  assumed of it; the theorems have the hypothesis `HashInRange`.
* `MaxPairs` bounds the insertions; it is the only bound inside the module.

**SharedMutex** is the external lock as a value. The standard does not say whether
`lock_shared` waits behind a thread blocked in `lock()`; `WriterPriority` chooses.

**Multimap** is what a caller may rely on: each operation takes effect at one
moment between call and return; positions select in a sequence per key; a new
pair may enter anywhere in its sequence (it fills holes), extending changes
nothing but the capacity. `Present` is the set of the pairs that are there, and
`size` its cardinality. It says of `remove` what the code does, one pair short
of the capacity when `nCount = 0`; run `remove_all` checks the other reading.

**HashFunctions** has the arithmetic of both `stdHashFunction`s, rounding and
wrapping as C++ does, and the common last line of the functions for strings.
`FirstHash` is the hash at step 0 before the code's `if (!h) h = 1`, which is why
the stepping formula in the comment at `src/hash_functions.cpp:63` is not exactly
what the code computes. Signed overflow of `7 * key` is undefined in C++ and left
out.

**TestableHashMap** (`src/thread_safety_testable_hashmap.h`). All ten logged
operations have the same form, and so the same steps, between which other threads
may run:

    idle -> lock -> stamp [-> relock] -> body -> log -> end -> push -> unlock -> idle

| action | code of `find` (lines 464-482) |
|---|---|
| `Start` | a new timing with the arguments and the start time |
| `LockMap`, `StampLock` | the lock guard; the lock time |
| `LockMapAgain`, `Body` | `BaseHashMap::findImpl`, which locks the same mutex again (`find` only) |
| `LockLog`, `StampEnd`, `Push` | the log's mutex; the end time; `push_back` and unlock |
| `Return` | the guard dies |

The body is one step, `Effect` of Multimap, because the run `promise` shows that
the code in the body is seen by the others as that one step; `Grow` lets an
insertion raise the capacity first. The log entry of an insertion names the pair it
was given. The clock gives a later time at every reading. That is an idealization:
`high_resolution_clock` may return the same time twice, and then the strict
inequalities below become weak ones. `m_bIsSorted` starts with either value.
`MaxCalls` bounds the calls; `AllJoined` is the end of a round, so that every other
stop is a deadlock.

**LockTimesCheck** has `sortByEndTimeAsc`, `filterParallelWorkers`, whose `||` lets
all operations but one pass, and `checkLockTimes`. The filter returns positions of
the sorted vector in the place of a second vector of pointers, in the same order; the
sort is a rearrangement of the positions by end time, the only one, for end times differ. For two readers the check asks of
the last writer before the second only; a pair with a writer is asked for the order
of its end times only, so that two operations that overlap, the earlier lock ending
first, pass. `ConflictsDoNotOverlap` and `ResultsFollowLockTimes` say what the log
satisfies beyond that.

**CityHash** (`src/cityhash/city.cc`). Each function of the file is an operator that
returns the set of offsets of the key it reads: `Fetch64(p)` is eight of them, a loop
is a union over its turns, and a branch on the length is a branch on the length. What
the code does with the bytes, multiplying and rotating, is left out: the map works
with any number for a hash, and what could go wrong in this code is an offset, at the
seam between two ranges of lengths or in the last turn of a loop. `Readings` has the
eight functions `city.h` and `citycrc.h` export. `CityHashCrc256Short` copies the key
into a buffer first and reads that.

**HashMapObjects** has several maps, the tables they own and the pairs in the tables.
`heap` is the set of tables that are allocated, with their cells; `new []` takes an
address that is free, `delete []` takes it out, so a table that is freed can be found
again at the same address, as in `clearImpl`, which frees before it allocates. Map and
code correspond so:

| action | code |
|---|---|
| `Construct` | the default constructor and the one with a list (155-181), which inserts before anyone else knows the map |
| `CopyBegin`, `CopyCell`, `CopyEnd` | the copy constructor (182-194): the table, one turn of its loop, its end |
| `Move`, `Destroy` | 196-203, 205-208 |
| `Extend`, `Remove`, `Clear` | the calls, under the map's lock, one step each |
| `InsertExtends`, `Insert` | the turns of `while (true)` in `insertImpl`: one that meets no free cell and extends (345), one that fills a cell (340) |
| `ExtendThrows` | the copy of a key throws in `extendImpl` (421): pairs of some keys are moved, the map keeps the old table and the others |
| `Race` | a writer comes in between while a copy constructor runs |
| `Forget` | a caller drops a shared pointer that `remove` returned |

Which cell a pair gets is left open (`Placements`, any free cell), for that is the
subject of HashMap. So is when `insert` extends: a probe of an integer may miss the free
cells, so `InsertExtends` may happen with cells free, and more than once, and the table of a
list constructor may have grown (`ListCapacities`). `MaxCapacity` bounds that.

What throws leaves the map either as it was, which is no step (an allocation in
`extendImpl`), or as a step of its own leaves it: `InsertExtends` without an `Insert` is
what is left when `make_shared` throws. When the copy of a key throws, nothing frees the new
table: it is `leaked`, and the pairs in it are neither in the map nor freed. A constructor
or a `clear` that fails to allocate is not modelled: after the former there is no map (the
one with a list leaks its table), after the latter (line 511) a dangling pointer.

The copy constructor takes no lock of its source. A reader may come between two of its
cells, and so may any call on another map. A writer to the source, a move from it or its
destruction is a data race: lines 189 and 190 read the cell twice, perhaps of a table that
line 440 has freed, and copy a `shared_ptr` that somebody sets. C++ leaves everything open
then, and so would a model of it: after `Race` no step follows, and what the properties of
this module say is about programs up to their first data race.

A pair is `Alive` while a cell or a result of `remove` holds it. That is how long the
references of `find` and the weak pointers of `equalRange` are good, so
`ReferencesSurvive` is about them without a variable of their own.

**MapCollections** is what this promises to a caller: each map is a set of pairs; a
copy has the pairs of its source; a moved-from map is empty and can be used on; an
insertion that fails leaves nothing. `Lose` is the exception, an extension that throws: it
takes pairs out of the map, never all of them, and leaks memory.

**ThreadSafetyTest** is the program `test/test_hashmap_thread_safety_access.cpp`, with
the workers, `runWorkerAndFindThreads` and the vectors of timings of the header.

| action | code |
|---|---|
| `StartRound` | `runWorkerAndFindThreads` (header 1049-1089): pairs inserted beforehand, one thread per key, position and worker |
| `ReadWorker`, `InsertWorker`, ..., `ClearWorker` | the workers (822-908); `CapacityWorker` and `ExtendWorker` are the two calls of `extendHashMapWorker` |
| `JoinThreads` | the joins and `checkLockTimes`, whose vectors are unlinked |
| `CheckWriter` | one turn of the loop over `vInserters` or `vExtenders` (test 55-125) |
| `CheckEnd`, `Return` | `unlink`, `clear` of the log; the destructors of the vectors |
| `Main`, `End` | `main` between two rounds: `size`, `iStatus`, `clear`; the end of `main` |

`Rounds` is a table of what differs between the seven rounds. Each operation is one step,
at its lock time: TestableHashMap justifies that, and LockTimesCheck that
`checkLockTimes` passes. All that the remaining checks ask of two times is whether a
finder came before a writer, so a timing carries the number of writers before it
instead of times. Pointers and timings are identified; `heap` says which timings are
allocated. `PRT_INS_FIND_AFTER_RESULT_FAIL` (test, line 34) negates the flags instead
of the test of one and never fails; the model has the check as it is, which is none.
The assignment operators of the vectors return nothing (header 226), which is undefined;
what compilers do with a result nobody uses is nothing, and that is modelled.

## 3. Runs

| run | instance | shows |
|---|---|---|
| `promise` | 2 threads, all operations, positions 0..2 and counts 0 and 2, 2 colliding keys, 3 pairs, capacity 2 growing to 3, 4, 5 | `TypeOK`, `NoDataRace`, `ReadersSeeOneTable`, and `ImplementsMultimap`: every step of the code is a step of Multimap or none, where slices have a beginning, a middle and an end |
| `growth` | 2 threads, 3 calls each, no removal, 5 pairs, capacity 2 growing to 3, 4, 5, ..., weak fairness | `InsertionOrder`, `HoldersRelease`, `EveryCallReturns` |
| `integers` | 2 threads, keys 6, 10, -10 with the stepping of integers, capacity 3 growing to 5, 6 | `OnePlacePerPair`, `PairsAreReachable`, `PairsLeaveByRemoveOrClear` with a probe that misses cells |
| `hash_functions` | capacities 0..9, 41 integer keys, strings up to 9 chars, `size_t` of 5 bits; keys of 0..1000 bytes for CityHash | which probes cover the table, which strings must collide; `CityStaysInside`, `CityReadsEveryByte` |
| `timings` | 3 threads, 3 calls in all of any of the 10 logged operations on one key, capacity 1 | `LogInEndOrder`, `ConflictsDoNotOverlap`, `ResultsFollowLockTimes` (the lock times explain every result), `CorrectMapPasses` (no false alarm of `checkLockTimes`) |
| `objects` | 2 maps, 3 pairs, 3 tables, default capacity 1, `extend` to 3, `insert` up to 3, lists of 0 and 1 pair | `TypeOK`, `TablesHaveOneOwner`, `ReferencesSurvive`, `ImplementsCollections`, up to the first data race |
| `rounds` | one key with 3 pairs, the workers of 2 positions, the finders `find` and `equalRange`, all seven rounds | `TimingsHaveOneOwner`, `FalseAlarmsAreStale` (a finder is blamed only because of timings an earlier round left), `WorkersDoTheirWork` |
| `recursive` | 2 threads, `find` and `insert`, `WriterPriority` | **violated** `HoldersRelease`: see finding 1 |
| `twice` | 1 thread, one key | **violated** `RangesNameAPairOnce`: finding 2 |
| `hang` | 1 thread, `insert` and `extend` | **violated** `ExtensionsEnd`: finding 3 |
| `remove_all` | 1 thread, one key | **violated** `RemoveAllTakesAll`: finding 4 |
| `size_check` | one key with 3 pairs, the workers of 2 positions, the finder `find` | **violated** `SizeChecksPass`: finding 5 |

*Bounds.* In `timings`, three calls are the least that make a reader, a writer
between and a second reader, which is what the check of two readers looks at; the
theorems about the log are about any number. One key is enough, for the checks never
compare keys and the lock does not know them. For the map, two threads suffice for
the pairwise conflicts of one lock (and the theorem `RaceFree` is about any number).
Capacities 2 and 3 in the place of 127 let a few insertions fill the table, so
growth, holes, collisions and full tables all occur; the code compares capacities
and adds to them, and never uses the number 127 otherwise. `DEFAULT_P` 11 in the
place of 3571 brings the hashes 0 and -1 within reach of small keys. `size_t` wraps
at 128, 256 or 32, a multiple of no capacity but 2 and 4, as 2^64 is. In `objects`,
two maps make a source and a copy, or the two ends of a move; a third table is what
`extend` holds beside theirs, and what an extension that throws leaves behind; with three
pairs a map has some to move and some to keep when a copy throws, and
all four properties are proved for any number. A default capacity of 1 and lists of
1 give tables of 1, 2 and 3 cells (`MaxCapacity`), and growth from each to the next. In `rounds`, one key and three positions
are the least for which an inserting and a removing worker at another position
differ; the code never lets two keys meet but in the size, and the instance with two
keys and two positions passes as well. The program starts each finder twice per key
and position; once is enough, as a complaint is about one finder and one writer.
Threads are symmetric where no liveness is checked. A deadlock is an error in every
run that does not say otherwise: `MCHashMapFinite` stops when all calls are made,
`MCHashFunctions` when the longest string is typed, `ThreadSafetyTest` at the end of
`main`, `HashMapObjects` at a data race, and `recursive` shows a deadlock on purpose, as a liveness property.

*Fairness.* `FairSpec` asks weak fairness of `Step(t)` of each thread: the
scheduler of the operating system runs every thread that can run. It does not
oblige a thread to call anything, and it gives no strong fairness to `lock()`:
that a writer gets its turn while readers keep coming is not claimed.
`EveryCallReturns` is therefore checked where each thread makes finitely many
calls, as in the concurrency test.

### Findings

1. `find` locks the shared mutex twice (lines 254, 240). With an implementation
   where readers wait behind a blocked writer, a `find` between its two locks and
   a waiting `insert` block each other. glibc's default lets readers pass, so the
   test does not show it.
2. An integer whose first hash is 0 (1017 in the real build) has a probe that
   visits one cell twice: `operator []` returns its pair twice.
3. `extendImpl` moves a pair only to a free cell of its new probe; an integer
   probe that misses the free cells leaves it in place, and the outer loop finds
   it for ever, with the write lock held.
4. `remove(key)` takes at most `m_nCapacity - 1` pairs: 127 insertions of one key
   and one `remove` leave one.
5. The inserting workers take the positions 0 to `nCount - 2` (header, line 1073): 90 pairs
   are in the map when `main` compares its size with 100 (test, line 468) and prints that
   this failed, whatever map is tested.

Findings 2 to 4 were also observed in the compiled code.

Seen while modelling, without a document or a test that says otherwise:

* `iStatus` starts as 0 and is only ever "and"ed (test, line 470): the test exits with
  0 whatever its checks find.
* `checkRemoveAndFindThreads` leaves its timings in the log (its `clear`, test line 247,
  is commented out), and the check of the next round, of the extensions, takes the
  finders of the removing round that found nothing for its own: false alarms, and the only
  ones about a finder (`FalseAlarmsAreStale`; finding 5 is another false alarm).
* A copy constructor may run beside a writer (line 187): a data race, see `Race`. No
  document says that it may.
* `extendImpl` copies one key per distinct key (line 421), where README:12 speaks of
  an extension "without calling the copy and key copy constructors". If that copy
  throws, the pairs moved before are lost and their table is leaked (`ExtendThrows`).

## 4. Theorems

All theorems hold for any set of threads and keys, any positions, counts and
capacities, any `size_t` width, both choices of `WriterPriority`, and any hash
function that satisfies `HashInRange`: a step of a probe of a table with at least
one cell is a cell of that table. `IntHashInTable` and `StringStepInTable` prove
that of the functions of `hash_functions.cpp`. Those of HashMapObjects hold for any
sets of maps, pairs and tables, up to the first data race. Nothing
else is assumed but the named `ASSUME`s on the constants: `nullptr` is no table, no pair
and no set of pairs; `TestAssumption`, that the test has a key, finitely many, and that
the pairs it inserts fit the default capacity, as 10 times 10 do in 127;
`MCHashFunctionsAssumption`, that the divider of the largest table and the hash fit in
`size_t`.

Four theorems have a hypothesis more. `InsertionsStayInOrder`, `RangesNameOnce` and
`MultimapImplemented` suppose `[]ProbesDoNotRepeat`: no probe of a table that comes up visits a cell twice.
`StringStepsDoNotRepeat` and `PositiveIntStepsDoNotRepeat` give it for strings and for
integers whose first hash is positive, while `size_t` does not wrap; finding 2 is an
integer for which it fails, and `RangesNameAPairOnce` with it. `InsertionsStayInOrder`
is about maps from which nothing is removed, as the test it is about does not.
`MultimapImplemented` supposes besides that no position is the last number of `size_t`
(`PositionsDoNotWrap`): `++iPos` would make it 0, the code would take every pair for one
past it, and Multimap takes none. The default position is 0, and no caller in the
repository passes one near the top.
`LogExplainsResults` supposes finitely many keys, without which there is no size.

| theorem | says |
|---|---|
| `Invariant` | `[]IInv` |
| `TypeCorrect` | `[]TypeOK` |
| `RaceFree` | `[]NoDataRace` |
| `ReadersUndisturbed` | `ReadersSeeOneTable` |
| `PairsInOnePlace` | `[]OnePlacePerPair` |
| `PairsSurvive` | `PairsLeaveByRemoveOrClear` |
| `PairsStayReachable` | `[]PairsAreReachable` |
| `InsertionsStayInOrder` | `[]InsertionOrder`, if nothing is removed and no probe visits a cell twice |
| `RangesNameOnce` | `[]RangesNameAPairOnce`, if no probe visits a cell twice |
| `MultimapImplemented` | the refinement `ImplementsMultimap`, if no probe visits a cell twice and positions do not wrap |
| `TimingsInvariant` | `[]IInv` of TestableHashMap |
| `TimingsTyped`, `LogIsInEndOrder`, `LoggedConflictsDoNotOverlap` | `[]TypeOK`, `[]LogInEndOrder`, `[]ConflictsDoNotOverlap` |
| `CorrectLogPasses` | `[]CorrectMapPasses`: `checkLockTimes` gives no false alarm |
| `LogExplainsResults` | `[]ResultsFollowLockTimes`: the lock times explain every result |
| `ObjectsInvariant` | `[]IInv` of HashMapObjects |
| `TablesTyped`, `TablesOwned`, `ReferencesStay` | `[]TypeOK`, `[]TablesHaveOneOwner`, `ReferencesSurvive` |
| `CollectionsImplemented` | the refinement `ImplementsCollections` |
| `TimingsOwned` | `[]TimingsHaveOneOwner` of ThreadSafetyTest |
| `AlarmsAreStale`, `WorkIsDone` | `[]FalseAlarmsAreStale` and `[]WorkersDoTheirWork`, for any keys and positions; the size after the inserting round is finding 5 |
| `CityHash32Reads`, `CityHash64Reads`, `CityHash128Reads`, `CityHashCrc256Reads`, `CityInside`, `CityComplete` | each function of CityHash reads its key and nothing else, for every length |
| `IntHashInTable`, `StringStepInTable` | `HashInRange` of the functions of `hash_functions.cpp` |
| `StringProbeVisitsEveryCell`, `PositiveIntProbeVisitsEveryCell` | a probe that neither wraps nor comes by hash 0 covers the table |
| `StringStepsDoNotRepeat`, `PositiveIntStepsDoNotRepeat` | and visits no cell twice |
| `ZeroIntProbeMissesCellZero` | a probe of an integer that comes by hash 0 misses cell 0 and nothing else |
| `StringProbesVisitAll`, `IntProbesVisitAll`, `LongStringsCollide` | `[]StringProbesAreComplete`, `[]IntProbesAreComplete`, `[]LongTailsCollide`, for every table, key and width |

*The argument.* `NoDataRace` is not inductive: it says nothing of who owns the
lock. `IInv` adds two parts to the types. `PCInv` ties the program counter to the
call (a thread in `move` is in `insert` or `extend` and has a key to move), which
the types need in turn: the key that is hashed must be a key. `LockInv` says that
the exclusive owner is exactly the thread inside a writing operation, that there
is at most one, that none reads meanwhile, and that every reader inside holds at
least one share. `AcquireWrite` establishes it from `CanLock`, every other step
keeps it.

From `LockInv` follows `WriterAlone`: while a thread runs the body of a writer, no
other thread has a second table. The theorems about pairs then speak of one or
two tables only. `PutPair` and `TakePair` say what putting a pair in a free cell and
emptying a cell do to the set of pairs; `Move` is one of each, so the union of
both tables stays the same. `PlaceInv` strengthens `OnePlacePerPair` by "the
numbers of the stored pairs are those given out", so that an inserted pair is new.
`PairsStayReachable` needs no more than `IInv`: a cell is filled only at a step of
the probe of its key in that table.

The theorems about pairs hold also for hash functions whose probes repeat or miss cells: the
findings 2 and 3 are about termination and about lists that name a pair twice,
never about pairs that are lost.

`InsertionOrder` speaks of the sequence `Met`, which a recursive function collects along a
probe. `MetSteps` unfolds it, and from there on the proof is about cells. `OrderInv`
says that the probe of a key meets its pairs in the order of their numbers (`Ascending`)
and meets no free cell before the last of them (`NoHoles`), or `insert` would put a young
pair there. During an extension both hold of the new table, and of the old one only the
first, for `Move` makes holes in it; what ties the two together is `Older`: what was
moved is older than what is left of the same key. `Move` keeps that because it takes the
pairs of its key in the order of the probe (`LoopInOrder`), the oldest first; that is
where "one key at a time" matters. Where the new probe has no free step, the pair stays
and so do the rest of its key.

`ListsInv`, for `RangesNameOnce`, says that what a reader has collected lies at steps it
has passed, and what `remove` has taken lies in no cell any more. A cell that the probe
comes by later is another one (`VisitsOnce`), and another cell holds another pair
(`OnePlacePerPair`).

`MultimapImplemented` needs to know what each loop has found out. `PromiseInv` is `IInv`,
`PlaceInv`, `PairsAreReachable` and, for each thread, `ThreadInv`: one conjunct per loop, that
relates its locals to `Met`, the pairs that the probe has come by so far. In `find` the hits are
as many, and not yet past the position; the list of `equalRange` is `Met`, or its end from the
position on; in `remove` the list is as long as its position and limit say, and the pairs
still in the table are the others; in `size` and `empty` it is about the cells walked; in
`insert` the cells tried are full. `ExtendLoop` says that the new table has no holes, that the pair
that moves found no older one of its key on its way, and that `insert` extends a full table only.
Under that invariant most turns show the caller nothing. The ones that do:

* a reader that leaves answers with `Met` at the last step, which is the whole sequence of
  its key; nobody writes meanwhile, so `Map` is the same before and after (`ReaderAnswers`);
* `insert` fills the first free cell of its probe: the pair joins those of its key where the
  probe comes by it (`ItsKey`), which need not be the end when a removal has left the cell
  free, and Multimap leaves the place open; the other keys see nothing of it (`OtherKey`);
* `remove` takes pairs one by one, and the map changes when it returns. Till then
  the mapping puts what it has taken back between the pairs before the position and those that
  are left (`Between`); a turn that takes a pair moves it from one part to the other and
  the whole stays (`BetweenTaken`);
* `Move` takes the first pair of its key from the old table (`CameFirst`) and makes it the last
  in the new one, which has no holes (`ComesLast`), so the new table's pairs followed by the old one's stay the same
  sequence (`HandOver`);
* `Rehash` ends with an empty table: that is where `extend` takes effect.

At most one thread writes, so the choice in `Items` of the thread that extends or removes is
that thread (`AloneItems`), and the steps of the others leave all this alone
(`OthersKeep`). `OrderInv` is not used: which pair is older does not matter to Multimap, only
that sequences stay. `ProbesDoNotRepeat` is used wherever a cell changes: it must be met once, or the
sequence of its key would change in two places.

The two facts about the log need to know what it holds *before* an operation is
logged. `TimesOf(t)` says so: from its lock time on, every logged operation that `t`
conflicts with has ended before that time (`ConflictsEnded`); from its end time on,
every logged operation has (`LastToEnd`), because `t` holds the log's mutex. Its own
`LockInv` counts shares exactly (a `find` has two of them in its body), so two
threads that are inside the map are two readers (`ReadersOnly`), and a `Push` of one
cannot break `ConflictsEnded` of the other. The base map enters only by what its
steps leave alone (`BaseSteps`), so the theorems do not depend on Multimap.

`LogExplainsResults` does depend on it. Its invariant `RInv` relates the log to the map: while no
writer is between its body and its entry in the log, the pairs in the map are those the
log has inserted and neither removed nor cleared since, by lock time; and an operation
whose body is over has answered from that, or changed it, as its entry will say. `CorrectLogPasses` needs no
map at all: in a log that is in end order and whose conflicts do not overlap, every case
of `checkLockTimes` passes. Both have to prove that sorting a sorted log leaves it as it is.

For HashMapObjects, `IInv` says who owns which table and how long it is (`Owned`), and
what the life of a map means for its table and, during a copy, for its source
(`Lives`). A step may do one of three things to the tables of maps, and a lemma says for
each that `Owned` stays: `Rehoused` (a map gets a table in the place of its own),
`CellWritten`, and freeing one. `TableLeft` is for the extension that throws, which adds a
table nobody owns. `Untouched(x)` is what all of them leave of the other maps.
The refinement needs two more invariants. `CopiesAgree`: up to a data race, what a copy
constructor has copied is what its source still holds, however many calls on other maps come
between. `AllSingle`: a finished map has a pair in one cell only, or removing it from the cell would not
remove it from the collection. It holds for a copy at the moment it is finished, since the
table of its source has the property and the copy agrees with it. `ReferencesStay` needs that
a running copy constructor only overwrites empty cells (`CopyTail`), and that an extension
that throws has every pair of its map in one of the two tables (`ExtendThrowsKeeps`), of which
the leaked one is never freed.

For the rounds of the test, the invariant ties each vector to the point of `main` where
it is alive: `vWriters` points into the log during the check and nowhere else, and
`vParallels` never points to anything between two steps, because it is unlinked in the
turn that filled it. `TestInv` is what the other two theorems need. `MapInv` says, for each
round, what the map holds as a function of the threads that still wait: so many pairs of
a key as workers have run, or as removers are left, and the capacity grown or not.
`LogInv` says what the finders in the log can have found: never a pair whose insertion got
the lock after them, and, once pairs are extended, only a finder that the removing round
left can have missed. A complaint is about one of those (`ComplaintsAreStale`).

The proofs about CityHash are arithmetic: for each range of lengths, the reads cover an
interval from the beginning of the key and one from its end, and the two meet.

Those about probes are, too: the remainders of `m` numbers in a row are `m` different
numbers (`RemaindersInARow`, `RemaindersDiffer`), and a probe is such a row, but for the hash
0. `LongStringsCollide` needs what the recursive sum of `StdStringHash` computes for a key of
any length. The provers cannot instantiate the library's induction theorems, which take an
operator, but they can argue with the least counterexample of a set of numbers:
`CountingUp` in NatRecursion says that a set with 0 and every successor has all numbers, and
`StepByStep` that a recursion on the numbers has a solution, so that what CHOOSE picks for a
recursive function satisfies its equation. With these, the weight `i!` of a char is 0 in `size_t`
from some `i` on (`PowStaysZero`), and two strings that agree before it have one sum.

*Only model-checked*: liveness, which is beyond the proof system.

## 5. Not modelled, and what is left

What is left: the safety half of termination, that a hash function with complete probes
always gives `Move` a free step.

Out of scope:

* the mixing in CityHash, and `city-test.cc`, which compares it with a table of 300
  expected numbers;
* `hashmap_new.h`, included nowhere (it includes a header that does not exist), and
  `thrsf_wrappers.h` with its test, which is commented out;
* a constructor or a `clear` that fails to allocate, after which there is no map, or none
  that may be used;
* signed overflow of `7 * key`; copy assignment of the vectors of timings, which is
  called nowhere; `lastIndex`, which is protected and called nowhere;
* printing, the sequential unit tests, build files and `tools/hash_cols.py`.
