# metkit in TLA+

A model of the parts of metkit whose correctness depends on the order of
things: callbacks of a server, processes that share files, requests that
inherit from earlier ones, a greedy merge whose steps depend on each other, and
the three conversions between requests and messages, in which what one part
writes another has to find.
Paths below are relative to `src/src/metkit/` unless they start otherwise.

- [The system](#the-system): inventory, interactions, what is hard, what is correct
- [The plan](#the-plan): modules, runs, theorems; what is done and what is next
- [The models](#the-models): modules against code
- [Checked](#what-the-runs-show): runs, bounds, fairness, disagreements with the code's own statements
- [Proved](#what-is-proved): theorems, invariants, assumptions
- [Left out](#what-is-not-modelled)

`PROJECT.json` has the machine-readable side: which lines each definition
stands for (`map`), the runs, one mutant of the code per property, the hazards
at their lines and the theorems.

To check: `tlc -config X.cfg M` for the `.cfg` of a run and the MC module of
its name, `tlapm M.tla` for the `*Proofs` modules.

## The system

metkit turns a user's description of meteorological fields into things a
computer can fetch, store, compare and encode.

| Component | State | Operations | Modelled |
|---|---|---|---|
| MARS client protocol: `mars/DHSProtocol`, `MarsRequestHandle`, `ClientTask`, `BaseProtocol` | `opened_`; `done_`, `error_`, `sending_`, `task_`, `socket_`, the callback endpoint, `stats_` | openForRead, openForWrite, read, write, close, destruction; `wait()`, `cleanup()` | yes, except serialisation |
| Mover's end of a transfer: `mars/MarsHandle` | `length_`, `total_`, `receiving_`, `crc_` | openForRead, openForWrite, read, write, close | yes |
| Index cache of the point database: `pointdb/PointIndex`, `GribHandleDataSource` | files `<md5>.tmp`, `.kdtree`, `.grib`, `grib-info/*`; `done_`, `cache_`, a recursive mutex | `info()`, `cache()`, `lookUp()` | yes |
| Decoding of a point's value: `pointdb/GribFieldInfo` | none (a record of GRIB keys) | `value()` | no |
| HyperCube: `hypercube/` | `set_`, `count_`, `entries_` | `clear`, `add`, `fieldOrdinal`, `request`, `aggregatedRequests` | yes |
| Requests: `mars/MarsRequest`, `Parameter`, `MarsParser` | a list of parameters | set, merge, match, filter, subset, split; stream, JSON, text | as values |
| Request expansion: `mars/MarsExpansion`, `MarsLanguage`, `Type` | `inheritance_` per key; rules by context | `expand`, `reset` | yes, for data keys |
| Value types: `mars/Type*`, `StepRange`, `Quantile` | tables of values | `expand`, `pass2`, lists `a to b by c` | yes, as operators |
| Parameters: `mars/Param`, `ParamID`, `TypeParam`, `StepRangeNormalise` | rules of `params.yaml` | `normalise`, `pass2` | yes, as operators |
| Environment and factories: `mars/RequestEnvironment`, `TypesFactory` | singletons | `initialize`, `instance`, `build` | no |
| mars2grib | a prepared message in its cache, otherwise none (tables compiled in) | `encode`, `prepare`, `finaliseEncoding` | yes, with every concept |
| grib2mars, mars2mars | none (tables compiled in) | a message to its request; a request to the new conventions | yes, every rule |
| grib1-to-grib2 | the place in the input file and what is in the output; the dictionaries are locals of the loop's body | the loop over the messages of a file | yes |
| Messages: `codes/` | a handle of ecCodes; the position in a stream | access, iterate, decode; `CodesSplitter::next` | yes, what metkit adds to ecCodes |
| bufr-sanity-check | the reader, its counters | the loop over the messages of a stream, three checks, patches | yes |
| `odb/` | a frame kept between calls | `next()`, decoders | no |
| Field indices, C API, tools, bindings | containers, an error string per thread | | no |
| `src/share/metkit/*.yaml` | the MARS language itself | read by `MarsLanguage` | a fragment |

**How they interact.** An application (or a tool) parses text into requests,
`MarsExpansion` completes them, and a `MarsRequestHandle` sends one to a server
as a `ClientTask`. The server is another program. It never answers on the
connection the task came by: it and the movers it starts *call the client
back*, each time on a new connection, with the task's identifier and a one
letter code; the data come the same way, from a `MarsHandle` that travelled
inside the task. When fields arrive, a `HyperCube` of the request keeps book of
what is found and turns what is missing into requests again; that uses
`MarsRequest::merge` and `count`. The point database sits beside this: to
extract a value from a field it needs an index of the field's grid, built once
and shared as a file by all threads and processes of a machine.

A message is made from a request by mars2grib: *matchers* name the variant of
each concept (a level, a statistic, an ensemble) that the request asks for,
*recipes* say which template of a section takes these variants, the *resolver*
finds them by the numbers of a registry, and an encoding plan runs the callbacks
of the concepts stage by stage, so that all but the last stage can be done once
and kept. grib2mars goes the other way, mars2mars changes a request for a
parameter of the old tables into one of the new, and grib1-to-grib2 runs the
three one after the other.

Messages are read from a stream that need not be whole: `CodesSplitter` takes
what ecCodes finds and, where a message has a wrong length, goes back into it to
look for those it has swallowed. bufr-sanity-check stands before the archive and
says of each BUFR message whether it can be stored, patched or not.

**What is hard.** Every one of these has tests in the repository only for its
undisturbed course.

- *Transfers*: three parties, none of which sees the others' state. A callback
  may be an answer, a verdict, a message, or left over from an earlier task; an
  error may be told while the handle is opened but can only be thrown when it is
  closed, possibly by a destructor; the CRC trailer follows the data on the same
  wire, so what ends a transfer is a count of bytes.
- *The index cache*: files made and renamed by threads and processes that can
  die at each step, an in-memory flag that outlives the file it speaks of,
  exceptions out of nested sections of a recursive mutex.
- *Expansion*: three loops over the keys, each of which reads what the loops
  before (and earlier requests) left; a request can be refused in the middle.
- *HyperCube*: the merge of requests is greedy, and recognises geometry by
  comparing sizes.
- *Messages*: concepts, recipes and sections that have to fit; a concept no
  section takes is left out without a word; the time a message is valid at is
  spread over keys that several concepts write at different stages; a prepared
  message carries what it has of the request it was prepared for; the values of
  dictionaries have types that both ends of a conversion have to agree on.
- *Streams*: broken messages that reach over sound ones, a step back that must
  lose none of them and yet come to an end, and a check that may throw between
  what it counts and what it writes.

**What makes each correct.**

- A close that returns without an exception, of a handle used once, means what
  the caller thinks: the server said the task is done and not that it failed,
  and every announced byte moved. An error that was heard is thrown. Callbacks of another task are never acted upon. Calls return, movers finish.
- No thread is ever served a half-built index, wherever a process died; a
  published index is not replaced; the copy to rebuild it from is there first.
  Extractions come to an end.
- Requests generated for the vacant fields cover these, all of them, once; the
  marks, the counter, the payloads and the ordinals tell the same story; the
  payload kept does not depend on the order of arrival.
- A key the request gives survives expansion; what is inherited is what the
  last request gave; a key forbidden by the final context is gone, wherever it
  came from; an expansion that is expanded again stays what it is.
- For each section of a message there is one layout and no other, and the search
  finds it; every concept of the request is in it; a message is valid when the
  request says; one made from a prepared message is the one made from nothing.
- Time, window and level of a legacy message survive its conversion, and it does
  not matter whether a request travels as a dictionary or as a `MarsRequest`.
- Every sound message of a stream is met, once and in order, whatever lies
  between; none disappears from the report; what is written can be archived.

The hazards behind these, each at the line where it bites, are listed in
`PROJECT.json` with the properties that watch them, or with the reason why none
does.

What else was seen on the way is under
[observations](#observations).

## The plan

Most important first. Done:

1. `CallbackLink`, `DHSProtocol`, `MarsHandle`, composed by `DHSTransfer`:
   the wires, the client, the mover, and the whole with a server.
2. `PointIndex`: the cache, its threads, its processes and their crashes;
   `OneIndex`, what the cache promises, and the refinement.
3. `HyperCube`, extended by `CubeRequests`: bookkeeping, then aggregation.
4. `MarsExpansion`: sequences of requests through one language, with `pass2`
   and the expansion of an expansion.
5. `ValueTypes`, `ParamNames`, `AxisMatch`: what the types make of a list, the
   names of parameters, the parameters that a request means.
6. `MarsRequest`: requests as values, and as texts.
7. mars2grib: `ProductTime`, `GribTables`, `GribDeductions` (what is deduced),
   `GribRegistry`, `GribConcepts`, `GribLayout` (what is chosen), `GribEncoding`, `GribCallbacks`, `GribMessage` (what is written), and
   `GribStages`, the encoder with its cache.
8. `Grib2Mars`, `MarsRules`, `RequestDictionary`, composed with `GribMessage` by
   `Grib1ToGrib2`.
9. `CodesHandle` and `BufrCheck`: handles of messages and their decoders, the
   splitter, and the tool that checks a stream with them.
10. Proofs: `DHSTransferProofs`, `PointIndexProofs`, `HyperCubeProofs`,
   `MarsExpansionProofs`, `GribTimesProofs`, `GribStagesProofs`,
   `Grib1ToGrib2Proofs`, `BufrCheckProofs`.

Next, in this order:

11. *An abstract transfer* (`Transfer`: a task is open, moves n units, and ends
    confirmed or failed), and `DHSTransfer` shown to implement it by a refinement
    mapping. What a clean close promises is proved without it.
12. `OdbSplitter::next` with the frame it keeps between calls
    (`odb/OdbSplitter.cc:64`).
13. `Singletons`: `RequestEnvironment` (`mars/RequestEnvironment.cc:65`),
    `metkit_initialise`, the error string.
14. `GribFieldInfo`: the rank of a point in the bitmap, with its width.

## The models

### A transfer: `CallbackLink`, `DHSProtocol`, `MarsHandle`, `DHSTransfer`

`CallbackLink` declares what both ends share: the listening endpoint, the
control connection of each task, the backlog of callbacks, who holds the data
connection, and the units of data on the wire in each direction. The three
kinds of endpoint in `DHSProtocol.cc` (direct, proxy, passive proxy) are one.
Data are counted in units; the trailer takes `Trailer` of them.

`DHSProtocol` is the handle and its protocol object. A call of the application
is a sequence of steps, because other parties move while it waits:

| Action | Code |
|---|---|
| `OpenForRead`, `OpenForWrite` | `MarsRequestHandle::openForRead/openForWrite`: `opened_` is set before anything can fail |
| `SendTask`, `OpenFails`, `Acknowledged` | `DHSProtocol::retrieve/archive` up to the first `wait()` |
| `HearOK`, `HearError`, `HearRead`, `HearWrite`, `HearMessage`, `HearUnsupported`, `HearStranger` | one turn of `wait()`: hang up, accept, `ClientTask::receive` (which asserts the identifier), the cases of the switch |
| `Read`, `ReadEnds`, `Write` | `read`, `write` |
| `Close`, `Destroy`, `DestroyProtocol` | `close`; `~MarsRequestHandle`; `~DHSProtocol`, which sets `done_` and cleans up |
| `Cleanup`, `WaitReturns` | `cleanup()` before and after its loop on `wait()` |

An exception that leaves a destructor ends the process (`pc = "terminated"`):
neither destructor is `noexcept(false)`.

`MarsHandle` is the other end of the data connection: opened for *write* to
retrieve and for *read* to archive, it compares what it moved with the length
(`BadTotal`) and waits for the trailer. `MoverDies` is a fault.

`DHSTransfer` adds the server, which is not in the repository. It is taken to
do what `wait()` and `ClientTask` expect: acknowledge or refuse, send messages,
start at most one mover, give one verdict when the mover has closed, 'e' if the
mover failed (`accepted` and `rejected` are what it concluded, heard or not). A
mover has some units to send and announces a length, which need not agree: 0 is a
length that is not known, and then `BadTotal` compares nothing.

`Faults` chooses what may go wrong in an instance: refused connections and
tasks, unknown codes, movers that die, archives cut short or overrun, handles
opened the wrong way, two tasks in one second.

### The index cache: `PointIndex`

One grid, several fields, `Workers` (threads) in `Procs` (processes). A worker
does `GribHandleDataSource::info`, then `PointIndex::lookUp`, and each file
operation on the way is a step. Trees are inodes, so that unlinking and renaming
a name does not change what a process has mapped; a file is absent, partial or
whole. The mutex is recursive (`holder`, `depth`), because `lookUp` calls
`cache`; `Unlock` releases what an exception unwinds. `Crash` clears a process'
memory and keeps the files as they are; `Clean` deletes the tree.

`OneIndex` is what the cache promises: a grid's index is absent, then made, once
and whole, and everyone who asks is given that one. `PointIndex` implements it
when one process uses the directory and nobody deletes from it
(`SharesOneIndex`): the abstract `index` is the tree file, counted as absent
while it is not whole, and `answer` is what each thread was served. `Rename`
publishes, `Found` and `Load` answer, `Crash` makes the threads of the process
forget, every other step stutters. With two processes the promise does not hold,
as the second `<md5>.tmp` is renamed over the first tree; what is left then is
`EventuallyWhole`.

### HyperCube: `HyperCube`, `CubeRequests`

`HyperCube` has the marks, the counter and the payloads. `Add` is
`HyperCubePayloaded::add`; `Replaces` is the caller's deduplicator, a strict
order. `added` is history. `CubeRequests` gives cells their coordinates and
translates `request`, `getRelation` and `mergeLast`; `Count` is
`MarsRequest::count`, with its rule for single-level parameters on model
levels.

### Expansion: `MarsExpansion`, with `ValueTypes` and `ParamNames`

The variables of `MarsExpansion` are the request, its expansion so far, the loop
and the key it is at, and `inheritance_` of each type (`memory`). One key per
step: `ReadNothing`, `ReadOff`, `Read` are the first loop of
`MarsLanguage::expand`; `Complete` is `Type::setDefaults`; `Remember` the
recording of what later requests inherit; `Resolve` is `Type::pass2`;
`FinaliseOff`, `Finalise` are `Type::finalise`. A finished expansion may be
expanded again (`ExpandAgain`), as a server does with what a client sends. A
request is the list of values of each key. Rules and types are constants: a
`Sense` is a context and what the type makes of a list in it, and the first
sense whose context matches is taken, in the first loop (`Readings`) as in the
third (`Resolvers`). Where several rules match, the code takes the one whose
context lies lowest in memory (the maps are keyed by pointers); the model takes
any. `taught` is history: what the last request read to its end gave for a key.

`ValueTypes` says what each class `Type*` makes of a list: enumerations with
their groups and best match, numbers, quantiles, times, steps, dates, and the
lists `a to b by c` of `TypeToByList`. `ParamNames` is `TypeParam`: rules, names
with several identifiers, `pass2`. They are recursive definitions that only TLC
evaluates; `MCMarsExpansion` assumes (and TLC checks) that the tables of the
instance are what they say. `AxisMatch` is `ParamID::normalise` with its wind
conversion and dropped tables, and `StepRangeNormalise`.

### Requests: `MarsRequest`

`MarsRequest` has a request as a verb and a list of parameters and its methods as
operators: `SetValue`, `UnsetValues`, `Merge`, `Matches`, `Filter`, `Subset`,
`Split`, the stream and JSON; and it writes and reads a request as
`dump()` and `MarsParser` do, on a text of words and marks. `MCMarsExpansion`
states what holds of them as assumptions, each over a set of sample requests.

### From a request to a message: `GribStages` and the modules below it

| Module | Code |
|---|---|
| `Dictionary`, `TypedDictionary` | `dict_traits`: what is set, and with which type |
| `ProductTime`, `GribTables`, `GribDeductions` | `backend/deductions`, `backend/tables`: each value that is deduced from the request, or the exception |
| `GribRegistry` | the list of concepts, their variants and the numbers of these |
| `GribConcepts` | the matcher of each concept, with its tables of parameters |
| `GribLayout` | the recipes of the six sections and which one matches; and the search as it is done, by numbers: masks, compressed keys, entries |
| `GribEncoding`, `GribCallbacks` | what each concept writes, and at which stage and section it is applicable |
| `GribMessage` | the rows of an encoding plan, and a message as the result of them |
| `GribStages` | the encoder as its callers drive it |

A message is a function from the keys that were set to their values. What may
throw returns a sequence, empty for the exception. `GribStages` has two
variables, the cache entry the caller holds and the call that is going on;
`EncodeOrPrepare` and `FinaliseEncoding` begin a call, `RunRow` does one row of
the encoding plan (the initializers of the sections, or all callbacks of a
stage) and may end it with an exception, `ReturnMessage` and `ReturnCache` end
it. `finaliseEncoding` runs the last row for another request on the message
that `prepare` left.

The code runs the callbacks of a row one after the other, the model all of
them on the message that was there before the row. The only callbacks that read
the message are the checks, which look at what the section initializers wrote.
That no two callbacks of a row write one key of times or levels is proved
(`OnlyOwners` in `GribTimesProofs`).

### From a legacy message: `Grib2Mars`, `MarsRules`, `Grib1ToGrib2`

`Grib2Mars` has the extractor of each keyword of the MARS namespace and of each
auxiliary key. `MarsRules` has the rules of mars2mars, each a table and what it
writes, in the order `convertAll` runs them. `RequestDictionary` is the same on
a `MarsRequest`, whose values are texts with a converter per keyword; the two
libraries have a header each for it, alike but for the names of exceptions, and
its definitions stand for both.
`Grib1ToGrib2` is the tool: `Read`, `ReadFails`, `ExtractMessage`, `MapMessage`,
`EncodeMessage` and `Close`. The variables `original` and `mapped` are the
dictionaries of the message in hand. An exception ends the loop: the reader may
throw wherever it stands, a message may have no values, each conversion may
refuse. What a message has in its MARS namespace is ecCodes' to say; a `timespan`
is extracted where this keyword is there and nowhere else, since the block of
`extractStep` that would deduce it from the steps is compiled out
(`grib2mars/mappings/rules/step.h:32`).

### A stream of messages: `CodesHandle`, `BufrCheck`

`CodesHandle` is the C++ face of a message of ecCodes: the four ways to make a
handle and what each does when there is no message, typed access and what it
throws, iterators over keys and points; and the two decoders, `MetadataGRIB` and
`MetadataBUFR`, which gather the metadata of a message through it.

`BufrCheck` is the tool. A stream is its length and the places at which the
letters of a message stand, each with the length the message claims and whether
it ends there; claims may overlap. `Read` is `CodesSplitter::next`: what ecCodes
reads (external), and the place where the reader goes on, which after a wrong
length is behind the letters of the message and no further (`After`). A read may
fail, before a message or inside it. `CheckMessage` is the body of the loop: the
message length, the subtype against the type, the dates of the two sections
against each other; what is counted, warned of, patched and written, in the
order of the code, since a check that throws leaves what was counted before it.
The options are read as `init` reads them (`OptionsOf`), with those it refuses.
`met` and `lost` are history.

## What the runs show

Runs that pass:

| Run | Instance | Question |
|---|---|---|
| `DHSTransfer_faults` | one task, 2 units, a trailer of 2, every fault but "second"; fair | What does a close without an exception promise, and does every call return? `CleanCloseIsConfirmed`, `RetrieveIntact`, `ArchiveIntact`, `CallsReturn`, `MoversFinish` |
| `DHSTransfer_reuse` | two tasks on one handle, one unit, every fault but "second" | Are callbacks left over from the earlier task refused (`NoStranger`); is an 'e' that was heard thrown by the close, on either use, and is on the first use none unheard when a close returns normally (`ErrorReported`)? |
| `PointIndex_crash` | two threads of one process, two fields, three builds, two crashes; fair | Is what is served and published always whole, and does every extraction end? `ServedWhole`, `GribBeforeTree`, `RenamesItsOwn`, `ExtractsReturn`, and the refinement of `OneIndex`, `SharesOneIndex` |
| `PointIndex_procs` | two processes, four builds, one deletion of the tree; fair | Does a half-built tree that was published become whole? `EventuallyWhole` |
| `CubeRequests_cube` | 2x3x2 cells, two payloads for two of them | Do marks, counter, payloads and ordinals agree, and do the requests cover exactly the cells? All 4096 subsets |
| `MarsExpansion_pairs` | ten keys with rules of the language that meet one another, two requests out of 51, both verbs, with and without inheritance and strictness | `LastWins`, `GivenWins`, `UnsetRespected`, and `ExpandedOnce`: an expansion expanded again stays what it is |
| `GribStages_cache` | 53 requests that reach each family of recipes, in pairs that differ in one key; cache entries for 12 of them | One layout per section (`LayoutIsDetermined`), the one the search by numbers finds (`SelectorFindsTheLayout`), no concept lost (`NothingDropped`), the right time (`ValidAsRequested`), what comes out of the cache (`FinaliseIsEncode`), no two requests with one message (`Distinguishable`) |
| `Grib1ToGrib2_convert` | three files, one of all kinds of instants, one of members, levels, spectra, windows and observations, one of intervals, with the keyword `timespan` and, where a rule gives the window, without; and fourteen with a message that is refused in the middle; a reader that may fail anywhere | Do time, window and level survive (`TimeKept`, `LevelKept`), do two become one (`Distinguishable`), do the rules of mars2mars settle (`RulesSettle`), and do they make the same of a `MarsRequest` as of a dictionary (`SameForRequests`)? |
| `BufrCheck_streams` | streams of one to three pieces out of eight (sound, broken, reaching over others, torn, letters alone, noise), and pairs of messages with one of 30 flaws; thirteen command lines; one read that fails | Is each sound message met once (`EachSoundMessageMet`), does none disappear (`NotWrittenIsReported`), can what is written be archived (`WrittenIsClean`), and does the reader come to an end (`ReadsOn`)? |

Runs that find the code to differ from what it says of itself:

| Run | Statement | What happens |
|---|---|---|
| `DHSTransfer_short` | ShortFile "Bad total" (`mars/MarsHandle.cc:174`) | `cleanup()` sends the trailer though less than announced was written; if no more is missing than the trailer is long, the mover takes it for data and is content |
| `PointIndex_missing` | `ASSERT(path.exists())` (`pointdb/PointIndex.cc:129`) | the info file is complete before the index is begun; a thread that finds it looks up an index nobody has built |
| `CubeRequests_single` | "the *minimal* collection of Mars requests that cover them" (`hypercube/HyperCube.h:78`) | on model levels a box with a single-level parameter counts no more than a part of it; the other part is dropped as embedded |

Types (`TypeOK`) are an invariant of `PointIndex_crash` only: of the other
modules they are theorems for all constants (`TypeCorrect`), and their runs spend
their time on other questions.

**Operators, checked as assumptions.** What is true of a definition without
state is stated as an ASSUME of the MC module it is looked at in, over the
samples given there, and TLC evaluates it in the run of that module:

- `MCMarsExpansion`: the tables of the instance are what `ValueTypes` and
  `ParamNames` make of these lists (`ReadAsTheTypesDo`, `ResolvedAsTheTypesDo`);
  the examples of the repository's tests that reach each branch (`RangesOfLevels`,
  `StepsAndTimes`, `DatesAndMonths`, `WindsAreMatched`, `TablesAreMatched`,
  `StepsAreMatched`); a split covers each field once and merges back
  (`SplitCoversOnce`, `MergedAgain`); stream and JSON keep a request; a filter
  agrees with a match; which requests come back from their text, and where the
  text of one runs into that of the next (`DumpIsReadBack`, `RequestsOfAFile`,
  `KeysAndStops`).
- `MCGribStages`: the code tables that are read back as they were written, and
  the one that is not (`TablesRoundTrip`, `SignificanceDoesNot`).
- `MCGrib1ToGrib2`: times, dates and numbers in the texts of a `MarsRequest`
  (`TimesAndDates`, `NumbersSurvive`), mars2mars on it does what it does on a
  dictionary (`SameConversion`), the messages whose request cannot be filled in
  (`NotFilled`), and the types of the dictionaries (`TypesAgree`,
  `NothingStopsTheMerge`, `MessagesAreRead`).
- `MCBufrCheck`: what the decoder gathers of a field (`GatheredOfAField`), and
  which accesses of a handle throw (`HandlesThrow`).

**Bounds, and why they are enough.** `MaxTasks`, `MaxLen`, `Trailer`,
`MaxMessages`: one task shows every verdict with every fault, as the properties
of `DHSTransfer_faults` speak of one; a stale callback needs an earlier task.
Two units with a trailer of two let the trailer be taken for all, some or none
of the data. One message per task is enough for a message to come before and
after a mover's call. `MaxBuilds`, `MaxCrashes`, `MaxCleans`, `MaxExtracts`: two
threads suffice for the races of the cache, as the mutex is held by one of them;
two crashes allow the second to hit the recovery from the first; two fields let
a worker come by with its info in memory and without, in two extractions; three
builds are one more than the crashes. For cubes, a side of three is the least on
which slices on both sides of a gap can be merged across it by mistake, and
three axes the least for which the cut is not decided by the first merge.
`MaxRequests`: two requests are what inheritance relates; `LastWins` after
longer sequences is covered by its proof. `Requests`, `Prepared`, `Files`: the
conversions have no state but a cache entry or what is in the files, so what matters is that each branch is in a request or a message, and
that each has a neighbour that differs from it in little; for all others there
are the proofs. `MaxReadErrors`: a failed read ends the loop unless the reader
moved, and leaves nothing behind but its place, so one shows either. Three pieces
let a broken message reach over one or two sound ones, or into the middle of one;
a message is three long and its letters two, so that a step of any wrong length
falls on a different place. All bounds are guards of actions: no state constraint is used.
Deadlock checking is off where the system may stop: after the last request, in a
transfer with faults under which the code does wait for ever (see below), when
all fields are found, and when a file or a stream is at its end.

**Fairness.** Weak fairness, of threads and peers only. In `DHSTransfer` a
client in a call runs when it can, movers move, the server acknowledges and
gives its verdict, and the application ends what it began; in `PointIndex`
threads that are not blocked run. That is what an operating system's scheduler
and a live server give. Reading, messages and every fault are free not to
happen, and the fairness formulas never force one. The code has no timeout in
`accept()` (a FIXME at `mars/DHSProtocol.cc:166`), so without a server that
answers a client does wait for ever: `CallsReturn` speaks of servers that do.
Both liveness properties are about one task: with two, a mover of the first may
hold a connection that the client has no longer an end of, and nothing in the
code ends it.

### Observations

Seen while modelling, and stated by no run.

Transfers and the cache: the identifier of a task is process, thread and second
(`mars/ClientTask.cc:30`), and with the fault "second" `NoStranger` fails.
`cleanup()` throws in destructors that are not `noexcept(false)`
(`mars/DHSProtocol.cc:362`), which ends the process. A handle whose `done_` is
set from an earlier task returns from `close` without a verdict
(`mars/DHSProtocol.cc:437`), as nothing resets it: the 'e' of a second task may
stay unheard in the backlog, which is why `ErrorReported` and what else a close
promises differ between the first use and later ones. Where a mover announces the
length 0 its total is not compared (`mars/MarsHandle.cc:166`), so that only the
verdict tells whether it sent all it should. `done_` of the cache outlives the file: a tree that
was deleted is not built again by the process that built it
(`pointdb/PointIndex.cc:45`, `:113`). The info file is written under its final
name (`pointdb/GribHandleDataSource.cc:93`), so that another process may read a
part of it and fail.

Expansion: a key given twice keeps what it was given first
(`mars/MarsLanguage.cc:457`); a type that allows no duplicates accepts them, as
nothing is ever put into `seen` (`mars/Type.cc:301`); what is inherited is
recorded before the `set` rules (`mars/MarsLanguage.cc:504`) and before `pass2`
(`:517`), and an inherited value of a key whose type depends on the class
(`model`, `domain`) is not read again for the new class, so that an expansion may
be refused when it is expanded again; `param` is resolved before `stream` is
final; values that a rule sets are stored unread. A full match of a name stops
at equal lengths (`mars/MarsLanguage.cc:302`), so in strict mode a parameter
whose name begins exactly one name of the matching rule is refused (`tc`, `albedo` in
some contexts), and without strict becomes that one; a misspelled name is
accepted if its best matches are aliases of one identifier (`ttru`, `fog`).
`modifiers.yaml` has a `set` of class od for the verb list, which sets nothing.
`1 to 5 by 2 to 9` starts again from the step (`mars/TypeToByList.h:71`); a
negative level with decimals keeps its leading zeros; `date=01` stays, `date=1`
becomes jan. `ParamID::normalise` drops parameters it does not find
(`mars/ParamID.h:151`); a step that is in the axis and also ends a range from 0
matches twice (`mars/StepRangeNormalise.h:61`).

Requests: one without `param` counts its levels as one
(`mars/MarsRequest.cc:374`). An empty last value takes the verb of the next
request, even across lines; a parameter without values comes back from its text
with an empty one; `quoted()` escapes neither quotes nor backslashes; a request
without parameters is written as `verb,`, which is not read. `operator[]` reads
the first value of an empty list.

Cubes: the collection of requests is not always minimal, as one expects of a
greedy merge; a value given twice on an axis makes cells that nothing can clear
(`hypercube/HyperCube.cc:58`); `at` stores an empty payload for a cell that has
none (`hypercube/HyperCubePayloaded.h:65`).

Messages: the window of a statistic is known by the keyword `timespan` of the
message's MARS namespace or by a rule of mars2mars; an accumulation that has
neither is refused by mars2grib, as `step.h:32-67` is inside `#if 0`, and an
instant that has the keyword gets "none" for it and is refused too. An exception
of the reader or of `getDoubleArray("values")` ends grib1-to-grib2
(`src/src/tools/grib1-to-grib2.cc:140`, `:147`) like a failed conversion. Messages of EFI and its kin have no forecast time, as
`statisticsEncoding.h:85` leaves out indices, so two steps give one message;
`typeOfGeneratingProcess` 9 is set by a rule (`local2wmo.h:113`) and read by
nobody, so 174 and 243 give one; scale factors of wave directions and
frequencies, `bitmapPresent` and `wavelength` are set with one type and read with
another, the first three are then taken for unset and the last is refused; an
`ident`, a `number` and others have no converter in a `MarsRequest`, so
grib2mars cannot fill one for an ensemble, a spectral field or an observation;
the Laplacian operator is read as a whole number; the factors of the units are
noted under a comment "m -> kg m-2" with 10000 for 144 (`local2wmo.h:78`); every
fourth year is a leap year to a window of months (`statisticsDescriptor.h:109`);
151.5 hPa and 0.5 hPa cannot be told from the whole hectopascal below; the
recipes of aerosols ask for a statistic that their parameters do not have;
`assimilationStart` is read as the start of a simulation; `compositionMatcher`
never returns one of the variants that recipes mention; a swallowed exception in
`set_or_ignore` runs into `__builtin_unreachable`
(`dictaccess_eckit_configuration.h:112`); parameters without a recipe (141 after
its conversion) cannot be encoded; a regular grid loses the shape of the earth.
The comments of `local2wmo.h` speak of a conversion of units ("Precipitation (m
-> kg m-2)", `:66`), of which the rule does the half: it notes a factor under
`scaleFactor`, which nobody reads, so that grib1-to-grib2 writes the new
parameter with the values of the old one.

Streams: a date that differs is patched also by a tool that was not told to patch
(`src/src/tools/bufr-sanity-check.cc:264`, the one discrepancy without a look at
`patch_`); `--abort-on-error` does not abort where a message throws (`:387`); a
year before 2000 cannot be patched in edition 3, whose year of the century would
be negative (`:276`), and the message is then neither written nor patched; a
second 60 is accepted in section 2 and copied to section 1, where it is not;
an iterator's `getBytes` has room for half of the key's length
(`codes/api/CodesAPI.cc:604`), so a key of octets whose text is not twice as long
is refused.

## What is proved

For every value of the constants that satisfies the assumptions named in the
modules (`LinkAssumption`, `TransferAssumption`, `PointIndexAssumption`,
`CubeAssumption`, `RulesAssumption`, `OptionsAssumption`, `PreparedAssumption`,
`FilesAssumption`, `StreamsAssumption`), which TLC evaluates in each run. The
three of the conversions say that two options are booleans, that what is prepared
is among the requests, and that a file is finite: what is proved of the
conversions is proved of every set of requests and of messages, well-formed or
not, unless the theorem says otherwise. The last says what the places of letters
in a stream are: within it, apart by the length of the letters, and a sound
message lies within the stream.

| Theorem | Says | By |
|---|---|---|
| `DHSTransferProofs!TypeCorrect` | types, any number of tasks and faults | itself, by client, mover and server |
| `ErrorIsReported` | `ErrorReported`, under every fault: of a heard 'e' for any number of uses, of an unheard one for the first use | `ErrorHeld`: once 'e' was heard, `error_` is set until a call throws or a new open forgets the history; for the unheard, that 'o' was heard and a server that said it did not reject (`First`) |
| `StrangersRefused` | `NoStranger`, unless two tasks are made in a second | `Apart`: identifiers are distinct, and each callback in the backlog carries that of its task |
| `CleanCloseConfirmed`, `RetrieveIsIntact`, `ArchiveIsIntact` | `CleanCloseIsConfirmed`, `RetrieveIntact`, `ArchiveIntact`: of the first task of a handle, data of any length, announced rightly, wrongly or not at all, a trailer of any length, every fault | `First`, below |
| `PointIndexProofs!TypeCorrect` | types; the mutex is never held more than twice | `Held`: who is in a critical section holds the mutex, as often as the call is nested; `Mapped` |
| `WholeTreesServed`, `GribComesFirst`, `RenamedIsOwn` | `ServedWhole`, `GribBeforeTree`, `RenamesItsOwn` with one process, any threads, crashes and deletions | `Safe`: one builder; what it builds is named `.tmp` and nothing else; what is published or mapped is whole |
| `IndexIsShared` | `SharesOneIndex`: with one process and no deletions `PointIndex` implements `OneIndex` | `Safe`, `TypeOK` and `Current`: what a process has mapped is the published tree |
| `HyperCubeProofs!CountCorrect`, `PayloadsAreNotVacant`, `DeduplicationCorrect`, `OrdinalsCorrect`, `TypeCorrect` | the bookkeeping of a cube of any size, any strict order of payloads | `Inv`: the four properties and `GivenKept` (a cell nothing was added to has no payload) |
| `MarsExpansionProofs!InheritanceIsLastGiven`, `GivenIsKept`, `UnsetsHold`, `TypeCorrect` | `LastWins`, `GivenWins`, `UnsetRespected` for any rules, types and requests | `Inv`: one formula per loop that says what is true of the keys behind `turn` and of those before it |
| `MarsExpansionProofs!OnlyWhatIsThere`, `FoundIsMeant` | a normalised request asks only for parameters that are there, and each has the number that was asked for, up to its table | by cases over the three passes of `normalise` |
| `GribTimesProofs!InstantIsAsRequested`, `IntervalIsAsRequested` | the time of a message, or the end of its interval, is what the request asks for, calendar included | the arithmetic of days (`ConvertDate` and back), then each of the concepts that write a time |
| `GribStagesProofs!TypeCorrect` | types, and which rows are run for which call | an invariant that has the message so far as the value of `AfterRows`, on which the theorems below rest |
| `LayoutDetermined` | `LayoutIsDetermined`: no two recipes of a section match the variants of one request | a decision tree per section, below |
| `SearchIsRight` | `SelectorFindsTheLayout`: the search by masked and compressed numbers finds the layout of the recipes and nothing else | `NumberOfVariant`, below |
| `NumberOfVariant` | from the number of a variant the concept and the variant are found again | the blocks of the 27 concepts follow one another |
| `NothingIsDropped` | `NothingDropped`: every concept of a request is written by a section, at a stage at which it is applicable | what each matcher can return, and for each the section that has a recipe for it |
| `ValidWhenTyped` | `ValidAsRequested`, for every set of requests whose dates and times are numbers, without windows of months | `OnlyOwners`: which concept writes which key of the times, and when; then `GribTimesProofs` |
| `FinaliseEncodes` | `FinaliseIsEncode`: a message from the cache entry of another request of the same structure | row by row, below |
| `Grib1ToGrib2Proofs!TypeCorrect` | types; one message is written for each that was got from the reader, but for the one on its way or the one that ended the tool | an invariant that has the dictionaries as what the current message makes of them, on which the theorems below rest |
| `TheRulesSettle` | `RulesSettle`: no two rules write one key, and a converted request stays as it is | the tables of the rules do not meet, below |
| `TimesAreKept` | `TimeKept`: valid time and interval survive the three conversions, for files of `Timely` messages | what each conversion makes of the times, below |
| `LevelsAreKept` | `LevelKept`: so do pressures, model levels and layers, for files of `Placed` messages | what each conversion makes of the level, below |
| `RequestsAreTheSame` | `SameForRequests`: mars2mars makes the same of a `MarsRequest` as of a dictionary, and fails when it does | `WrittenIsReadBack`, and that the rules read four keys, which a filled request gives back as they were written |
| `BufrCheckProofs!SoundMessagesAreMet` | `EachSoundMessageMet`, for any stream, whatever its messages claim | `ReaderInv`, below |
| `TheReaderReadsOn` | `ReadsOn`: each read takes the reader on or ends the loop | the same |
| `NoMessageDisappears` | `NotWrittenIsReported`, for any stream and command line | an invariant that compares the counters with what each verdict counts (`IsReported`) |
| `WrittenIsReadBack` | a number that a rule sets in a `MarsRequest` is read from it as that number, whatever the converter of its key | by converter: plain, date, time, hours |

**A clean close** (`First`). The properties speak of the first task only: after
it `done_` stays set and a close may return without asking. `First` says what is
true until a second task is made, in six parts: the callbacks that can arrive are
those of this task, in the order the server can have sent them (`Alone`,
`Before`), what the server has done is reflected by what is in the backlog or
was heard (`Served`), units are with the client, on the wire or with the mover
and nowhere else (`Carried`; `Complete` once the mover has closed well), and the
client's `done_` and `error_` are what it was told (`Told`); `Attached`, `Retrieved` and `Archived` then bring in which end
has closed. That a task which the server has taken is not acknowledged again had
to be part of it: without it a second acknowledgement could follow the verdict.

**One layout** (`LayoutDetermined`). Of the small sections any two recipes ask
for variants that no request can have both. For the large ones, whose recipes
are too many to compare in pairs, `ProductRecipe` and its likes are decision
trees (a satellite? a wave? a species, and which? a member? an instant?), and
every recipe that matches is shown to be the one its tree leads to.

**The search** (`SearchIsRight`). A variant's number is the offset of its
concept and its place in it, and the blocks do not overlap (`NumberOfVariant`);
so a set of numbers says what a set of concepts with variants says. The mask of
a section keeps just the concepts its recipes mention; an entry of a recipe is a
choice of a variant for each of its concepts; and a key of the request equals an
entry exactly if the recipe matches (`InSelect`, `EntryIsMatch`). With
`LayoutDetermined` there is one recipe to be found. It needs that every matcher
returns a variant that is registered, which is a lemma per matcher.

**The time** (`ValidWhenTyped`). Each key of the times has one owner among the
concepts, which writes it in one stage and section (`OnlyOwners`), and a recipe
never takes an instant and an interval together; so nothing that is run later
changes what the owner wrote, and what that is is `GribTimesProofs`. Windows of
calendar months are left out: the code gives every fourth year a 29 February, so
that for 1900 or 2100 their end is a day late.

**The cache** (`FinaliseEncodes`). Two requests of one structure differ in times,
levels, directions and frequencies. For each concept it is shown which of these
it reads before the last stage: only the level does, and what it writes early is
written again by the last stage, or does not depend on the level; a time that is
refused early would be refused again at the end. So the rows of the two requests
are alike but for the keys that the last row overwrites.

**The rules** (`TheRulesSettle`). The tables of the rules have no parameter in
common, and no new parameter is in any of them, so at most one rule fires
besides that of the stream; what it wrote it would write again. Requests with a
levelist are left out: of these, 174098 moves to another level type.

**From message to message** (`TimesAreKept`, `LevelsAreKept`). grib2mars runs an
extractor per keyword, each of which writes only the key of its own keyword
(`OwnKeyOnly`), so a key of the request is what its extractor says
(`OfItsKeyword`); of the rules of mars2mars at most one fires besides that of the
stream, so a key is what that rule sets or what it was (`Converts`); and of what
mars2grib writes, the times are known from `ValidWhenTyped`, the window from
`LengthOfTimespan`, the level from `LevelLeft`: the last stage writes it, for
good. The two theorems suppose what the code cannot ensure. `Timely` leaves out
hindcasts, means of months, indices, which have no forecast time, and messages
whose `stepType` contradicts their parameter: an instant that is marked as an
average keeps its time and loses its interval. Whether a message has the keyword
`timespan` is not supposed: one without it is either given its window by a rule or
refused. `Placed` leaves out a parameter
that stands for a layer of the ground but comes on a pressure or a model level:
the table of layers replaces its level. TLC evaluates both assumptions on the
files of the run (`FilesAreOrdinary`), so that they are not empty.

**The reader** (`SoundMessagesAreMet`). `ReaderInv` says that what was met are
places of sound messages, ascending, that each lies behind the reader with all it
claims (`Passed`), and that, as long as nothing was lost, each message of the
stream was met or is still ahead. The last is what the step back is for: the
first letters ahead are either those of a sound message, which is read whole, or
those of a broken one, of which only the letters are passed; and no other letters
lie within these (`ReadMovesOn`). A sound message that lies within another one is
no message of the stream but data of that one.

`UnsetsHold` rests on an assertion of the code: `parseModifier` refuses a rule
whose context looks at a later key, so a context, once looked at, does not
change (`MatchesIsLocal`). Why each invariant is needed is said where it is
defined.

Only model-checked:

- liveness (`CallsReturn`, `MoversFinish`, `ExtractsReturn`, `EventuallyWhole`):
  liveness under fairness and ENABLED are out of the prover's reach;
- `ExactlyCovered`: `Request` and `MergeLast` are recursive, and what a recursive
  definition computes for every input needs induction over data, which is out
  of reach as well; so are `ValueTypes`, `ParamNames`, `MarsRequest` and
  `CodesHandle`, which are checked by assumptions;
- `WrittenIsClean`: the patches of a message are applied by a recursive function
  over their list, and each of some twenty keys would need a lemma of its own;
- `ExpandedOnce`: true of the instance, not of any types and rules: a type whose
  reading of a list is not a list it reads as itself breaks it, as does a key
  whose type depends on the class;
- `Distinguishable`, of either conversion: not true of all requests. The tables
  merge parameters, and some keys are read by nobody (see the observations); the
  run shows it of messages that differ in what users care about.

## What is not modelled

- *Serialisation* of the protocol and of its callbacks, the search for a proxy's
  host, and the statistics' contents: no property here depends on them.
- *CRC values*: `doCRC_` is false for every handle `ClientTask` makes, so the
  trailer carries no checksum that is compared.
- *The k-d tree* itself and the decoding of a value from a message, whose
  arithmetic has open questions (`pointdb/GribFieldInfo.cc:143`, `:161`);
  `HyperCubePayloaded::at`, the axis order.
- *Post-processing keys* that copy another key (`_resol`), aliases of keys, the
  flattening of values, and TypeParam's option `expand_with`.
- *What ecCodes does* when a key is set: a refusal of its own, or a key that
  changes others; a message is the keys that mars2grib sets. Floating-point
  results (the geometry of a grid, spectra) are inputs. The normalization of the
  dictionaries before mars2grib, which returns what it was given or an empty
  dictionary, is taken to have been done.
- *What eckit does* with the spelling of a date or of a time is modelled from how
  the types use it.
- *What ecCodes reads* of a stream is external: it is taken to skip what is no
  message, to read as much as the next one claims, and to call that a wrong length
  if it does not end there. `forceSet`, the points of a handle's grid one by
  one, and `LibEccodes`, which counts the users of the library.
- *odb, fields*: wrappers of odc and containers, whose behaviour is that
  library's. `OdbSplitter` keeps state of its own and is on the plan.
- *Tools* but one, *C API* (an error string per thread, and a flag without
  a lock in `metkit_initialise`, `api/metkit_c.cc:151`), *Rust and Python
  bindings*: argument and exception translation.
