----------------------------- MODULE PointIndex -----------------------------
(***************************************************************************)
(* The on-disk cache of grid indices (pointdb): the k-d tree of a grid is  *)
(* built once into <md5>.tmp and renamed to <md5>.kdtree, beside a copy of *)
(* the GRIB message it was built from (<md5>.grib), and each field has a   *)
(* small file with its decoding parameters (grib-info/).  Threads share    *)
(* done_ and cache_ under one recursive mutex per process; processes only  *)
(* share the files.                                                        *)
(*                                                                         *)
(* One grid is modelled.  A worker is a thread that extracts a value:      *)
(* GribHandleDataSource::info, then PointIndex::lookUp, which may call     *)
(* PointIndex::cache as info does.  A file on disk is "absent", "partial"  *)
(* while it is being written, or "whole"; trees are inodes, so that a name *)
(* can be renamed or unlinked under a process that has the file mapped.    *)
(***************************************************************************)
EXTENDS Naturals, FiniteSets

CONSTANTS Workers,      \* threads
          Procs,        \* processes
          Fields,       \* fields on the grid
          MaxBuilds,    \* bound: trees built
          MaxCrashes,   \* bound: processes that die
          MaxCleans,    \* bound: times the tree is deleted from the cache
          MaxExtracts   \* bound: values extracted per worker

CONSTANT home           \* home[w]: the process of worker w

ASSUME PointIndexAssumption ==
    /\ home \in [Workers -> Procs]
    /\ MaxBuilds \in Nat /\ MaxCrashes \in Nat /\ MaxCleans \in Nat /\ MaxExtracts \in Nat
    /\ 0 \notin Workers

Inodes == 1 .. MaxBuilds
File   == {"absent", "partial", "whole"}

VARIABLES tmp, kdtree,   \* the inode each name has, 0 when there is no such file
          whole,         \* inodes whose tree is built
          grib,          \* <md5>.grib
          info,          \* info[f]: the grib-info file of field f
          made,          \* inodes used so far
          done,          \* done[p]: done_ holds the md5
          cache,         \* cache[p]: the inode of the PointIndex in cache_, or 0
          holder, depth, \* the recursive mutex of each process
          pc, field,     \* where a worker is, and for which field
          ready,         \* ready[w]: fields whose info_ the worker has in memory
          mine,          \* mine[w]: the inode it is building
          served, fail,  \* how its last extraction went
          extracts, crashes, cleans   \* bounded counters

files  == <<tmp, kdtree, whole, grib, info, made>>
memory == <<done, cache, holder, depth>>
worker == <<pc, field, ready, mine, served, fail, extracts>>
vars   == <<files, memory, worker, crashes, cleans>>

Points == {"idle", "info", "openInfo", "writeInfo", "callCache", "probe", "unlink",
           "create", "build", "openGrib", "writeGrib", "rename",
           "lock", "find", "load"}

TypeOK ==
    /\ tmp \in 0 .. MaxBuilds /\ kdtree \in 0 .. MaxBuilds /\ made \in 0 .. MaxBuilds
    /\ whole \subseteq Inodes
    /\ grib \in File /\ info \in [Fields -> File]
    /\ done \in [Procs -> BOOLEAN] /\ cache \in [Procs -> 0 .. MaxBuilds]
    /\ holder \in [Procs -> Workers \cup {0}] /\ depth \in [Procs -> 0 .. 2]
    /\ pc \in [Workers -> Points] /\ field \in [Workers -> Fields]
    /\ ready \in [Workers -> SUBSET Fields] /\ mine \in [Workers -> 0 .. MaxBuilds]
    /\ served \in [Workers -> 0 .. MaxBuilds]
    /\ fail \in [Workers -> {"none", "shortInfo", "noTree", "badGrib", "noTmp"}]
    /\ extracts \in [Workers -> 0 .. MaxExtracts]
    /\ crashes \in 0 .. MaxCrashes /\ cleans \in 0 .. MaxCleans

Init ==
    /\ tmp = 0 /\ kdtree = 0 /\ whole = {} /\ grib = "absent" /\ made = 0
    /\ info = [f \in Fields |-> "absent"]
    /\ done = [p \in Procs |-> FALSE] /\ cache = [p \in Procs |-> 0]
    /\ holder = [p \in Procs |-> 0] /\ depth = [p \in Procs |-> 0]
    /\ pc = [w \in Workers |-> "idle"] /\ field \in [Workers -> Fields]
    /\ ready = [w \in Workers |-> {}] /\ mine = [w \in Workers |-> 0]
    /\ served = [w \in Workers |-> 0] /\ fail = [w \in Workers |-> "none"]
    /\ extracts = [w \in Workers |-> 0]
    /\ crashes = 0 /\ cleans = 0

Goto(w, here, there) == pc[w] = here /\ pc' = [pc EXCEPT ![w] = there]

(* mutant: the mutex is released but its depth is not reset *)
UnlockForgets(w) ==
    LET p == home[w] IN
    IF holder[p] = w
    THEN holder' = [holder EXCEPT ![p] = 0] /\ UNCHANGED depth
    ELSE UNCHANGED <<holder, depth>>

(* The thread leaves extract(), normally or by an exception; AutoLock releases
   whatever it holds of the mutex. *)
Unlock(w) ==
    LET p == home[w] IN
    IF holder[p] = w
    THEN holder' = [holder EXCEPT ![p] = 0] /\ depth' = [depth EXCEPT ![p] = 0]
    ELSE UNCHANGED <<holder, depth>>

(* mutant: an exception leaves the mutex locked *)
FailsLocked(w, why) ==
    /\ pc' = [pc EXCEPT ![w] = "idle"]
    /\ fail' = [fail EXCEPT ![w] = why]
    /\ UNCHANGED <<holder, depth, done, cache, field, mine, served, extracts>>

Fails(w, why) ==
    /\ pc' = [pc EXCEPT ![w] = "idle"]
    /\ fail' = [fail EXCEPT ![w] = why]
    /\ Unlock(w)
    /\ UNCHANGED <<done, cache, field, mine, served, extracts>>

------------------------------------------------------------------------------
(* GribHandleDataSource::info *)

Extract(w, f) ==
    /\ Goto(w, "idle", IF f \in ready[w] THEN "lock" ELSE "info")
    /\ extracts[w] < MaxExtracts
    /\ extracts' = [extracts EXCEPT ![w] = @ + 1]
    /\ field' = [field EXCEPT ![w] = f]
    /\ served' = [served EXCEPT ![w] = 0] /\ fail' = [fail EXCEPT ![w] = "none"]
    /\ UNCHANGED <<files, memory, ready, mine, crashes, cleans>>

ReadInfo(w) ==
    /\ info[field[w]] = "whole"
    /\ Goto(w, "info", "lock")
    /\ ready' = [ready EXCEPT ![w] = @ \cup {field[w]}]
    /\ UNCHANGED <<files, memory, field, mine, served, fail, extracts, crashes, cleans>>

(* fread finds less than a GribFieldInfo: the assertion fails *)
ReadShortInfo(w) ==
    /\ pc[w] = "info" /\ info[field[w]] = "partial"
    /\ Fails(w, "shortInfo")
    /\ UNCHANGED <<files, ready, crashes, cleans>>

(* No file: the field is decoded, and info_ is ready from here on. *)
DecodeInfo(w) ==
    /\ info[field[w]] = "absent"
    /\ Goto(w, "info", "openInfo")
    /\ ready' = [ready EXCEPT ![w] = @ \cup {field[w]}]
    /\ UNCHANGED <<files, memory, field, mine, served, fail, extracts, crashes, cleans>>

OpenInfo(w) ==
    /\ Goto(w, "openInfo", "writeInfo")
    /\ info' = [info EXCEPT ![field[w]] = "partial"]
    /\ UNCHANGED <<tmp, kdtree, whole, grib, made, memory, field, ready, mine, served,
                   fail, extracts, crashes, cleans>>

WriteInfo(w) ==
    /\ Goto(w, "writeInfo", "callCache")
    /\ info' = [info EXCEPT ![field[w]] = "whole"]
    /\ UNCHANGED <<tmp, kdtree, whole, grib, made, memory, field, ready, mine, served,
                   fail, extracts, crashes, cleans>>

------------------------------------------------------------------------------
(* PointIndex::cache, called by info and by lookUp *)

AcquireUnlocked(w) ==    \* mutant: no exclusion
    /\ holder' = [holder EXCEPT ![home[w]] = w]
    /\ depth' = [depth EXCEPT ![home[w]] = 1]

Acquire(w) ==
    LET p == home[w] IN
    /\ holder[p] \in {0, w}
    /\ holder' = [holder EXCEPT ![p] = w]
    /\ depth' = [depth EXCEPT ![p] = @ + 1]

(* cache() returns to info, which goes on to lookUp, or to lookUp *)
ReturnFromCache(w) ==
    LET p == home[w] IN
    IF depth[p] = 2
    THEN /\ pc' = [pc EXCEPT ![w] = "load"]
         /\ depth' = [depth EXCEPT ![p] = 1] /\ UNCHANGED holder
    ELSE /\ pc' = [pc EXCEPT ![w] = "lock"]
         /\ depth' = [depth EXCEPT ![p] = 0]
         /\ holder' = [holder EXCEPT ![p] = 0]

EnterCache(w) ==
    /\ Goto(w, "callCache", "probe")
    /\ Acquire(w)
    /\ UNCHANGED <<files, done, cache, field, ready, mine, served, fail, extracts,
                   crashes, cleans>>

ProbeHit(w) ==
    /\ pc[w] = "probe"
    /\ done[home[w]] \/ kdtree # 0
    /\ done' = [done EXCEPT ![home[w]] = TRUE]
    /\ ReturnFromCache(w)
    /\ UNCHANGED <<files, cache, field, ready, mine, served, fail, extracts,
                   crashes, cleans>>

(* mutant: only done_ is looked at, not the file *)
ProbeMissUnchecked(w) ==
    /\ ~done[home[w]]
    /\ Goto(w, "probe", "unlink")
    /\ UNCHANGED <<files, memory, field, ready, mine, served, fail, extracts,
                   crashes, cleans>>

ProbeMiss(w) ==
    /\ ~done[home[w]] /\ kdtree = 0
    /\ Goto(w, "probe", "unlink")
    /\ UNCHANGED <<files, memory, field, ready, mine, served, fail, extracts,
                   crashes, cleans>>

UnlinkTmp(w) ==
    /\ Goto(w, "unlink", "create")
    /\ tmp' = 0
    /\ UNCHANGED <<kdtree, whole, grib, info, made, memory, field, ready, mine, served,
                   fail, extracts, crashes, cleans>>

(* mutant: the tree is built under its final name *)
CreateInPlace(w) ==
    /\ Goto(w, "create", "build")
    /\ made < MaxBuilds /\ made' = made + 1 /\ tmp' = made + 1 /\ kdtree' = tmp'
    /\ mine' = [mine EXCEPT ![w] = tmp']
    /\ whole' = whole \ {tmp'}
    /\ UNCHANGED <<grib, info, memory, field, ready, served, fail, extracts,
                   crashes, cleans>>

(* The tree maps a new file, or the one another process has just made. *)
CreateTmp(w) ==
    /\ Goto(w, "create", "build")
    /\ IF tmp = 0
       THEN made < MaxBuilds /\ made' = made + 1 /\ tmp' = made + 1
       ELSE UNCHANGED <<made, tmp>>
    /\ mine' = [mine EXCEPT ![w] = tmp']
    /\ whole' = whole \ {tmp'}
    /\ UNCHANGED <<kdtree, grib, info, memory, field, ready, served, fail, extracts,
                   crashes, cleans>>

(* mutant: no copy of the GRIB message is kept *)
BuildKeepsNoGrib(w) ==
    /\ Goto(w, "build", "rename")
    /\ whole' = whole \cup {mine[w]}
    /\ UNCHANGED <<tmp, kdtree, grib, info, made, memory, field, ready, mine, served,
                   fail, extracts, crashes, cleans>>

(* mutant: the build is given up when another process has published a tree *)
BuildSkipsPublished(w) ==
    /\ Goto(w, "build", "openGrib")
    /\ whole' = IF kdtree # 0 THEN whole ELSE whole \cup {mine[w]}
    /\ UNCHANGED <<tmp, kdtree, grib, info, made, memory, field, ready, mine, served,
                   fail, extracts, crashes, cleans>>

Build(w) ==
    /\ Goto(w, "build", "openGrib")
    /\ whole' = whole \cup {mine[w]}
    /\ UNCHANGED <<tmp, kdtree, grib, info, made, memory, field, ready, mine, served,
                   fail, extracts, crashes, cleans>>

OpenGrib(w) ==
    /\ Goto(w, "openGrib", "writeGrib")
    /\ grib' = "partial"
    /\ UNCHANGED <<tmp, kdtree, whole, info, made, memory, field, ready, mine, served,
                   fail, extracts, crashes, cleans>>

WriteGrib(w) ==
    /\ Goto(w, "writeGrib", "rename")
    /\ grib' = "whole"
    /\ UNCHANGED <<tmp, kdtree, whole, info, made, memory, field, ready, mine, served,
                   fail, extracts, crashes, cleans>>

Rename(w) ==
    /\ pc[w] = "rename" /\ tmp # 0
    /\ kdtree' = tmp /\ tmp' = 0
    /\ cache' = [cache EXCEPT ![home[w]] = mine[w]]
    /\ done' = [done EXCEPT ![home[w]] = TRUE]
    /\ ReturnFromCache(w)
    /\ UNCHANGED <<whole, grib, info, made, field, ready, mine, served, fail, extracts,
                   crashes, cleans>>

RenameFails(w) ==
    /\ pc[w] = "rename" /\ tmp = 0
    /\ Fails(w, "noTmp")
    /\ UNCHANGED <<files, ready, crashes, cleans>>

------------------------------------------------------------------------------
(* PointIndex::lookUp *)

EnterLookUp(w) ==
    /\ Goto(w, "lock", "find")
    /\ Acquire(w)
    /\ UNCHANGED <<files, done, cache, field, ready, mine, served, fail, extracts,
                   crashes, cleans>>

Serve(w, inode) ==
    /\ served' = [served EXCEPT ![w] = inode]
    /\ pc' = [pc EXCEPT ![w] = "idle"]
    /\ Unlock(w)

Found(w) ==
    /\ pc[w] = "find" /\ cache[home[w]] # 0
    /\ Serve(w, cache[home[w]])
    /\ UNCHANGED <<files, done, cache, field, ready, mine, fail, extracts, crashes, cleans>>

(* Not in memory: the tree file is loaded, or rebuilt from the GRIB copy. *)
NotFound(w) ==
    /\ cache[home[w]] = 0
    /\ \/ /\ kdtree # 0 \/ grib = "absent"
          /\ Goto(w, "find", "load")
          /\ UNCHANGED <<holder, depth>>
       \/ /\ kdtree = 0 /\ grib = "whole"
          /\ Goto(w, "find", "probe")
          /\ Acquire(w)
    /\ UNCHANGED <<files, done, cache, field, ready, mine, served, fail, extracts,
                   crashes, cleans>>

RebuildFails(w) ==
    /\ pc[w] = "find" /\ cache[home[w]] = 0 /\ kdtree = 0 /\ grib = "partial"
    /\ Fails(w, "badGrib")
    /\ UNCHANGED <<files, ready, crashes, cleans>>

Load(w) ==
    /\ pc[w] = "load" /\ kdtree # 0
    /\ cache' = [cache EXCEPT ![home[w]] = kdtree]
    /\ Serve(w, kdtree)
    /\ UNCHANGED <<files, done, field, ready, mine, fail, extracts, crashes, cleans>>

(* ASSERT(path.exists()) in the constructor *)
LoadFails(w) ==
    /\ pc[w] = "load" /\ kdtree = 0
    /\ Fails(w, "noTree")
    /\ UNCHANGED <<files, ready, crashes, cleans>>

------------------------------------------------------------------------------
(* The environment *)

(* A process dies; its threads start again in a new one with no memory. *)
Crash(p) ==
    /\ crashes < MaxCrashes /\ crashes' = crashes + 1
    /\ done' = [done EXCEPT ![p] = FALSE] /\ cache' = [cache EXCEPT ![p] = 0]
    /\ holder' = [holder EXCEPT ![p] = 0] /\ depth' = [depth EXCEPT ![p] = 0]
    /\ pc' = [w \in Workers |-> IF home[w] = p THEN "idle" ELSE pc[w]]
    /\ ready' = [w \in Workers |-> IF home[w] = p THEN {} ELSE ready[w]]
    /\ served' = [w \in Workers |-> IF home[w] = p THEN 0 ELSE served[w]]
    /\ fail' = [w \in Workers |-> IF home[w] = p THEN "none" ELSE fail[w]]
    /\ UNCHANGED <<files, field, mine, extracts, cleans>>

(* Somebody makes room in the cache directory. *)
Clean ==
    /\ cleans < MaxCleans /\ cleans' = cleans + 1
    /\ kdtree # 0 /\ kdtree' = 0
    /\ UNCHANGED <<tmp, whole, grib, info, made, memory, worker, crashes>>

Info(w)   == ReadInfo(w) \/ ReadShortInfo(w) \/ DecodeInfo(w) \/ OpenInfo(w) \/ WriteInfo(w)
Caches(w) == EnterCache(w) \/ ProbeHit(w) \/ ProbeMiss(w) \/ UnlinkTmp(w) \/ CreateTmp(w)
             \/ Build(w) \/ OpenGrib(w) \/ WriteGrib(w) \/ Rename(w) \/ RenameFails(w)
LookUp(w) == EnterLookUp(w) \/ Found(w) \/ NotFound(w) \/ RebuildFails(w) \/ Load(w)
             \/ LoadFails(w)
Run(w)    == Info(w) \/ Caches(w) \/ LookUp(w)

Finished == (\A w \in Workers : pc[w] = "idle" /\ extracts[w] = MaxExtracts) /\ UNCHANGED vars

Next ==
    \/ \E w \in Workers : Run(w) \/ \E f \in Fields : Extract(w, f)
    \/ \E p \in Procs : Crash(p)
    \/ Clean
    \/ Finished

Spec == Init /\ [][Next]_vars

(* Threads that are not blocked are scheduled.  The mutex is not fair: a thread
   gets it eventually because every holder releases it and extractions are
   bounded here, so weak fairness is enough. *)
FairSpec == Spec /\ \A w \in Workers : WF_vars(Run(w))

------------------------------------------------------------------------------
(* Properties *)

(* No caller gets a half-built tree: the tree is built aside and renamed, so a
   crash at any point leaves no partial <md5>.kdtree behind (cache). *)
ServedWhole == \A w \in Workers : served[w] # 0 => served[w] \in whole

(* Whenever there is a tree there is the GRIB message to rebuild it from: the
   copy is complete before the rename, and never rewritten after it. *)
GribBeforeTree == kdtree # 0 => grib = "whole"

(* The file renamed is the one this thread built. *)
RenamesItsOwn == \A w \in Workers : pc[w] = "rename" => tmp = mine[w] /\ mine[w] \in whole

(* One process keeps its promise: seen from outside, with only complete trees
   counted as there, the cache is a single index that is made once, and every
   thread is given that one (cache and lookUp, across crashes). *)
Promise == INSTANCE OneIndex
           WITH Clients <- Workers, Indices <- Inodes, answer <- served,
                index <- IF kdtree \in whole THEN kdtree ELSE 0
SharesOneIndex == Promise!Spec

(* Every extraction comes to an end, in whatever order threads take the mutex
   and though an exception leaves a function that holds it. *)
ExtractsReturn == \A w \in Workers : pc[w] # "idle" ~> pc[w] = "idle"

(* Between processes a half-built tree can be published; without a crash it is
   completed in place by the process that still builds it, unless it is deleted
   meanwhile. *)
EventuallyWhole == kdtree # 0 ~> (kdtree = 0 \/ kdtree \in whole)

(* "ASSERT(path.exists())": an index that is looked up is there. *)
LookUpFinds == \A w \in Workers : fail[w] # "noTree"
=============================================================================
