-------------------------- MODULE PointIndexProofs --------------------------
(***************************************************************************)
(* What is proved about PointIndex when the cache directory has one        *)
(* process at a time, with any number of threads, fields, crashes,         *)
(* deletions and builds.                                                   *)
(***************************************************************************)
EXTENDS PointIndex, TLAPS

Builds   == {"unlink", "create", "build", "openGrib", "writeGrib", "rename"}
Critical == Builds \cup {"probe", "find", "load"}

(***************************************************************************)
(* The invariant: whoever is in cache() or lookUp() holds the mutex, a     *)
(* builder finds tmp as it left it, and everything reachable by a name is  *)
(* an inode in use.                                                        *)
(***************************************************************************)
Exclusive ==
    \A w \in Workers : pc[w] \in Critical => holder[home[w]] = w

Building ==
    \A w \in Workers :
        /\ pc[w] \in Builds => kdtree = 0
        /\ pc[w] = "create" => tmp = 0
        /\ pc[w] \in {"build", "openGrib", "writeGrib", "rename"} => tmp = mine[w] /\ tmp # 0
        /\ pc[w] \in {"openGrib", "writeGrib", "rename"} => mine[w] \in whole
        /\ pc[w] = "rename" => grib = "whole"

Published ==
    /\ kdtree # 0 => kdtree \in whole /\ grib = "whole"
    /\ \A p \in Procs : cache[p] # 0 => cache[p] \in whole
    /\ \A w \in Workers : served[w] # 0 => served[w] \in whole

InUse ==
    /\ made \in Nat /\ tmp <= made
    /\ \A i \in whole : i \in Nat /\ i <= made

Safe == Exclusive /\ Building /\ Published /\ InUse

LEMMA SafeInit == Init => Safe
BY PointIndexAssumption
DEF Init, Safe, Exclusive, Building, Published, InUse, Critical, Builds

OneProc == \A p, q \in Procs : p = q

(* With one process nobody else is inside while a worker is. *)
LEMMA Alone ==
    ASSUME Exclusive, OneProc, NEW w \in Workers, NEW v \in Workers,
           pc[w] \in Critical, pc[v] \in Critical
    PROVE  w = v
BY PointIndexAssumption DEF Exclusive, OneProc

(***************************************************************************)
(* Types.  That a mutex is taken at most twice by one thread is not clear  *)
(* from any single step: it needs to be known where its holder is.         *)
(***************************************************************************)
Nesting ==
    /\ \A p \in Procs : holder[p] = 0 => depth[p] = 0
    /\ \A p \in Procs : holder[p] # 0 => home[holder[p]] = p /\ pc[holder[p]] \in Critical
    /\ \A w \in Workers : pc[w] \in {"find", "load"} => depth[home[w]] = 1

Held == Exclusive /\ Nesting

Mapped == \A w \in Workers : pc[w] = "build" => mine[w] # 0

(* A function updated at one point stays in its function set. *)
LEMMA UpdateType ==
    ASSUME NEW S, NEW R, NEW f \in [S -> R], NEW x \in S, NEW v \in R
    PROVE  [f EXCEPT ![x] = v] \in [S -> R]
OBVIOUS

LEMMA InfoSafe ==
    ASSUME TypeOK, Safe, NEW w \in Workers,
           Info(w) \/ \E f \in Fields : Extract(w, f)
    PROVE  Safe'
<1>1. /\ pc[w] \notin Critical /\ pc'[w] \notin Critical
      /\ \A v \in Workers : v # w => pc'[v] = pc[v]
      /\ UNCHANGED <<tmp, kdtree, whole, grib, made, cache, mine>>
      /\ \A v \in Workers : served'[v] # 0 => served'[v] = served[v]
      /\ \A p \in Procs : holder[p] # w => holder'[p] = holder[p]
  <2>1. CASE ReadShortInfo(w)
    BY <2>1, PointIndexAssumption
    DEF ReadShortInfo, Fails, Unlock, TypeOK, Critical, Builds, files
  <2>2. CASE \E f \in Fields : Extract(w, f)
    BY <2>2 DEF Extract, Goto, TypeOK, Critical, Builds, files, memory
  <2>3. CASE ReadInfo(w) \/ DecodeInfo(w)
    BY <2>3 DEF ReadInfo, DecodeInfo, Goto, TypeOK, Critical, Builds, files, memory
  <2>4. CASE OpenInfo(w) \/ WriteInfo(w)
    BY <2>4 DEF OpenInfo, WriteInfo, Goto, TypeOK, Critical, Builds, memory
  <2> QED
    BY <2>1, <2>2, <2>3, <2>4 DEF Info
<1>2. Exclusive'
  BY <1>1, PointIndexAssumption DEF Safe, Exclusive
<1>3. Building'
  BY <1>1 DEF Safe, Building, Critical, Builds, TypeOK
<1> QED
  BY <1>1, <1>2, <1>3 DEF Safe, Published, InUse

LEMMA CachesExclusive ==
    ASSUME TypeOK, Safe, NEW w \in Workers, Caches(w) \/ LookUp(w)
    PROVE  Exclusive'
<1>1. \A v \in Workers : v # w => pc'[v] = pc[v]
  BY DEF Caches, LookUp, EnterCache, ProbeHit, ProbeMiss, UnlinkTmp, CreateTmp, Build,
         OpenGrib, WriteGrib, Rename, RenameFails, EnterLookUp, Found, NotFound,
         RebuildFails, Load, LoadFails, Goto, ReturnFromCache, Serve, Fails, TypeOK
<1>2. CASE UNCHANGED holder /\ pc[w] \in Critical
  BY <1>1, <1>2 DEF Safe, Exclusive
<1>3. CASE Acquire(w)
  <2>1. holder' = [holder EXCEPT ![home[w]] = w] /\ holder[home[w]] \in {0, w}
    BY <1>3 DEF Acquire
  <2>2. holder'[home[w]] = w /\ \A p \in Procs : p # home[w] => holder'[p] = holder[p]
    BY <2>1, PointIndexAssumption DEF TypeOK
  <2> QED
    BY <1>1, <2>1, <2>2, PointIndexAssumption DEF Safe, Exclusive
<1>4. CASE pc'[w] \notin Critical /\ \A p \in Procs : holder[p] # w => holder'[p] = holder[p]
  BY <1>1, <1>4, PointIndexAssumption DEF Safe, Exclusive
<1>5. Unlock(w) => \A p \in Procs : holder[p] # w => holder'[p] = holder[p]
  BY PointIndexAssumption DEF Unlock, TypeOK
<1>6. CASE EnterCache(w) \/ EnterLookUp(w)
  BY <1>3, <1>6 DEF EnterCache, EnterLookUp
<1>7. CASE ProbeMiss(w) \/ UnlinkTmp(w) \/ CreateTmp(w) \/ Build(w) \/ OpenGrib(w) \/ WriteGrib(w)
  BY <1>2, <1>7
  DEF ProbeMiss, UnlinkTmp, CreateTmp, Build, OpenGrib, WriteGrib, Goto, memory,
      Critical, Builds
<1>8. CASE ProbeHit(w) \/ Rename(w)
  <2>1. pc[w] \in Critical /\ ReturnFromCache(w)
    BY <1>8 DEF ProbeHit, Rename, Critical, Builds
  <2>2. holder[home[w]] = w
    BY <2>1 DEF Safe, Exclusive
  <2>3. CASE depth[home[w]] = 2
    BY <1>2, <2>1, <2>3 DEF ReturnFromCache
  <2>4. CASE depth[home[w]] # 2
    <3>1. pc'[w] = "lock" /\ holder' = [holder EXCEPT ![home[w]] = 0]
      BY <2>1, <2>4 DEF ReturnFromCache, TypeOK
    <3> QED
      BY <1>4, <2>2, <3>1, PointIndexAssumption DEF TypeOK, Critical, Builds
  <2> QED
    BY <2>3, <2>4
<1>9. CASE RenameFails(w) \/ RebuildFails(w) \/ LoadFails(w)
  BY <1>4, <1>5, <1>9 DEF RenameFails, RebuildFails, LoadFails, Fails, Critical, Builds, TypeOK
<1>10. CASE Found(w) \/ Load(w)
  BY <1>4, <1>5, <1>10 DEF Found, Load, Serve, Critical, Builds, TypeOK
<1>11. CASE NotFound(w)
  BY <1>2, <1>3, <1>11 DEF NotFound, Goto, Critical
<1> QED
  BY <1>6, <1>7, <1>8, <1>9, <1>10, <1>11 DEF Caches, LookUp

LEMMA CachesSafe ==
    ASSUME TypeOK, Safe, OneProc, NEW w \in Workers, Caches(w) \/ LookUp(w)
    PROVE  Building' /\ Published' /\ InUse'
<1>0. /\ \A v \in Workers : v # w /\ pc[w] \in Critical => pc[v] \notin Critical
      /\ w \in Workers
  BY Alone DEF Safe
<1>1. CASE UNCHANGED <<tmp, kdtree, whole, grib, made, cache, mine, served>>
           /\ pc'[w] \notin Builds /\ \A v \in Workers : v # w => pc'[v] = pc[v]
  BY <1>1 DEF Safe, Building, Published, InUse, Builds
<1>2. CASE EnterCache(w) \/ ProbeHit(w) \/ EnterLookUp(w) \/ NotFound(w)
  BY <1>1, <1>2 DEF EnterCache, ProbeHit, EnterLookUp, NotFound, Goto, ReturnFromCache,
                    files, memory, Builds, TypeOK
<1>3. CASE RenameFails(w) \/ RebuildFails(w) \/ LoadFails(w)
  BY <1>1, <1>3 DEF RenameFails, RebuildFails, LoadFails, Fails, files, Builds, TypeOK
<1>4. CASE ProbeMiss(w)
  BY <1>4 DEF ProbeMiss, Goto, files, memory, Safe, Building, Published, InUse, Builds, TypeOK
<1>5. CASE UnlinkTmp(w)
  BY <1>0, <1>5 DEF UnlinkTmp, Goto, memory, Safe, Building, Published, InUse, Builds,
                    Critical, TypeOK
<1>6. CASE CreateTmp(w)
  <2>1. pc[w] = "create" /\ tmp = 0 /\ kdtree = 0
    BY <1>6 DEF CreateTmp, Goto, Safe, Building, Builds
  <2>2. made' = made + 1 /\ tmp' = made + 1 /\ mine' = [mine EXCEPT ![w] = made + 1]
        /\ whole' = whole \ {made + 1} /\ UNCHANGED <<kdtree, grib, cache, served>>
        /\ pc' = [pc EXCEPT ![w] = "build"]
    BY <1>6, <2>1 DEF CreateTmp, Goto, memory
  <2>3. made \in Nat /\ made + 1 \notin whole /\ whole' = whole
    BY <2>2 DEF Safe, InUse
  <2>4. Building'
    BY <1>0, <2>1, <2>2, <2>3 DEF Safe, Building, Builds, Critical, TypeOK
  <2>5. Published'
    BY <2>1, <2>2, <2>3 DEF Safe, Published
  <2> QED
    BY <2>2, <2>3, <2>4, <2>5 DEF Safe, InUse
<1>7. CASE Build(w)
  <2>1. /\ pc[w] = "build" /\ pc' = [pc EXCEPT ![w] = "openGrib"]
        /\ whole' = whole \cup {mine[w]} /\ UNCHANGED <<tmp, kdtree, grib, made, cache, mine, served>>
    BY <1>7 DEF Build, Goto, memory
  <2>2. mine[w] = tmp /\ mine[w] \in Nat /\ mine[w] <= made
    BY <2>1 DEF Safe, Building, InUse, TypeOK
  <2>3. Building'
    BY <1>0, <2>1 DEF Safe, Building, Builds, Critical, TypeOK
  <2>4. Published'
    BY <2>1 DEF Safe, Published
  <2> QED
    BY <2>1, <2>2, <2>3, <2>4 DEF Safe, InUse
<1>8. CASE OpenGrib(w) \/ WriteGrib(w)
  <2>1. /\ pc[w] \in {"openGrib", "writeGrib"}
        /\ pc' = [pc EXCEPT ![w] = IF pc[w] = "openGrib" THEN "writeGrib" ELSE "rename"]
        /\ pc[w] = "writeGrib" => grib' = "whole"
        /\ UNCHANGED <<tmp, kdtree, whole, made, cache, mine, served>>
    BY <1>8 DEF OpenGrib, WriteGrib, Goto, memory
  <2>2. kdtree = 0
    BY <2>1 DEF Safe, Building, Builds
  <2>3. Building'
    BY <1>0, <2>1 DEF Safe, Building, Builds, Critical, TypeOK
  <2> QED
    BY <2>1, <2>2, <2>3 DEF Safe, Published, InUse
<1>9. CASE Rename(w)
  <2>1. /\ pc[w] = "rename" /\ kdtree' = tmp /\ tmp' = 0
        /\ cache' = [cache EXCEPT ![home[w]] = mine[w]]
        /\ UNCHANGED <<whole, grib, made, mine, served>>
        /\ pc'[w] \in {"load", "lock"} /\ \A v \in Workers : v # w => pc'[v] = pc[v]
    BY <1>9 DEF Rename, ReturnFromCache, TypeOK
  <2>2. tmp = mine[w] /\ mine[w] \in whole /\ grib = "whole"
    BY <2>1 DEF Safe, Building
  <2>3. Building'
    BY <1>0, <2>1 DEF Safe, Building, Builds, Critical
  <2>4. Published'
    BY <2>1, <2>2 DEF Safe, Published, TypeOK
  <2> QED
    BY <2>1, <2>3, <2>4 DEF Safe, InUse
<1>10. CASE Found(w) \/ Load(w)
  <2>1. /\ UNCHANGED <<tmp, kdtree, whole, grib, made, mine>>
        /\ pc' = [pc EXCEPT ![w] = "idle"]
    BY <1>10 DEF Found, Load, Serve, files
  <2>2. Published'
    <3>1. CASE Found(w)
      BY <3>1, PointIndexAssumption DEF Found, Serve, files, Safe, Published, TypeOK
    <3>2. CASE Load(w)
      BY <3>2, PointIndexAssumption DEF Load, Serve, files, Safe, Published, TypeOK
    <3> QED
      BY <1>10, <3>1, <3>2
  <2>3. Building'
    BY <2>1 DEF Safe, Building, Builds, TypeOK
  <2> QED
    BY <2>1, <2>2, <2>3 DEF Safe, InUse
<1> QED
  BY <1>2, <1>3, <1>4, <1>5, <1>6, <1>7, <1>8, <1>9, <1>10 DEF Caches, LookUp

LEMMA CrashSafe ==
    ASSUME TypeOK, Safe, OneProc, NEW p \in Procs, Crash(p)
    PROVE  Safe'
<1>1. \A w \in Workers : pc'[w] = "idle"
  BY PointIndexAssumption DEF Crash, OneProc
<1>2. /\ UNCHANGED <<tmp, kdtree, whole, grib, made>>
      /\ \A q \in Procs : cache'[q] = 0
      /\ \A w \in Workers : served'[w] = 0
  BY PointIndexAssumption DEF Crash, files, OneProc, TypeOK
<1>3. Exclusive' /\ Building'
  BY <1>1 DEF Exclusive, Building, Critical, Builds
<1> QED
  BY <1>2, <1>3 DEF Safe, Published, InUse

LEMMA SafeNext ==
    ASSUME TypeOK, Safe, OneProc, [Next]_vars
    PROVE  Safe'
<1>1. CASE \E w \in Workers : Info(w) \/ \E f \in Fields : Extract(w, f)
  BY <1>1, InfoSafe
<1>2. CASE \E w \in Workers : Caches(w) \/ LookUp(w)
  BY <1>2, CachesExclusive, CachesSafe DEF Safe
<1>3. CASE \E p \in Procs : Crash(p)
  BY <1>3, CrashSafe
<1>4. CASE Clean
  BY <1>4 DEF Clean, memory, worker, Safe, Exclusive, Building, Published, InUse
<1>5. CASE UNCHANGED vars
  BY <1>5 DEF vars, files, memory, worker, Safe, Exclusive, Building, Published, InUse
<1> QED
  BY <1>1, <1>2, <1>3, <1>4, <1>5 DEF Next, Run, Finished

MutexType == holder \in [Procs -> Workers \cup {0}] /\ depth \in [Procs -> 0 .. 2]

LEMMA LockingType ==
    ASSUME TypeOK, Held, NEW w \in Workers
    PROVE  /\ Acquire(w) /\ pc[w] \in {"callCache", "lock", "find"} => MutexType'
           /\ Unlock(w) => MutexType'
           /\ ReturnFromCache(w) => MutexType' /\ pc' \in [Workers -> Points]
           /\ UNCHANGED <<holder, depth>> => MutexType'
<1>0. home[w] \in Procs
  BY PointIndexAssumption
<1>1. ASSUME Acquire(w), pc[w] \in {"callCache", "lock", "find"} PROVE MutexType'
  <2>1. depth[home[w]] \in {0, 1}
    <3>1. CASE holder[home[w]] = 0
      BY <1>0, <3>1 DEF Held, Nesting
    <3>2. CASE holder[home[w]] = w
      BY <1>0, <1>1, <3>2, PointIndexAssumption DEF Held, Nesting, Critical, Builds
    <3> QED
      BY <1>1, <3>1, <3>2 DEF Acquire
  <2> QED
    BY <1>0, <1>1, <2>1, PointIndexAssumption DEF Acquire, MutexType, TypeOK
<1>2. Unlock(w) => MutexType'
  BY <1>0 DEF Unlock, MutexType, TypeOK
<1>3. ReturnFromCache(w) => MutexType' /\ pc' \in [Workers -> Points]
  BY <1>0 DEF ReturnFromCache, MutexType, Points, TypeOK
<1> QED
  BY <1>1, <1>2, <1>3 DEF MutexType, TypeOK

LEMMA TypeNext ==
    ASSUME TypeOK, Held, Mapped, [Next]_vars
    PROVE  TypeOK'
<1>0. ASSUME NEW w \in Workers PROVE home[w] \in Procs
  BY PointIndexAssumption
<1>1. ASSUME NEW w \in Workers, Info(w) \/ \E f \in Fields : Extract(w, f) PROVE TypeOK'
  <2>1. CASE \E f \in Fields : Extract(w, f)
    BY <2>1, PointIndexAssumption DEF Extract, Goto, files, memory, TypeOK, Points
  <2>2. CASE ReadInfo(w) \/ DecodeInfo(w)
    BY <2>2 DEF ReadInfo, DecodeInfo, Goto, files, memory, TypeOK, Points
  <2>3. CASE ReadShortInfo(w)
    BY <2>3, LockingType DEF ReadShortInfo, Fails, MutexType, files, TypeOK, Points
  <2>4. CASE OpenInfo(w) \/ WriteInfo(w)
    BY <2>4 DEF OpenInfo, WriteInfo, Goto, memory, TypeOK, Points, File
  <2> QED
    BY <1>1, <2>1, <2>2, <2>3, <2>4 DEF Info
<1>2. ASSUME NEW w \in Workers, Caches(w) PROVE TypeOK'
  <2>1. CASE EnterCache(w)
    BY <2>1, LockingType DEF EnterCache, Goto, MutexType, files, TypeOK, Points
  <2>2. CASE ProbeHit(w)
    BY <1>0, <2>2, LockingType DEF ProbeHit, MutexType, files, TypeOK
  <2>3. CASE ProbeMiss(w) \/ UnlinkTmp(w)
    BY <2>3, PointIndexAssumption DEF ProbeMiss, UnlinkTmp, Goto, files, memory, TypeOK, Points
  <2>4. CASE CreateTmp(w)
    <3>1. tmp' \in 0 .. MaxBuilds /\ made' \in 0 .. MaxBuilds
      BY <2>4, PointIndexAssumption DEF CreateTmp, TypeOK
    <3>2. mine' \in [Workers -> 0 .. MaxBuilds]
      BY <2>4, <3>1 DEF CreateTmp, TypeOK
    <3>3. pc' \in [Workers -> Points]
      BY <2>4 DEF CreateTmp, Goto, TypeOK, Points
    <3>4. whole' \subseteq Inodes
      BY <2>4 DEF CreateTmp, TypeOK
    <3> QED
      BY <2>4, <3>1, <3>2, <3>3, <3>4 DEF CreateTmp, memory, TypeOK
  <2>5. CASE Build(w)
    <3>1. mine[w] \in Inodes
      BY <2>5, PointIndexAssumption DEF Build, Goto, Mapped, TypeOK, Inodes
    <3> QED
      BY <2>5, <3>1 DEF Build, Goto, memory, TypeOK, Points
  <2>6. CASE OpenGrib(w) \/ WriteGrib(w)
    BY <2>6 DEF OpenGrib, WriteGrib, Goto, memory, TypeOK, Points, File
  <2>7. CASE Rename(w)
    BY <1>0, <2>7, LockingType, PointIndexAssumption DEF Rename, MutexType, TypeOK
  <2>8. CASE RenameFails(w)
    BY <2>8, LockingType DEF RenameFails, Fails, MutexType, files, TypeOK, Points
  <2> QED
    BY <1>2, <2>1, <2>2, <2>3, <2>4, <2>5, <2>6, <2>7, <2>8 DEF Caches
<1>3. ASSUME NEW w \in Workers, LookUp(w) PROVE TypeOK'
  <2>1. CASE EnterLookUp(w)
    BY <2>1, LockingType DEF EnterLookUp, Goto, MutexType, files, TypeOK, Points
  <2>2. CASE Found(w)
    BY <1>0, <2>2, LockingType DEF Found, Serve, MutexType, files, TypeOK, Points
  <2>3. CASE NotFound(w)
    BY <2>3, LockingType DEF NotFound, Goto, MutexType, files, TypeOK, Points
  <2>4. CASE RebuildFails(w) \/ LoadFails(w)
    BY <2>4, LockingType DEF RebuildFails, LoadFails, Fails, MutexType, files, TypeOK, Points
  <2>5. CASE Load(w)
    BY <1>0, <2>5, LockingType DEF Load, Serve, MutexType, files, TypeOK, Points
  <2> QED
    BY <1>3, <2>1, <2>2, <2>3, <2>4, <2>5 DEF LookUp
<1>4. ASSUME NEW p \in Procs, Crash(p) PROVE TypeOK'
  BY <1>4, PointIndexAssumption DEF Crash, files, TypeOK, Points
<1>5. CASE Clean
  BY <1>5, PointIndexAssumption DEF Clean, memory, worker, TypeOK
<1>6. CASE UNCHANGED vars
  BY <1>6 DEF vars, files, memory, worker, TypeOK
<1> QED
  BY <1>1, <1>2, <1>3, <1>4, <1>5, <1>6 DEF Next, Run, Finished

(* Where a step of w may go and what it does to the mutex meanwhile. *)
Enters(w)  == Acquire(w) /\ pc[w] \notin Critical /\ pc'[w] \in {"find", "probe"}
Nests(w)   == Acquire(w) /\ pc[w] = "find" /\ pc'[w] = "probe"
Returns(w) == ReturnFromCache(w) /\ pc[w] \in Critical
Leaves(w)  == Unlock(w) /\ pc'[w] = "idle"
Stays(w)   == /\ UNCHANGED <<holder, depth>>
              /\ \/ pc[w] \notin Critical /\ pc'[w] \notin Critical
                 \/ pc[w] \in Critical /\ pc'[w] \in Critical \ {"find", "load"}
                 \/ pc[w] = "find" /\ pc'[w] = "load"

LEMMA HeldStep ==
    ASSUME TypeOK, Held, NEW w \in Workers,
           \A v \in Workers : v # w => pc'[v] = pc[v],
           Enters(w) \/ Nests(w) \/ Returns(w) \/ Leaves(w) \/ Stays(w)
    PROVE  Held'
<1> DEFINE p == home[w]
<1>0. p \in Procs /\ \A v \in Workers : home[v] \in Procs
  BY PointIndexAssumption
<1>1. pc[w] \in Critical => holder[p] = w
  BY DEF Held, Exclusive
<1>2. \A v \in Workers : v # w /\ holder[p] \in {0, w} /\ home[v] = p => pc[v] \notin Critical
  BY PointIndexAssumption DEF Held, Exclusive
<1>3. \A q \in Procs : q # p => holder[q] # w
  BY PointIndexAssumption DEF Held, Nesting
<1>4. CASE Stays(w)
  <2>1. UNCHANGED <<holder, depth>> /\ (pc'[w] \in Critical <=> pc[w] \in Critical)
    BY <1>4 DEF Stays, Critical
  <2>2. pc'[w] \in {"find", "load"} => pc[w] = "find"
    BY <1>4 DEF Stays, Critical
  <2>3. Exclusive'
    BY <2>1 DEF Held, Exclusive
  <2>4. Nesting'
    BY <2>1, <2>2 DEF Held, Nesting, TypeOK
  <2> QED
    BY <2>3, <2>4 DEF Held
<1>5. CASE Enters(w) \/ Nests(w)
  <2>1. holder[p] \in {0, w} /\ holder' = [holder EXCEPT ![p] = w]
        /\ depth' = [depth EXCEPT ![p] = @ + 1] /\ pc'[w] \in {"find", "probe"}
    BY <1>5 DEF Enters, Nests, Acquire
  <2>2. pc'[w] = "find" => depth'[p] = 1
    <3>1. pc'[w] = "find" => holder[p] = 0
      BY <1>0, <1>5, <2>1 DEF Enters, Nests, Held, Nesting
    <3> QED
      BY <1>0, <2>1, <3>1 DEF Held, Nesting, TypeOK
  <2>3. Exclusive'
    BY <1>0, <1>2, <2>1 DEF Held, Exclusive, TypeOK
  <2>4. Nesting'
    <3>1. holder'[p] = w /\ \A q \in Procs : q # p => holder'[q] = holder[q] /\ depth'[q] = depth[q]
      BY <1>0, <2>1 DEF TypeOK
    <3>2. \A v \in Workers : pc'[v] \in {"find", "load"} => depth'[home[v]] = 1
      BY <1>0, <1>2, <2>1, <2>2, <3>1 DEF Held, Nesting, Critical
    <3>3. pc'[w] \in Critical /\ w # 0
      BY <2>1, PointIndexAssumption DEF Critical
    <3>4. \A q \in Procs : holder'[q] = 0 => depth'[q] = 0
      BY <3>1, <3>3 DEF Held, Nesting
    <3>5. \A q \in Procs : holder'[q] # 0 => home[holder'[q]] = q /\ pc'[holder'[q]] \in Critical
      BY <1>3, <3>1, <3>3 DEF Held, Nesting, TypeOK
    <3> QED
      BY <3>2, <3>4, <3>5 DEF Nesting
  <2> QED
    BY <2>3, <2>4 DEF Held
<1>6. CASE Leaves(w) /\ holder[p] # w
  BY <1>1, <1>3, <1>6 DEF Leaves, Unlock, Held, Exclusive, Nesting, TypeOK, Critical, Builds
<1>7. CASE /\ holder[p] = w /\ holder' = [holder EXCEPT ![p] = 0]
           /\ depth' = [depth EXCEPT ![p] = 0] /\ pc'[w] \in {"idle", "lock"}
  BY <1>0, <1>2, <1>3, <1>7 DEF Held, Exclusive, Nesting, TypeOK, Critical, Builds
<1>8. CASE Returns(w) /\ depth[p] = 2
  <2>1. holder[p] = w /\ UNCHANGED holder /\ depth' = [depth EXCEPT ![p] = 1] /\ pc'[w] = "load"
    BY <1>1, <1>8 DEF Returns, ReturnFromCache, TypeOK
  <2> QED
    BY <1>0, <1>2, <1>3, <2>1, PointIndexAssumption
    DEF Held, Exclusive, Nesting, TypeOK, Critical, Builds
<1>9. CASE Returns(w) /\ depth[p] # 2
  BY <1>1, <1>7, <1>9 DEF Returns, ReturnFromCache, TypeOK
<1> QED
  BY <1>4, <1>5, <1>6, <1>7, <1>8, <1>9 DEF Leaves, Unlock

LEMMA HeldNext ==
    ASSUME TypeOK, Held, [Next]_vars
    PROVE  Held'
<1>1. ASSUME NEW w \in Workers, Run(w) \/ \E f \in Fields : Extract(w, f) PROVE Held'
  <2>1. \A v \in Workers : v # w => pc'[v] = pc[v]
    BY <1>1
    DEF Run, Info, Caches, LookUp, EnterCache, ProbeHit, ProbeMiss, UnlinkTmp, CreateTmp,
        Build, OpenGrib, WriteGrib, Rename, RenameFails, EnterLookUp, Found, NotFound,
        RebuildFails, Load, LoadFails, Goto, ReturnFromCache, Serve, Fails, TypeOK,
        Extract, ReadInfo, ReadShortInfo, DecodeInfo, OpenInfo, WriteInfo
  <2>2. CASE \E f \in Fields : Extract(w, f)
    BY <2>1, <2>2, HeldStep DEF Extract, Goto, memory, Stays, TypeOK, Critical, Builds
  <2>3. CASE Info(w)
    BY <2>1, <2>3, HeldStep
    DEF Info, ReadInfo, ReadShortInfo, DecodeInfo, OpenInfo, WriteInfo, Goto, Fails,
        memory, Stays, Leaves, TypeOK, Critical, Builds
  <2>4. CASE EnterCache(w) \/ EnterLookUp(w) \/ NotFound(w)
    BY <2>1, <2>4, HeldStep
    DEF EnterCache, EnterLookUp, NotFound, Goto, Enters, Nests, Stays, TypeOK, Critical, Builds
  <2>5. CASE ProbeHit(w) \/ Rename(w)
    BY <2>1, <2>5, HeldStep DEF ProbeHit, Rename, Returns, Critical, Builds
  <2>6. CASE ProbeMiss(w) \/ UnlinkTmp(w) \/ CreateTmp(w) \/ Build(w) \/ OpenGrib(w) \/ WriteGrib(w)
    BY <2>1, <2>6, HeldStep
    DEF ProbeMiss, UnlinkTmp, CreateTmp, Build, OpenGrib, WriteGrib, Goto, memory, Stays,
        TypeOK, Critical, Builds
  <2>7. CASE RenameFails(w) \/ RebuildFails(w) \/ LoadFails(w) \/ Found(w) \/ Load(w)
    BY <2>1, <2>7, HeldStep
    DEF RenameFails, RebuildFails, LoadFails, Found, Load, Serve, Fails, Leaves, TypeOK
  <2> QED
    BY <1>1, <2>2, <2>3, <2>4, <2>5, <2>6, <2>7 DEF Run, Caches, LookUp
<1>2. ASSUME NEW p \in Procs, Crash(p) PROVE Held'
  BY <1>2, PointIndexAssumption DEF Crash, Held, Exclusive, Nesting, TypeOK, Critical, Builds
<1>3. CASE Clean \/ UNCHANGED vars
  BY <1>3 DEF Clean, vars, memory, worker, Held, Exclusive, Nesting
<1> QED
  BY <1>1, <1>2, <1>3 DEF Next, Finished

LEMMA MappedNext ==
    ASSUME TypeOK, Mapped, [Next]_vars
    PROVE  Mapped'
<1>1. CASE \E w \in Workers : CreateTmp(w)
  <2> PICK w \in Workers : CreateTmp(w)
    BY <1>1
  <2>1. tmp' # 0
    BY DEF CreateTmp, TypeOK
  <2> QED
    BY <2>1 DEF CreateTmp, Goto, Mapped, TypeOK
<1>2. CASE \E w \in Workers : \E f \in Fields : Extract(w, f)
  BY <1>2 DEF Extract, Goto, Mapped, TypeOK
<1>3. CASE \E w \in Workers : Info(w)
  BY <1>3
  DEF Info, ReadInfo, ReadShortInfo, DecodeInfo, OpenInfo, WriteInfo, Goto, Fails, Mapped, TypeOK
<1>4. CASE \E w \in Workers : Caches(w) /\ ~CreateTmp(w)
  BY <1>4
  DEF Caches, EnterCache, ProbeHit, ProbeMiss, UnlinkTmp, Build, OpenGrib, WriteGrib, Rename,
      RenameFails, ReturnFromCache, Goto, Fails, Mapped, TypeOK
<1>5. CASE \E w \in Workers : LookUp(w)
  BY <1>5
  DEF LookUp, EnterLookUp, Found, NotFound, RebuildFails, Load, LoadFails, Serve, Goto, Fails,
      Mapped, TypeOK
<1>6. CASE (\E p \in Procs : Crash(p)) \/ Clean \/ UNCHANGED vars
  BY <1>6 DEF Crash, Clean, vars, worker, Mapped
<1> QED
  BY <1>1, <1>2, <1>3, <1>4, <1>5, <1>6 DEF Next, Run, Finished

LEMMA TypeHeld == Spec => [](TypeOK /\ Held /\ Mapped)
<1>1. Init => TypeOK /\ Held /\ Mapped
  BY PointIndexAssumption
  DEF Init, TypeOK, Held, Exclusive, Nesting, Mapped, Critical, Builds, File, Points
<1>2. TypeOK /\ Held /\ Mapped /\ [Next]_vars => (TypeOK /\ Held /\ Mapped)'
  BY TypeNext, HeldNext, MappedNext
<1> QED
  BY <1>1, <1>2, PTL DEF Spec

(***************************************************************************)
(* The state of files and threads keeps its types; in particular no thread *)
(* takes the recursive mutex more than twice (info and lookUp each call    *)
(* cache once), with any number of processes, threads and crashes.         *)
(***************************************************************************)
THEOREM TypeCorrect == Spec => []TypeOK
BY TypeHeld, PTL

LEMMA SafeAlways == OneProc => (Spec => []Safe)
<1> SUFFICES ASSUME OneProc PROVE Spec => []Safe
  OBVIOUS
<1>1. TypeOK /\ Safe /\ [Next]_vars => Safe'
  BY SafeNext
<1> QED
  BY <1>1, SafeInit, TypeCorrect, PTL DEF Spec

(***************************************************************************)
(* With one process in the cache directory no thread is ever given a tree  *)
(* that is not completely built, wherever earlier processes died: cache()  *)
(* builds under a name that nobody loads.                                  *)
(***************************************************************************)
THEOREM WholeTreesServed == OneProc => (Spec => []ServedWhole)
<1>1. Safe => ServedWhole
  BY DEF Safe, Published, ServedWhole
<1> QED
  BY <1>1, SafeAlways, PTL

(***************************************************************************)
(* With one process, whenever the tree has its final name the GRIB message *)
(* it can be rebuilt from is complete on disk.                             *)
(***************************************************************************)
THEOREM GribComesFirst == OneProc => (Spec => []GribBeforeTree)
<1>1. Safe => GribBeforeTree
  BY DEF Safe, Published, GribBeforeTree
<1> QED
  BY <1>1, SafeAlways, PTL

(***************************************************************************)
(* With one process, what cache() renames is the complete tree the same    *)
(* thread has built, not one a second builder left under that name.        *)
(***************************************************************************)
THEOREM RenamedIsOwn == OneProc => (Spec => []RenamesItsOwn)
<1>1. Safe => RenamesItsOwn
  BY DEF Safe, Building, RenamesItsOwn, Builds
<1> QED
  BY <1>1, SafeAlways, PTL

LEMMA TreeStays ==
    ASSUME TypeOK, Safe, MaxCleans = 0, [Next]_vars
    PROVE  kdtree # 0 => kdtree' = kdtree
<1>1. CASE \E w \in Workers : Rename(w)
  BY <1>1 DEF Rename, Safe, Building, Builds
<1>2. CASE Clean
  BY <1>2 DEF Clean, TypeOK
<1>3. CASE UNCHANGED kdtree
  BY <1>3
<1>4. CASE \E w \in Workers : Info(w) \/ \E f \in Fields : Extract(w, f)
  BY <1>3, <1>4
  DEF Info, ReadInfo, ReadShortInfo, DecodeInfo, OpenInfo, WriteInfo, Extract, files
<1>5. CASE \E w \in Workers : (Caches(w) /\ ~Rename(w)) \/ LookUp(w)
  BY <1>3, <1>5
  DEF Caches, EnterCache, ProbeHit, ProbeMiss, UnlinkTmp, CreateTmp, Build, OpenGrib, WriteGrib,
      RenameFails, LookUp, EnterLookUp, Found, NotFound, RebuildFails, Load, LoadFails, files
<1> QED
  BY <1>1, <1>2, <1>3, <1>4, <1>5 DEF Next, Run, Finished, Crash, vars, files

(* A process that has an index in memory has the published one. *)
Current == \A p \in Procs : cache[p] # 0 => cache[p] = kdtree

LEMMA CurrentNext ==
    ASSUME TypeOK, Safe, Current, OneProc, MaxCleans = 0, [Next]_vars
    PROVE  Current'
<1>1. ASSUME NEW w \in Workers, Rename(w) PROVE Current'
  <2>1. mine[w] = tmp
    BY <1>1 DEF Rename, Safe, Building
  <2>2. \A p \in Procs : p = home[w]
    BY PointIndexAssumption DEF OneProc
  <2> QED
    BY <1>1, <2>1, <2>2 DEF Rename, Current, TypeOK
<1>2. ASSUME NEW w \in Workers, Load(w) PROVE Current'
  BY <1>2 DEF Load, files, Current, TypeOK
<1>3. ASSUME NEW p \in Procs, Crash(p) PROVE Current'
  BY <1>3 DEF Crash, files, Current, TypeOK
<1>4. CASE UNCHANGED cache
  <2>1. kdtree # 0 => kdtree' = kdtree
    BY TreeStays
  <2> QED
    BY <1>4, <2>1 DEF Current
<1>5. CASE \E w \in Workers : Info(w) \/ \E f \in Fields : Extract(w, f)
  BY <1>4, <1>5
  DEF Info, ReadInfo, ReadShortInfo, DecodeInfo, OpenInfo, WriteInfo, Fails, Extract, memory
<1>6. CASE \E w \in Workers : (Caches(w) /\ ~Rename(w)) \/ (LookUp(w) /\ ~Load(w))
  BY <1>4, <1>6
  DEF Caches, EnterCache, ProbeHit, ProbeMiss, UnlinkTmp, CreateTmp, Build, OpenGrib, WriteGrib,
      RenameFails, LookUp, EnterLookUp, Found, NotFound, RebuildFails, LoadFails, Fails, memory
<1>7. CASE Clean \/ UNCHANGED vars
  BY <1>4, <1>7 DEF Clean, vars, memory
<1> QED
  BY <1>1, <1>2, <1>3, <1>5, <1>6, <1>7 DEF Next, Run, Finished

(* What the promise calls the index is the published tree. *)
LEMMA IndexIsTree ==
    ASSUME Safe PROVE (IF kdtree \in whole THEN kdtree ELSE 0) = kdtree
BY DEF Safe, Published

LEMMA PromiseInit == Init => Promise!Init
BY DEF Init, Promise!Init

(* Every step is one of the promise's, or none of its business. *)
LEMMA PromiseStep ==
    ASSUME TypeOK, Safe, Safe', Current, MaxCleans = 0, TypeOK', [Next]_vars
    PROVE  [Promise!Next]_<<IF kdtree \in whole THEN kdtree ELSE 0, served>>
<1> DEFINE index == IF kdtree \in whole THEN kdtree ELSE 0
<1>a. index = kdtree /\ index' = kdtree'
  BY IndexIsTree DEF Safe, Published
<1>1. ASSUME NEW w \in Workers, Rename(w) PROVE Promise!Publish
  <2>1. kdtree = 0 /\ kdtree' \in Inodes
    BY <1>1 DEF Rename, Safe, Building, Builds, TypeOK, Inodes
  <2> QED
    BY <1>1, <1>a, <2>1 DEF Rename, Promise!Publish
<1>2. ASSUME NEW w \in Workers, Found(w) \/ Load(w) PROVE Promise!Answer(w)
  <2>1. kdtree # 0 /\ served' = [served EXCEPT ![w] = kdtree] /\ kdtree' = kdtree
    BY <1>2, PointIndexAssumption DEF Found, Load, Serve, Current, files
  <2> QED
    BY <1>a, <2>1 DEF Promise!Answer
<1>3. ASSUME NEW w \in Workers, NEW f \in Fields, Extract(w, f) PROVE Promise!Forget({w})
  <2>1. served' = [v \in Workers |-> IF v \in {w} THEN 0 ELSE served[v]]
    BY <1>3 DEF Extract, TypeOK
  <2> QED
    BY <1>3, <1>a, <2>1 DEF Extract, files, Promise!Forget
<1>4. ASSUME NEW p \in Procs, Crash(p)
      PROVE  Promise!Forget({w \in Workers : home[w] = p})
  <2>1. served' = [v \in Workers |-> IF v \in {w \in Workers : home[w] = p} THEN 0 ELSE served[v]]
    BY <1>4 DEF Crash
  <2> QED
    BY <1>4, <1>a, <2>1 DEF Crash, files, Promise!Forget
<1>5. CASE UNCHANGED <<kdtree, served>>
  BY <1>5, <1>a
<1>6. CASE \E w \in Workers : Info(w)
  BY <1>5, <1>6
  DEF Info, ReadInfo, ReadShortInfo, DecodeInfo, OpenInfo, WriteInfo, Fails, files
<1>7. CASE \E w \in Workers : (Caches(w) /\ ~Rename(w))
                              \/ (LookUp(w) /\ ~Found(w) /\ ~Load(w))
  BY <1>5, <1>7
  DEF Caches, EnterCache, ProbeHit, ProbeMiss, UnlinkTmp, CreateTmp, Build, OpenGrib, WriteGrib,
      RenameFails, LookUp, EnterLookUp, NotFound, RebuildFails, LoadFails, Fails, files
<1>8. CASE Clean \/ UNCHANGED vars
  BY <1>5, <1>8 DEF Clean, TypeOK, vars, files, worker
<1> QED
  BY <1>1, <1>2, <1>3, <1>4, <1>6, <1>7, <1>8
  DEF Next, Run, Finished, Promise!Next

(***************************************************************************)
(* With one process and nobody deleting files, the cache of a grid behaves *)
(* as one index, made once and complete, that every thread is given, with  *)
(* any number of threads, fields, crashes and extractions: what OneIndex   *)
(* promises, cache() and lookUp() keep.                                    *)
(***************************************************************************)
THEOREM IndexIsShared == OneProc /\ MaxCleans = 0 => (Spec => SharesOneIndex)
<1> SUFFICES ASSUME OneProc, MaxCleans = 0 PROVE Spec => SharesOneIndex
  OBVIOUS
<1>1. Init => Current
  BY DEF Init, Current
<1>2. TypeOK /\ Safe /\ Current /\ [Next]_vars => Current'
  BY CurrentNext
<1>3. TypeOK /\ TypeOK' /\ Safe /\ Safe' /\ Current /\ [Next]_vars
          => [Promise!Next]_<<IF kdtree \in whole THEN kdtree ELSE 0, served>>
  BY PromiseStep
<1> QED
  BY <1>1, <1>2, <1>3, PromiseInit, SafeAlways, TypeCorrect, PTL
  DEF Spec, SharesOneIndex, Promise!Spec
=============================================================================
