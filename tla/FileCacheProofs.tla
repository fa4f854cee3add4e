--------------------------- MODULE FileCacheProofs ---------------------------
(***************************************************************************)
(* Proofs about FileCache, for any files, workers and number of changes:   *)
(* what the refresh thread takes for unchanged is unchanged; for every     *)
(* worker that was not itself registered or unregistered during an update  *)
(* (the history variable overlapped), a posted update finds the map it     *)
(* changes, the worker's map is on its way to the main map's content while *)
(* the server serves, and a worker that keeps up serves no older version   *)
(* after a newer one.                                                      *)
(***************************************************************************)
EXTENDS FileCache, TLAPS

ThreadFields ==
  {"at", "step", "i", "size", "todo", "to_add", "to_remove", "name", "to", "stamp", "file", "stale"}

\* Every file has a version, though it may not exist.
HasVersions ==
  /\ DOMAIN disk = Files
  /\ \A f \in Files : DOMAIN disk[f] = {"exists", "version"} /\ disk[f].version \in Nat

\* A version that was read of f, or of a state of f in the past.
Past(f, v) == v \in Nat /\ v <= disk[f].version

\* A file that was loaded in the order of the constructor: its data is not older
\* than its size and time, and neither is newer than the file.
Honest(f, file) ==
  /\ file.stamp \in Nat /\ Past(f, file.data)
  /\ file.stamp <= file.data

\* All that is loaded is honest, in the main map and in the refresh thread's hands,
\* also half loaded.
LoadInv ==
  /\ HasVersions
  /\ DOMAIN m_file_map = Files
  /\ DOMAIN refresh = ThreadFields
  /\ refresh.step \in {"next", "read", "each", "post"}
  /\ refresh.step # "next" => refresh.name \in Files
  /\ refresh.step = "read" => Past(refresh.name, refresh.stamp)
  /\ refresh.step \in {"each", "post"} /\ refresh.file # NoFile
       => Honest(refresh.name, refresh.file)
  /\ \A f \in Files : m_file_map[f] # NoFile => Honest(f, m_file_map[f])

-----------------------------------------------------------------------------
\* Files only get newer: what was read of them stays in their past.
LEMMA NewerDisk ==
  ASSUME LoadInv, UNCHANGED <<m_file_map, refresh>>,
         HasVersions',
         \A f \in Files : disk'[f].version >= disk[f].version
  PROVE  LoadInv'
<1>1. ASSUME NEW f \in Files, NEW v, Past(f, v) PROVE Past(f, v)'
  BY <1>1 DEF LoadInv, HasVersions, Past
<1>2. ASSUME NEW f \in Files, NEW file, Honest(f, file)
      PROVE  file.stamp \in Nat /\ file.stamp <= file.data /\ Past(f, file.data)'
  BY <1>1, <1>2 DEF Honest
<1>3. \A f \in Files : m_file_map'[f] # NoFile => Honest(f, m_file_map[f])'
  BY <1>2 DEF LoadInv, HasVersions, Honest, Past
<1>4. refresh.step = "read" => Past(refresh.name, refresh.stamp)'
  BY <1>1 DEF LoadInv
<1>5. refresh.step \in {"each", "post"} /\ refresh.file # NoFile => Honest(refresh.name, refresh.file)'
  BY <1>2 DEF LoadInv, HasVersions, Honest, Past
<1> QED BY <1>3, <1>4, <1>5 DEF LoadInv, HasVersions, Honest, Past

\* The steps of the refresh thread, which reads stamp and data, and stores them.
LEMMA RefreshLoads ==
  ASSUME LoadInv, Refresh
  PROVE  LoadInv'
<1>0. ASSUME UNCHANGED <<disk, m_file_map>>, DOMAIN refresh' = ThreadFields,
             refresh'.step \in {"next", "read", "each", "post"},
             refresh'.step # "next" => refresh'.name \in Files,
             refresh'.step = "read" => Past(refresh'.name, refresh'.stamp),
             refresh'.step \in {"each", "post"} /\ refresh'.file # NoFile
               => Honest(refresh'.name, refresh'.file)
      PROVE  LoadInv'
  BY <1>0 DEF LoadInv, HasVersions, Past, Honest
<1>fields. DOMAIN refresh = ThreadFields /\ refresh.step \in {"next", "read", "each", "post"}
  BY DEF LoadInv
<1>idle. ASSUME UNCHANGED <<disk, m_file_map>>, DOMAIN refresh' = ThreadFields, refresh'.step = "next"
      PROVE  LoadInv'
  BY <1>0, <1>idle
<1>same. ASSUME UNCHANGED <<disk, m_file_map>>, DOMAIN refresh' = ThreadFields,
             refresh'.step = refresh.step \/ {refresh.step, refresh'.step} = {"each", "post"},
             refresh'.name = refresh.name, refresh'.stamp = refresh.stamp,
             refresh'.file = refresh.file
      PROVE  LoadInv'
  BY <1>0, <1>same DEF LoadInv
<1>1. CASE WakeUp
  BY <1>fields, <1>same, <1>1 DEF WakeUp, ThreadFields
<1>2. CASE CompareFiles
  <2>1. refresh'.step = "next" /\ DOMAIN refresh' = ThreadFields
    BY <1>fields, <1>2 DEF CompareFiles, Compares, ThreadFields
  <2> QED BY <1>idle, <1>2, <2>1 DEF CompareFiles
<1>3. CASE ReadFile
  <2>1. refresh.step = "read" /\ refresh.name \in Files /\ Past(refresh.name, refresh.stamp)
    BY <1>3 DEF ReadFile, LoadInv
  <2>2. CASE Exists(refresh.name)
    <3> DEFINE file == [stamp |-> refresh.stamp, data |-> disk[refresh.name].version]
    <3>1. Honest(refresh.name, file)
      BY <2>1 DEF LoadInv, HasVersions, Past, Honest
    <3>2. refresh' = StartPosts(refresh, file) /\ UNCHANGED <<disk, m_file_map>>
      BY <1>3, <2>2 DEF ReadFile
    <3> HIDE DEF file
    <3>3. /\ DOMAIN refresh' = ThreadFields /\ refresh'.step = "each"
          /\ refresh'.name = refresh.name /\ refresh'.file = file
      BY <1>fields, <3>2 DEF StartPosts, ThreadFields
    <3> QED BY <1>0, <2>1, <3>1, <3>2, <3>3
  <2>3. CASE ~Exists(refresh.name)
    <3>1. refresh'.step = "next" /\ DOMAIN refresh' = ThreadFields
      BY <1>fields, <1>3, <2>3 DEF ReadFile, ThreadFields
    <3> QED BY <1>idle, <1>3, <3>1 DEF ReadFile
  <2> QED BY <2>2, <2>3
<1>4. CASE TakeIoService
  <2>1. /\ DOMAIN refresh' = ThreadFields /\ refresh.step = "each" /\ refresh'.step = "post"
        /\ refresh'.name = refresh.name /\ refresh'.stamp = refresh.stamp
        /\ refresh'.file = refresh.file
    BY <1>fields, <1>4 DEF TakeIoService, ThreadFields
  <2> QED BY <1>same, <1>4, <2>1 DEF TakeIoService
<1>5. CASE PostUpdate
  <2>1. /\ DOMAIN refresh' = ThreadFields /\ refresh.step = "post" /\ refresh'.step = "each"
        /\ refresh'.name = refresh.name /\ refresh'.stamp = refresh.stamp
        /\ refresh'.file = refresh.file
    BY <1>fields, <1>5 DEF PostUpdate, ThreadFields
  <2> QED BY <1>same, <1>5, <2>1 DEF PostUpdate
<1>6. CASE StoreInMain
  <2>1. /\ refresh.step = "each" /\ refresh.name \in Files /\ UNCHANGED disk
        /\ refresh.file # NoFile => Honest(refresh.name, refresh.file)
        /\ refresh'.step = "next" /\ DOMAIN refresh' = ThreadFields
        /\ DOMAIN m_file_map' = Files
        /\ \A f \in Files : m_file_map'[f] = IF f = refresh.name THEN refresh.file ELSE m_file_map[f]
    BY <1>6 DEF StoreInMain, LoadInv, ThreadFields
  <2> QED BY <2>1 DEF LoadInv, HasVersions, Past, Honest
<1>7. CASE RoundEnds
  <2>1. refresh'.step = "next" /\ DOMAIN refresh' = ThreadFields
    BY <1>7 DEF RoundEnds, Idle, ThreadFields
  <2> QED BY <1>idle, <1>7, <2>1 DEF RoundEnds
<1>8. ASSUME NEW f \in Files, refresh.step = "next"
      PROVE  /\ DOMAIN StatFile(f) = ThreadFields
             /\ StatFile(f).step \in {"next", "read"}
             /\ StatFile(f).step = "read" => /\ StatFile(f).name = f
                                             /\ Past(f, StatFile(f).stamp)
  BY <1>8 DEF StatFile, LoadInv, HasVersions, ThreadFields, Past
<1>9. ASSUME NEW f \in Files, refresh.step = "next", UNCHANGED <<disk, m_file_map>>,
             DOMAIN refresh' = ThreadFields,
             \E r \in {refresh, StatFile(f)} :
               refresh'.step = r.step /\ refresh'.name = r.name /\ refresh'.stamp = r.stamp
      PROVE  LoadInv'
  BY <1>0, <1>8, <1>9
<1>10. ASSUME NEW f \in Files, ScanEntry(f) PROVE LoadInv'
  <2> DEFINE r == IF m_file_map[f] = NoFile THEN StatFile(f) ELSE refresh
  <2>1. refresh.step = "next" /\ refresh' = [r EXCEPT !.todo = @ \ {f}]
    BY <1>10 DEF ScanEntry, Scans
  <2>2. r \in {refresh, StatFile(f)} /\ DOMAIN r = ThreadFields
    BY <1>fields, <1>8, <2>1
  <2> HIDE DEF r
  <2>3. /\ DOMAIN refresh' = ThreadFields
        /\ refresh'.step = r.step /\ refresh'.name = r.name /\ refresh'.stamp = r.stamp
    BY <2>1, <2>2 DEF ThreadFields
  <2> QED BY <1>9, <1>10, <2>1, <2>2, <2>3 DEF ScanEntry
<1>11. ASSUME NEW f \in Files, UpdateFile(f) PROVE LoadInv'
  <2> DEFINE r == StatFile(f)
  <2>1. refresh.step = "next" /\ refresh' = [r EXCEPT !.to_add = @ \ {f}]
    BY <1>11 DEF UpdateFile, Updates
  <2>2. r \in {refresh, StatFile(f)} /\ DOMAIN r = ThreadFields
    BY <1>8, <2>1
  <2> HIDE DEF r
  <2>3. /\ DOMAIN refresh' = ThreadFields
        /\ refresh'.step = r.step /\ refresh'.name = r.name /\ refresh'.stamp = r.stamp
    BY <2>1, <2>2 DEF ThreadFields
  <2> QED BY <1>9, <1>11, <2>1, <2>2, <2>3 DEF UpdateFile
<1>12. ASSUME NEW f \in Files, RemoveFile(f) PROVE LoadInv'
  <2>1. /\ DOMAIN refresh' = ThreadFields /\ refresh'.step = "each"
        /\ refresh'.name = f /\ refresh'.file = NoFile
    BY <1>fields, <1>12 DEF RemoveFile, StartPosts, ThreadFields
  <2> QED BY <1>0, <1>12, <2>1 DEF RemoveFile
<1> QED BY <1>1, <1>2, <1>3, <1>4, <1>5, <1>6, <1>7, <1>10, <1>11, <1>12 DEF Refresh

LEMMA LoadInit == Init => LoadInv
BY DEF Init, LoadInv, HasVersions, Idle, ThreadFields, Past, Honest, Exists

LEMMA LoadStep == LoadInv /\ [Next]_vars => LoadInv'
<1> SUFFICES ASSUME LoadInv, [Next]_vars PROVE LoadInv'
  OBVIOUS
<1>1. ASSUME UNCHANGED <<disk, m_file_map, refresh>> PROVE LoadInv'
  BY <1>1 DEF LoadInv, HasVersions, Past, Honest
<1>2. ASSUME NEW f \in Files, WriteFile(f) PROVE LoadInv'
  <2>1. /\ UNCHANGED <<m_file_map, refresh>>
        /\ disk' = [disk EXCEPT ![f] = [exists |-> TRUE, version |-> @.version + 1]]
    BY <1>2 DEF WriteFile
  <2>2. \A g \in Files : /\ DOMAIN disk'[g] = {"exists", "version"}
                         /\ disk'[g].version \in {disk[g].version, disk[g].version + 1}
    BY <2>1 DEF LoadInv, HasVersions
  <2>3. HasVersions' /\ \A g \in Files : disk'[g].version >= disk[g].version
    BY <2>1, <2>2 DEF LoadInv, HasVersions
  <2> QED BY <2>1, <2>3, NewerDisk
<1>3. ASSUME NEW f \in Files, DeleteFile(f) \/ StatThrows(f) PROVE LoadInv'
  <2>1. /\ UNCHANGED <<m_file_map, refresh>>
        /\ disk' = [disk EXCEPT ![f] = [exists |-> FALSE, version |-> @.version + 1]]
    BY <1>3 DEF DeleteFile, StatThrows, Deleted
  <2>2. \A g \in Files : /\ DOMAIN disk'[g] = {"exists", "version"}
                         /\ disk'[g].version \in {disk[g].version, disk[g].version + 1}
    BY <2>1 DEF LoadInv, HasVersions
  <2>3. HasVersions' /\ \A g \in Files : disk'[g].version >= disk[g].version
    BY <2>1, <2>2 DEF LoadInv, HasVersions
  <2> QED BY <2>1, <2>3, NewerDisk
<1>4. CASE Refresh
  BY <1>4, RefreshLoads
<1>5. CASE Main
  <2>1. CASE RegisterIoService
    <3>1. /\ UNCHANGED <<disk, m_file_map>>
          /\ \E moved \in BOOLEAN : refresh' = [refresh EXCEPT !.stale = @ \/ (moved /\ Updating)]
      BY <2>1 DEF RegisterIoService
    <3>2. /\ DOMAIN refresh' = DOMAIN refresh /\ refresh'.step = refresh.step
          /\ refresh'.name = refresh.name /\ refresh'.stamp = refresh.stamp
          /\ refresh'.file = refresh.file
      BY <3>1 DEF LoadInv, ThreadFields
    <3> QED BY <3>1, <3>2 DEF LoadInv, HasVersions, Past, Honest
  <2>2. CASE PostMake \/ UnregisterIoService \/ PostReset \/ Unregistered
    BY <1>1, <2>2 DEF PostMake, UnregisterIoService, PostReset, Unregistered
  <2> QED BY <1>5, <2>1, <2>2 DEF Main
<1>6. CASE \E w \in Workers : RunPosted(w) \/ \E f \in Files : CopyFromMain(w, f)
  BY <1>1, <1>6 DEF RunPosted, CopyFromMain
<1>7. CASE StopServer \/ Destroy \/ FollowsFreedPointer
  BY <1>1, <1>7 DEF StopServer, Destroy, FollowsFreedPointer
<1>8. CASE UNCHANGED vars
  BY <1>1, <1>8 DEF vars
<1> QED BY <1>2, <1>3, <1>4, <1>5, <1>6, <1>7, <1>8 DEF Next

\* A file in the main map that looks unchanged to the refresh thread (same size and
\* time) has the data that is on the disk, however often it was written while it
\* was loaded: file's constructor reads size and time before the data.
THEOREM ReloadsChanges == Spec => []ChangesAreDetected
<1>1. LoadInv => ChangesAreDetected
  <2>1. ASSUME LoadInv, NEW f \in Files, m_file_map[f] # NoFile,
               m_file_map[f].stamp = disk[f].version
        PROVE  m_file_map[f].data = disk[f].version
    BY <2>1 DEF LoadInv, HasVersions, Honest, Past
  <2> QED BY <2>1 DEF ChangesAreDetected
<1> QED BY <1>1, LoadInit, LoadStep, PTL DEF Spec

-----------------------------------------------------------------------------
(* Types.                                                                  *)

\* The loops of the refresh thread stay in their bounds.
LoopInv ==
  /\ refresh.step = "read" => refresh.name \in Files /\ refresh.stamp \in Versions
  /\ Updating => refresh.name \in Files
  /\ ~Updating => refresh.file = NoFile
  /\ refresh.step = "post" => refresh.i <= refresh.size /\ refresh.to \in Workers
  /\ refresh.size <= Len(m_iosvcs.memory)

\* How many workers were registered, and how many of them were erased, in the order
\* of their numbers.
Pushed == CASE main.phase = "starting" -> main.worker - (IF main.step = "next" THEN 1 ELSE 0)
            [] OTHER -> NumWorkers

Erasures == CASE main.phase = "stopping" -> main.worker - (IF main.step = "next" THEN 1 ELSE 0)
              [] main.phase = "stopped"  -> NumWorkers
              [] OTHER -> 0

\* What the vector's memory holds: erase leaves the last worker in the places it
\* frees.
VectorInv ==
  /\ Len(m_iosvcs.memory) = Pushed /\ m_iosvcs.size = Pushed - Erasures
  /\ \A j \in 1 .. Pushed :
       m_iosvcs.memory[j] = IF Erasures + j <= NumWorkers THEN Erasures + j ELSE NumWorkers
  /\ main.phase \in {"serving", "stopped"} => main.worker = 1 /\ main.step = "next"
  /\ main.step = "wait" => main.phase = "stopping"

TypeInv == TypeOK /\ DOMAIN m_iosvcs = {"memory", "size"} /\ LoopInv /\ VectorInv

\* A step that leaves the vector and the main thread alone.
LEMMA SameServer ==
  ASSUME TypeInv, UNCHANGED <<m_iosvcs, main>>
  PROVE  /\ VectorInv' /\ DOMAIN m_iosvcs' = {"memory", "size"}
         /\ m_iosvcs'.memory \in Seq(Workers) /\ m_iosvcs'.size \in 0 .. Len(m_iosvcs'.memory)
         /\ main' \in MainThread
BY DEF TypeInv, TypeOK, VectorInv, Pushed, Erasures

LEMMA Counts ==
  ASSUME TypeInv
  PROVE  /\ NumWorkers \in Nat \ {0} /\ main \in MainThread /\ main.worker \in 1 .. NumWorkers
         /\ Pushed \in 0 .. NumWorkers /\ Erasures \in 0 .. NumWorkers
         /\ Len(m_iosvcs.memory) = Pushed /\ m_iosvcs.size = Pushed - Erasures
         /\ m_iosvcs.memory \in Seq(Workers) /\ m_iosvcs.size \in 0 .. NumWorkers
<1>1. main \in MainThread /\ main.worker \in 1 .. NumWorkers /\ NumWorkers \in Nat \ {0}
  BY FileAssumption DEF TypeInv, TypeOK, MainThread, Workers
<1>2. Pushed \in 0 .. NumWorkers /\ Erasures \in 0 .. NumWorkers
  BY <1>1 DEF Pushed, Erasures
<1> QED
  BY <1>1, <1>2 DEF TypeInv, TypeOK, VectorInv

LEMMA PostsStart ==
  ASSUME refresh \in RefreshThread, m_iosvcs.size \in 0 .. NumWorkers,
         NEW file \in LoadedFile \cup {NoFile}
  PROVE  /\ StartPosts(refresh, file) \in RefreshThread
         /\ StartPosts(refresh, file).step = "each" /\ StartPosts(refresh, file).name = refresh.name
         /\ StartPosts(refresh, file).size = m_iosvcs.size /\ StartPosts(refresh, file).file = file
         /\ StartPosts(refresh, file).to_remove = refresh.to_remove
         /\ StartPosts(refresh, file).i = 1 /\ ~StartPosts(refresh, file).stale
<1>1. 1 \in 1 .. NumWorkers + 1
  BY FileAssumption
<1>2. DOMAIN refresh = ThreadFields
  BY DEF RefreshThread, ThreadFields
<1> QED
  BY <1>1, <1>2 DEF StartPosts, RefreshThread, ThreadFields

\* The refresh thread only changes itself, the main map and the queues.
LEMMA RefreshTypes == ASSUME TypeInv, Refresh PROVE TypeInv'
<1>1. /\ UNCHANGED <<disk, m_file_map_local, m_iosvcs, main, m_stop, crashed>>
      /\ m_file_map \in [Files -> LoadedFile \cup {NoFile}] /\ posted \in [Workers -> Seq(Lambdas)]
      /\ disk \in [Files -> [exists : BOOLEAN, version : Versions]]
      /\ refresh \in RefreshThread
      /\ m_iosvcs.memory \in Seq(Workers) /\ m_iosvcs.size \in 0 .. Len(m_iosvcs.memory)
      /\ Len(m_iosvcs.memory) \in 0 .. NumWorkers /\ overlapped' \in SUBSET Workers
  <2>1. Len(m_iosvcs.memory) \in 0 .. NumWorkers /\ main.worker \in Workers
    BY Counts DEF Workers
  <2>2. overlapped' \in SUBSET Workers
    BY <2>1 DEF TypeInv, TypeOK, Refresh, WakeUp, CompareFiles, ReadFile, TakeIoService, PostUpdate,
                StoreInMain, RoundEnds, ScanEntry, UpdateFile, RemoveFile, UpdateStarts
  <2> QED
    BY <2>1, <2>2 DEF TypeInv, TypeOK, Refresh, WakeUp, CompareFiles, ReadFile, TakeIoService, PostUpdate,
                StoreInMain, RoundEnds, ScanEntry, UpdateFile, RemoveFile, server
<1>size. m_iosvcs.size \in 0 .. NumWorkers
  BY <1>1, FileAssumption
<1>2. ASSUME refresh' \in RefreshThread, LoopInv', m_file_map' \in [Files -> LoadedFile \cup {NoFile}],
             posted' \in [Workers -> Seq(Lambdas)]
      PROVE  TypeInv'
  BY <1>1, <1>2, SameServer DEF TypeInv, TypeOK
<1>3. ASSUME refresh' \in RefreshThread, UNCHANGED <<m_file_map, posted>>,
             refresh'.step = "next", refresh'.file = NoFile,
             refresh'.size = refresh.size \/ refresh'.size = 0
      PROVE  TypeInv'
  BY <1>1, <1>2, <1>3, FileAssumption DEF TypeInv, LoopInv, Updating
<1>4. CASE WakeUp
  <2>1. /\ refresh' \in RefreshThread /\ refresh'.step = refresh.step /\ refresh'.file = refresh.file
        /\ refresh'.name = refresh.name /\ refresh'.stamp = refresh.stamp
        /\ refresh'.size = refresh.size /\ refresh'.i = refresh.i /\ refresh'.to = refresh.to
    BY <1>1, <1>4 DEF WakeUp, RefreshThread
  <2>2. LoopInv'
    BY <1>1, <2>1 DEF TypeInv, LoopInv, Updating
  <2> QED
    BY <1>1, <1>2, <1>4, <2>1, <2>2 DEF WakeUp
<1>5. CASE CompareFiles
  <2>1. /\ refresh' \in RefreshThread /\ refresh'.step = refresh.step /\ refresh'.file = refresh.file
        /\ refresh'.size = refresh.size /\ refresh.step = "next"
    BY <1>1, <1>5 DEF CompareFiles, Compares, RefreshThread
  <2> QED
    BY <1>3, <1>5, <2>1 DEF CompareFiles, TypeInv, LoopInv, Updating
<1>6. CASE ReadFile
  <2>1. refresh.step = "read" /\ refresh.name \in Files /\ refresh.stamp \in Versions /\ refresh.file = NoFile
    BY <1>6 DEF ReadFile, TypeInv, LoopInv, Updating
  <2>2. CASE Exists(refresh.name)
    <3> DEFINE file == [stamp |-> refresh.stamp, data |-> disk[refresh.name].version]
    <3>1. file \in LoadedFile
      BY <1>1, <2>1 DEF LoadedFile
    <3>2. refresh' = StartPosts(refresh, file)
      BY <1>6, <2>2 DEF ReadFile
    <3> HIDE DEF file
    <3>3. /\ refresh' \in RefreshThread /\ refresh'.step = "each"
          /\ refresh'.name = refresh.name /\ refresh'.size = m_iosvcs.size
      BY <1>1, <1>size, <3>1, <3>2, PostsStart
    <3>4. LoopInv'
      BY <1>1, <2>1, <3>3 DEF TypeInv, LoopInv, Updating
    <3> QED
      BY <1>1, <1>2, <1>6, <3>3, <3>4 DEF ReadFile
  <2>3. CASE ~Exists(refresh.name)
    <3>1. refresh' = [refresh EXCEPT !.step = "next", !.name = NoFile, !.stamp = 0]
      BY <1>6, <2>3 DEF ReadFile
    <3>2. /\ refresh' \in RefreshThread /\ refresh'.step = "next" /\ refresh'.file = refresh.file
          /\ refresh'.size = refresh.size
      BY <1>1, <3>1 DEF RefreshThread
    <3> QED
      BY <1>3, <1>6, <2>1, <3>2 DEF ReadFile
  <2> QED
    BY <2>2, <2>3
<1>7. CASE TakeIoService
  <2>1. refresh.step = "each" /\ refresh.i <= refresh.size /\ refresh.size <= Len(m_iosvcs.memory)
    BY <1>7 DEF TakeIoService, TypeInv, LoopInv
  <2>2. refresh.i \in Nat \ {0} /\ refresh.size \in Nat
    BY <1>1, FileAssumption DEF RefreshThread
  <2> DEFINE to == IF refresh.stale THEN refresh.i ELSE m_iosvcs.memory[refresh.i]
  <2>3. to \in Workers
    <3>1. refresh.i \in 1 .. NumWorkers
      BY <1>1, <2>1, <2>2, FileAssumption
    <3>2. m_iosvcs.memory[refresh.i] \in Workers
      BY <1>1, <2>1, <2>2
    <3> QED
      BY <3>1, <3>2 DEF Workers
  <2>t. refresh' = [refresh EXCEPT !.step = "post", !.to = to]
    BY <1>7 DEF TakeIoService
  <2> HIDE DEF to
  <2>4. /\ refresh' \in RefreshThread /\ refresh'.step = "post" /\ refresh'.file = refresh.file
        /\ refresh'.name = refresh.name /\ refresh'.size = refresh.size /\ refresh'.i = refresh.i
        /\ refresh'.to = to
    BY <1>1, <2>3, <2>t DEF RefreshThread
  <2>5. LoopInv'
    BY <1>1, <2>1, <2>3, <2>4 DEF TypeInv, LoopInv, Updating
  <2> QED
    BY <1>1, <1>2, <1>7, <2>4, <2>5 DEF TakeIoService
<1>8. CASE PostUpdate
  <2>1. /\ refresh.step = "post" /\ refresh.i <= refresh.size /\ refresh.to \in Workers
        /\ refresh.name \in Files /\ refresh.file \in LoadedFile \cup {NoFile}
        /\ refresh.i \in Nat \ {0} /\ refresh.size \in 0 .. NumWorkers
    BY <1>1, <1>8 DEF PostUpdate, TypeInv, LoopInv, Updating, RefreshThread
  <2>2. [do |-> "update", name |-> refresh.name, file |-> refresh.file] \in Lambdas
    BY <2>1 DEF Lambdas
  <2>3. posted' \in [Workers -> Seq(Lambdas)]
    BY <1>1, <1>8, <2>1, <2>2 DEF PostUpdate, Post
  <2>4. refresh.i + 1 \in 1 .. NumWorkers + 1
    BY <2>1, FileAssumption
  <2>5. /\ refresh' \in RefreshThread /\ refresh'.step = "each" /\ refresh'.file = refresh.file
        /\ refresh'.name = refresh.name /\ refresh'.size = refresh.size
    BY <1>1, <1>8, <2>4 DEF PostUpdate, RefreshThread
  <2>6. LoopInv'
    BY <1>1, <2>1, <2>5 DEF TypeInv, LoopInv, Updating
  <2> QED
    BY <1>1, <1>2, <1>8, <2>3, <2>5, <2>6 DEF PostUpdate
<1>9. CASE StoreInMain
  <2>1. refresh.name \in Files /\ refresh.file \in LoadedFile \cup {NoFile}
    BY <1>1, <1>9 DEF StoreInMain, TypeInv, LoopInv, Updating, RefreshThread
  <2>2. m_file_map' \in [Files -> LoadedFile \cup {NoFile}]
    BY <1>1, <1>9, <2>1 DEF StoreInMain
  <2>3. /\ refresh' \in RefreshThread /\ refresh'.step = "next" /\ refresh'.file = NoFile /\ refresh'.size = 0
    <3>1. 1 \in 1 .. NumWorkers + 1 /\ 0 \in 0 .. NumWorkers
      BY FileAssumption
    <3> QED
      BY <1>1, <1>9, <3>1 DEF StoreInMain, RefreshThread
  <2>4. LoopInv'
    BY <1>1, <2>3 DEF TypeInv, LoopInv, Updating
  <2> QED
    BY <1>1, <1>2, <1>9, <2>2, <2>3, <2>4 DEF StoreInMain
<1>10. CASE RoundEnds
  <2>1. refresh' \in RefreshThread /\ refresh'.step = "next" /\ refresh'.file = NoFile /\ refresh'.size = 0
    <3>1. 1 \in 1 .. NumWorkers + 1 /\ 0 \in 0 .. NumWorkers
      BY FileAssumption
    <3>2. Idle \in RefreshThread /\ [Idle EXCEPT !.at = "ended"] \in RefreshThread
      BY <3>1 DEF Idle, RefreshThread
    <3>3. refresh' \in {Idle, [Idle EXCEPT !.at = "ended"]}
      BY <1>10 DEF RoundEnds
    <3>4. CASE refresh' = Idle
      BY <3>2, <3>4 DEF Idle
    <3>5. CASE refresh' = [Idle EXCEPT !.at = "ended"]
      BY <3>2, <3>5 DEF Idle
    <3> QED
      BY <3>3, <3>4, <3>5
  <2> QED
    BY <1>3, <1>10, <2>1 DEF RoundEnds
<1>11. ASSUME NEW f \in Files, refresh.step = "next", UNCHANGED <<m_file_map, posted>>,
              NEW r \in {refresh, StatFile(f)}, refresh' \in RefreshThread,
              refresh'.step = r.step, refresh'.name = r.name, refresh'.stamp = r.stamp,
              refresh'.file = r.file, refresh'.size = r.size
       PROVE  TypeInv'
  <2>1. refresh.file = NoFile
    BY <1>11 DEF TypeInv, LoopInv, Updating
  <2>2. CASE r = refresh
    BY <1>3, <1>11, <2>1, <2>2
  <2>3. CASE r # refresh
    <3>1. r = [refresh EXCEPT !.name = f, !.step = "read", !.stamp = disk[f].version]
      BY <1>11, <2>3 DEF StatFile
    <3>2. /\ refresh'.step = "read" /\ refresh'.name = f /\ refresh'.stamp = disk[f].version
          /\ refresh'.file = NoFile /\ refresh'.size = refresh.size
      BY <1>1, <1>11, <2>1, <3>1 DEF RefreshThread
    <3>3. LoopInv'
      BY <1>1, <3>2 DEF TypeInv, LoopInv, Updating
    <3> QED
      BY <1>1, <1>2, <1>11, <3>3
  <2> QED
    BY <2>2, <2>3
<1>12. ASSUME NEW f \in Files PROVE StatFile(f) \in RefreshThread
  BY <1>1 DEF StatFile, RefreshThread
<1>13. ASSUME NEW f \in Files, ScanEntry(f) PROVE TypeInv'
  <2>1. PICK r \in {refresh, StatFile(f)} : refresh' = [r EXCEPT !.todo = @ \ {f}]
    BY <1>13 DEF ScanEntry
  <2>2. /\ refresh' \in RefreshThread /\ refresh'.step = r.step /\ refresh'.name = r.name
        /\ refresh'.stamp = r.stamp /\ refresh'.file = r.file /\ refresh'.size = r.size
    BY <1>1, <1>12, <2>1 DEF RefreshThread
  <2> QED
    BY <1>11, <1>13, <2>2 DEF ScanEntry, Scans
<1>14. ASSUME NEW f \in Files, UpdateFile(f) PROVE TypeInv'
  <2>1. PICK r \in {refresh, StatFile(f)} : refresh' = [r EXCEPT !.to_add = @ \ {f}]
    BY <1>14 DEF UpdateFile
  <2>2. /\ refresh' \in RefreshThread /\ refresh'.step = r.step /\ refresh'.name = r.name
        /\ refresh'.stamp = r.stamp /\ refresh'.file = r.file /\ refresh'.size = r.size
    BY <1>1, <1>12, <2>1 DEF RefreshThread
  <2> QED
    BY <1>11, <1>14, <2>2 DEF UpdateFile, Updates
<1>15. ASSUME NEW f \in Files, RemoveFile(f) PROVE TypeInv'
  <2>1. /\ refresh' \in RefreshThread /\ refresh'.step = "each" /\ refresh'.name = f
        /\ refresh'.size = m_iosvcs.size
    <3>1. refresh' = [StartPosts(refresh, NoFile) EXCEPT !.to_remove = @ \ {f}, !.name = f]
      BY <1>15 DEF RemoveFile
    <3> DEFINE r == StartPosts(refresh, NoFile)
    <3>2. r \in RefreshThread /\ r.step = "each" /\ r.size = m_iosvcs.size
      BY <1>1, <1>size, PostsStart
    <3> HIDE DEF r
    <3> QED
      BY <3>1, <3>2 DEF RefreshThread, r
  <2>2. LoopInv'
    BY <1>1, <2>1 DEF TypeInv, LoopInv, Updating
  <2> QED
    BY <1>1, <1>2, <1>15, <2>1, <2>2 DEF RemoveFile
<1> QED
  BY <1>4, <1>5, <1>6, <1>7, <1>8, <1>9, <1>10, <1>13, <1>14, <1>15 DEF Refresh

LEMMA InitTypes == Init => TypeInv
<1> SUFFICES ASSUME Init PROVE TypeInv
  OBVIOUS
<1>1. /\ 1 \in Versions /\ 1 \in 1 .. NumWorkers + 1 /\ 0 \in 0 .. NumWorkers /\ 1 \in Workers
      /\ NumWorkers \in Nat
  BY FileAssumption DEF Versions, Workers
<1>2. disk \in [Files -> [exists : BOOLEAN, version : Versions]]
  BY <1>1 DEF Init
<1>3. m_file_map \in [Files -> LoadedFile \cup {NoFile}]
  BY <1>1 DEF Init, LoadedFile
<1>4. refresh \in RefreshThread
  BY <1>1 DEF Init, Idle, RefreshThread
<1>5. m_iosvcs.memory = <<>> /\ m_iosvcs.size = 0
  BY DEF Init
<1>6. TypeOK
  <2>1. m_file_map_local \in [Workers -> [Files -> LoadedFile \cup {NoFile}] \cup {NoMap}]
    BY DEF Init
  <2>2. posted \in [Workers -> Seq(Lambdas)]
    BY DEF Init
  <2>3. m_iosvcs.memory \in Seq(Workers) /\ m_iosvcs.size \in 0 .. Len(m_iosvcs.memory)
    BY <1>5
  <2>4. main \in MainThread
    BY <1>1 DEF Init, MainThread
  <2> QED
    BY <1>2, <1>3, <1>4, <2>1, <2>2, <2>3, <2>4 DEF Init, TypeOK
<1>7. LoopInv
  BY <1>1, <1>5 DEF Init, LoopInv, Idle, Updating
<1> QED
  BY <1>1, <1>5, <1>6, <1>7 DEF Init, TypeInv, VectorInv, Pushed, Erasures

\* The vector when the first of its workers is erased.
HasFrom(v, n) ==
  /\ DOMAIN v.memory = 1 .. NumWorkers /\ v.size = NumWorkers - n + 1
  /\ \A j \in 1 .. NumWorkers :
       v.memory[j] = IF n - 1 + j <= NumWorkers THEN n - 1 + j ELSE NumWorkers

HasBehind(v, n) ==
  /\ DOMAIN v = {"memory", "size"} /\ v.size = NumWorkers - n
  /\ v.memory \in Seq(Workers) /\ Len(v.memory) = NumWorkers
  /\ \A j \in 1 .. NumWorkers :
       v.memory[j] = IF n + j <= NumWorkers THEN n + j ELSE NumWorkers

LEMMA ErasedFirst ==
  ASSUME NEW n \in Workers, NEW v, HasFrom(v, n)
  PROVE  HasBehind(Erased(v, n), n)
<1>1. NumWorkers \in Nat \ {0} /\ n \in 1 .. NumWorkers /\ Workers = 1 .. NumWorkers
  BY FileAssumption DEF Workers
<1>2. PICK size \in Nat : size = v.size /\ size = NumWorkers - n + 1
  BY <1>1 DEF HasFrom
<1>3. PICK memory : memory = v.memory
  OBVIOUS
<1>4. \A j \in 1 .. NumWorkers : memory[j] = IF n - 1 + j <= NumWorkers THEN n - 1 + j ELSE NumWorkers
  BY <1>3 DEF HasFrom
<1>5. \A k \in 1 .. size : memory[k] = n <=> k = 1
  BY <1>1, <1>2, <1>4
<1>6. (CHOOSE k \in 1 .. v.size : v.memory[k] = n) = 1
  <2>1. 1 \in 1 .. size
    BY <1>1, <1>2
  <2>2. \E j \in 1 .. size : memory[j] = n
    BY <1>5, <2>1
  <2>3. PICK k : k = CHOOSE j \in 1 .. size : memory[j] = n
    OBVIOUS
  <2>4. k \in 1 .. size /\ memory[k] = n
    BY <2>2, <2>3
  <2> QED
    BY <1>2, <1>3, <1>5, <2>3, <2>4
<1>7. PICK erased : erased = [j \in 1 .. NumWorkers |->
                       IF 1 <= j /\ j < size THEN memory[j + 1] ELSE memory[j]]
  OBVIOUS
<1>8. Erased(v, n) = [memory |-> erased, size |-> size - 1]
  <2>1. DOMAIN memory = 1 .. NumWorkers
    BY <1>3 DEF HasFrom
  <2>2. Erased(v, n) = [memory |-> [j \in DOMAIN v.memory |->
                          IF 1 <= j /\ j < v.size THEN v.memory[j + 1] ELSE v.memory[j]],
                        size |-> v.size - 1]
    BY <1>6, Zenon DEF Erased
  <2>3. Erased(v, n) = [memory |-> [j \in DOMAIN memory |->
                          IF 1 <= j /\ j < size THEN memory[j + 1] ELSE memory[j]],
                        size |-> size - 1]
    BY <1>2, <1>3, <2>2, Zenon
  <2> QED
    BY <1>7, <2>1, <2>3, Zenon
<1>9. ASSUME NEW j \in 1 .. NumWorkers
      PROVE  erased[j] = IF n + j <= NumWorkers THEN n + j ELSE NumWorkers
  <2>1. erased[j] = IF 1 <= j /\ j < size THEN memory[j + 1] ELSE memory[j]
    BY <1>7
  <2>2. j < size <=> n + j <= NumWorkers
    BY <1>1, <1>2
  <2>3. CASE j < size
    <3>1. j + 1 \in 1 .. NumWorkers /\ 1 <= j
      BY <1>1, <2>2, <2>3
    <3>2. memory[j + 1] = n + j
      BY <1>1, <1>4, <2>2, <2>3, <3>1
    <3> QED
      BY <2>1, <2>2, <2>3, <3>1, <3>2
  <2>4. CASE ~(j < size)
    BY <1>1, <1>2, <1>4, <2>1, <2>2, <2>4
  <2> QED
    BY <2>3, <2>4
<1>10. ASSUME NEW j \in 1 .. NumWorkers PROVE erased[j] \in Workers
  BY <1>1, <1>9
<1>11. erased \in [1 .. NumWorkers -> Workers]
  BY <1>7, <1>10
<1>12. erased \in Seq(Workers) /\ Len(erased) = NumWorkers
  <2>1. NumWorkers \in Nat /\ DOMAIN erased = 1 .. NumWorkers
    BY <1>1, <1>11
  <2>2. erased \in Seq(Workers)
    BY <1>11, <2>1
  <2> QED
    BY <2>1, <2>2
<1>13. PICK e : e = Erased(v, n)
  OBVIOUS
<1>14. e.memory = erased /\ e.size = size - 1 /\ DOMAIN e = {"memory", "size"}
  BY <1>8, <1>13
<1>15. HasBehind(e, n)
  BY <1>1, <1>2, <1>9, <1>12, <1>14 DEF HasBehind
<1> QED
  BY <1>13, <1>15

\* The main thread and the vector of io services.
LEMMA MainTypes == ASSUME TypeInv, Main PROVE TypeInv'
<1>1. /\ NumWorkers \in Nat \ {0} /\ main.worker \in 1 .. NumWorkers /\ Workers = 1 .. NumWorkers
      /\ m_iosvcs.memory \in Seq(Workers) /\ main \in MainThread
      /\ Len(m_iosvcs.memory) = Pushed /\ m_iosvcs.size = Pushed - Erasures
      /\ posted \in [Workers -> Seq(Lambdas)] /\ DOMAIN m_iosvcs = {"memory", "size"}
      /\ refresh \in RefreshThread /\ overlapped \in SUBSET Workers
      /\ \A j \in 1 .. Pushed :
           m_iosvcs.memory[j] = IF Erasures + j <= NumWorkers THEN Erasures + j ELSE NumWorkers
  BY Counts DEF TypeInv, TypeOK, VectorInv, Workers
<1>2. \A w \in Workers : Post(w, [do |-> "make"]) \/ Post(w, [do |-> "reset"])
                           => posted' \in [Workers -> Seq(Lambdas)]
  <2>1. [do |-> "make"] \in Lambdas /\ [do |-> "reset"] \in Lambdas
    BY DEF Lambdas
  <2>2. ASSUME NEW w \in Workers, NEW l \in Lambdas, Post(w, l)
        PROVE  posted' \in [Workers -> Seq(Lambdas)]
    BY <1>1, <2>2 DEF Post
  <2> QED
    BY <2>1, <2>2
<1>3. ASSUME NEW phase \in {"serving", "stopped"}, NextWorker(phase)
      PROVE  /\ main' \in MainThread /\ main'.step = "next"
             /\ IF main.worker < NumWorkers
                  THEN main'.phase = main.phase /\ main'.worker = main.worker + 1
                  ELSE main'.phase = phase /\ main'.worker = 1
  <2>1. CASE main.worker < NumWorkers
    <3>1. main' = [main EXCEPT !.worker = @ + 1, !.step = "next"]
      BY <1>3, <2>1 DEF NextWorker
    <3>2. main.worker + 1 \in Workers
      BY <1>1, <2>1
    <3> QED
      BY <1>1, <2>1, <3>1, <3>2 DEF MainThread
  <2>2. CASE ~(main.worker < NumWorkers)
    BY <1>1, <1>3, <2>2 DEF NextWorker, MainThread
  <2> QED
    BY <2>1, <2>2
<1>4. ASSUME main' \in MainThread, posted' \in [Workers -> Seq(Lambdas)],
             m_iosvcs'.memory \in Seq(Workers), m_iosvcs'.size \in 0 .. Len(m_iosvcs'.memory),
             DOMAIN m_iosvcs' = {"memory", "size"}, Len(m_iosvcs.memory) <= Len(m_iosvcs'.memory),
             VectorInv', overlapped' \in SUBSET Workers,
             refresh' \in RefreshThread, refresh'.step = refresh.step, refresh'.name = refresh.name,
             refresh'.stamp = refresh.stamp, refresh'.file = refresh.file, refresh'.i = refresh.i,
             refresh'.size = refresh.size, refresh'.to = refresh.to,
             UNCHANGED <<disk, m_file_map, m_file_map_local, m_stop, crashed>>
      PROVE  TypeInv'
  <2>1. LoopInv'
    <3>1. refresh.size \in Nat
      BY DEF TypeInv, TypeOK, RefreshThread
    <3>2. refresh.size <= Len(m_iosvcs'.memory)
      BY <1>1, <1>4, <3>1 DEF TypeInv, LoopInv
    <3> QED
      BY <1>4, <3>2 DEF TypeInv, LoopInv, Updating
  <2> QED
    BY <1>4, <2>1 DEF TypeInv, TypeOK
<1>same. ASSUME UNCHANGED <<disk, m_file_map, m_file_map_local, refresh, m_iosvcs, m_stop, crashed, overlapped>>,
                main' \in MainThread, posted' \in [Workers -> Seq(Lambdas)],
                Pushed' = Pushed, Erasures' = Erasures,
                main'.phase \in {"serving", "stopped"} => main'.worker = 1 /\ main'.step = "next",
                main'.step = "wait" => main'.phase = "stopping"
         PROVE  TypeInv'
  <2>1. VectorInv'
    BY <1>1, <1>same DEF VectorInv
  <2>2. m_iosvcs.size \in 0 .. Len(m_iosvcs.memory)
    BY DEF TypeInv, TypeOK
  <2> QED
    BY <1>1, <1>4, <1>same, <2>1, <2>2
<1>5. CASE RegisterIoService
  <2>1. /\ main.phase = "starting" /\ main.step = "next"
        /\ m_iosvcs' = [memory |-> Append(m_iosvcs.memory, main.worker), size |-> m_iosvcs.size + 1]
        /\ Len(m_iosvcs.memory) = main.worker - 1 /\ m_iosvcs.size = main.worker - 1
        /\ Pushed = main.worker - 1 /\ Erasures = 0
        /\ main' = [main EXCEPT !.step = "post"]
    <3>1. Pushed = main.worker - 1 /\ Erasures = 0
      BY <1>1, <1>5 DEF RegisterIoService, Pushed, Erasures
    <3> QED
      BY <1>1, <1>5, <3>1 DEF RegisterIoService
  <2>2. /\ m_iosvcs'.memory \in Seq(Workers) /\ Len(m_iosvcs'.memory) = main.worker
        /\ m_iosvcs'.size = main.worker /\ DOMAIN m_iosvcs' = {"memory", "size"}
        /\ \A j \in 1 .. main.worker - 1 : m_iosvcs'.memory[j] = m_iosvcs.memory[j]
        /\ m_iosvcs'.memory[main.worker] = main.worker
    BY <1>1, <2>1
  <2>3. /\ main' \in MainThread /\ main'.phase = "starting" /\ main'.step = "post"
        /\ main'.worker = main.worker
    BY <1>1, <2>1 DEF MainThread
  <2>4. Pushed' = main.worker /\ Erasures' = 0
    BY <1>1, <2>3 DEF Pushed, Erasures
  <2>5. \A j \in 1 .. main.worker : m_iosvcs'.memory[j] = j
    BY <1>1, <2>1, <2>2
  <2>6. VectorInv'
    <3>1. \A j \in 1 .. main.worker : 0 + j <= NumWorkers /\ 0 + j = j
      BY <1>1
    <3>2. main.worker - 0 = main.worker
      BY <1>1
    <3> QED
      BY <2>2, <2>3, <2>4, <2>5, <3>1, <3>2 DEF VectorInv
  <2>7. overlapped' \in SUBSET Workers
    BY <1>1, <1>5 DEF RegisterIoService, VectorChanges
  <2>8. PICK moved \in BOOLEAN : refresh' = [refresh EXCEPT !.stale = @ \/ (moved /\ Updating)]
    BY <1>5 DEF RegisterIoService
  <2>9. (refresh.stale \/ (moved /\ Updating)) \in BOOLEAN
    OBVIOUS
  <2>10. /\ refresh' \in RefreshThread /\ refresh'.step = refresh.step /\ refresh'.name = refresh.name
         /\ refresh'.stamp = refresh.stamp /\ refresh'.file = refresh.file /\ refresh'.i = refresh.i
         /\ refresh'.size = refresh.size /\ refresh'.to = refresh.to
    BY <1>1, <2>8, <2>9 DEF RefreshThread
  <2>11. /\ UNCHANGED <<disk, m_file_map, m_file_map_local, posted, m_stop, crashed>>
         /\ Len(m_iosvcs.memory) <= Len(m_iosvcs'.memory)
         /\ m_iosvcs'.size \in 0 .. Len(m_iosvcs'.memory)
    BY <1>1, <1>5, <2>1, <2>2 DEF RegisterIoService
  <2> QED
    BY <1>1, <1>4, <2>2, <2>3, <2>6, <2>7, <2>10, <2>11
<1>6. CASE PostMake
  <2>1. /\ main.phase = "starting" /\ main.step = "post" /\ NextWorker("serving")
        /\ Post(main.worker, [do |-> "make"])
        /\ UNCHANGED <<disk, m_file_map, m_file_map_local, refresh, m_iosvcs, m_stop, crashed, overlapped>>
    BY <1>6 DEF PostMake, Registering
  <2>2. /\ main' \in MainThread /\ main'.step = "next"
        /\ IF main.worker < NumWorkers
             THEN main'.phase = main.phase /\ main'.worker = main.worker + 1
             ELSE main'.phase = "serving" /\ main'.worker = 1
    BY <1>3, <2>1
  <2>3. Pushed' = Pushed /\ Erasures' = Erasures
    BY <1>1, <2>1, <2>2 DEF Pushed, Erasures
  <2> QED
    BY <1>1, <1>2, <1>same, <2>1, <2>2, <2>3
<1>7. CASE UnregisterIoService
  <2>1. /\ main.phase = "stopping" /\ main.step = "next" /\ main' = [main EXCEPT !.step = "post"]
        /\ m_iosvcs' = Erased(m_iosvcs, main.worker)
        /\ Pushed = NumWorkers /\ Erasures = main.worker - 1
        /\ Len(m_iosvcs.memory) = NumWorkers /\ m_iosvcs.size = NumWorkers - main.worker + 1
    BY <1>1, <1>7 DEF UnregisterIoService, Pushed, Erasures
  <2>2. main' \in MainThread /\ main'.phase = "stopping" /\ main'.step = "post" /\ main'.worker = main.worker
    BY <1>1, <2>1 DEF MainThread
  <2>3. Pushed' = NumWorkers /\ Erasures' = main.worker
    BY <1>1, <2>2 DEF Pushed, Erasures
  <2>4. \A j \in 1 .. NumWorkers : m_iosvcs.memory[j] =
          IF main.worker - 1 + j <= NumWorkers THEN main.worker - 1 + j ELSE NumWorkers
    BY <1>1, <2>1
  <2>5. main.worker \in Workers /\ DOMAIN m_iosvcs.memory = 1 .. NumWorkers
    BY <1>1, <2>1
  <2>9. /\ DOMAIN m_iosvcs' = {"memory", "size"} /\ m_iosvcs'.size = NumWorkers - main.worker
        /\ m_iosvcs'.memory \in Seq(Workers) /\ Len(m_iosvcs'.memory) = NumWorkers
        /\ \A j \in 1 .. NumWorkers :
             m_iosvcs'.memory[j] = IF main.worker + j <= NumWorkers THEN main.worker + j ELSE NumWorkers
    <3>1. HasFrom(m_iosvcs, main.worker)
      BY <2>1, <2>4, <2>5 DEF HasFrom
    <3>2. HasBehind(m_iosvcs', main.worker)
      BY <2>1, <2>5, <3>1, ErasedFirst
    <3> QED
      BY <3>2 DEF HasBehind
  <2>13. VectorInv'
    BY <1>1, <2>2, <2>3, <2>9 DEF VectorInv
  <2>14. /\ m_iosvcs'.size \in 0 .. Len(m_iosvcs'.memory) /\ Len(m_iosvcs.memory) <= Len(m_iosvcs'.memory)
    <3>1. PICK n \in Nat : n = main.worker /\ n <= NumWorkers
      BY <1>1
    <3>2. NumWorkers - n \in 0 .. NumWorkers
      BY <1>1, <3>1
    <3> QED
      BY <1>1, <2>1, <2>9, <3>1, <3>2
  <2>15. /\ UNCHANGED <<disk, m_file_map, m_file_map_local, posted, refresh, m_stop, crashed>>
         /\ overlapped' \in SUBSET Workers
    BY <1>1, <1>7, <2>5 DEF UnregisterIoService, VectorChanges
  <2> QED
    BY <1>1, <1>4, <2>2, <2>9, <2>13, <2>14, <2>15
<1>8. CASE PostReset
  <2>1. /\ main.phase = "stopping" /\ main.step = "post" /\ main' = [main EXCEPT !.step = "wait"]
        /\ Post(main.worker, [do |-> "reset"])
        /\ UNCHANGED <<disk, m_file_map, m_file_map_local, refresh, m_iosvcs, m_stop, crashed, overlapped>>
    BY <1>8 DEF PostReset
  <2>2. main' \in MainThread /\ main'.phase = "stopping" /\ main'.step = "wait" /\ main'.worker = main.worker
    BY <1>1, <2>1 DEF MainThread
  <2>3. Pushed' = Pushed /\ Erasures' = Erasures
    BY <1>1, <2>1, <2>2 DEF Pushed, Erasures
  <2> QED
    BY <1>1, <1>2, <1>same, <2>1, <2>2, <2>3
<1>9. CASE Unregistered
  <2>1. /\ main.phase = "stopping" /\ main.step = "wait" /\ NextWorker("stopped")
        /\ UNCHANGED <<disk, m_file_map, m_file_map_local, posted, refresh, m_iosvcs, m_stop, crashed, overlapped>>
    BY <1>9 DEF Unregistered
  <2>2. /\ main' \in MainThread /\ main'.step = "next"
        /\ IF main.worker < NumWorkers
             THEN main'.phase = main.phase /\ main'.worker = main.worker + 1
             ELSE main'.phase = "stopped" /\ main'.worker = 1
    BY <1>3, <2>1
  <2>3. Pushed' = Pushed /\ Erasures' = Erasures
    <3>1. PICK n \in Nat : n = main.worker /\ n <= NumWorkers /\ n + 1 - 1 = n
      BY <1>1
    <3>2. Pushed = NumWorkers /\ Erasures = n
      BY <1>1, <2>1, <3>1 DEF Pushed, Erasures
    <3>3. Pushed' = NumWorkers
      BY <2>1, <2>2 DEF Pushed
    <3>4. CASE n < NumWorkers
      <4>1. main'.phase = "stopping" /\ main'.worker = n + 1 /\ main'.step = "next"
        BY <2>1, <2>2, <3>1, <3>4
      <4> QED
        BY <3>1, <3>2, <3>3, <4>1 DEF Erasures
    <3>5. CASE ~(n < NumWorkers)
      <4>1. main'.phase = "stopped" /\ n = NumWorkers
        BY <1>1, <2>2, <3>1, <3>5
      <4> QED
        BY <3>2, <3>3, <4>1 DEF Erasures
    <3> QED
      BY <3>4, <3>5
  <2> QED
    BY <1>1, <1>same, <2>1, <2>2, <2>3
<1> QED
  BY <1>5, <1>6, <1>7, <1>8, <1>9 DEF Main

\* The file system, the workers and the rest of the main thread.
LEMMA OtherTypes ==
  ASSUME TypeInv,
         \/ StopServer \/ Destroy \/ FollowsFreedPointer
         \/ \E f \in Files : WriteFile(f) \/ DeleteFile(f) \/ StatThrows(f)
         \/ \E w \in Workers : RunPosted(w) \/ \E f \in Files : CopyFromMain(w, f)
  PROVE  TypeInv'
<1>1. /\ posted \in [Workers -> Seq(Lambdas)]
      /\ m_file_map \in [Files -> LoadedFile \cup {NoFile}]
      /\ m_file_map_local \in [Workers -> [Files -> LoadedFile \cup {NoFile}] \cup {NoMap}]
      /\ disk \in [Files -> [exists : BOOLEAN, version : Versions]]
      /\ main \in MainThread
      /\ NumWorkers \in Nat \ {0} /\ MaxVersion \in Nat \ {0}
  BY FileAssumption DEF TypeInv, TypeOK
<1>2. ASSUME UNCHANGED <<m_file_map, refresh, m_iosvcs, main, m_stop, overlapped>>, crashed' \in BOOLEAN,
             disk' \in [Files -> [exists : BOOLEAN, version : Versions]],
             m_file_map_local' \in [Workers -> [Files -> LoadedFile \cup {NoFile}] \cup {NoMap}],
             posted' \in [Workers -> Seq(Lambdas)]
      PROVE  TypeInv'
  BY <1>2 DEF TypeInv, TypeOK, LoopInv, Updating, VectorInv, Pushed, Erasures
<1>3. CASE StopServer
  <2>1. /\ main.phase = "serving" /\ main'.phase = "stopping" /\ main'.worker = main.worker
        /\ main'.step = main.step /\ main' \in MainThread
    BY <1>1, <1>3 DEF StopServer, MainThread
  <2>2. VectorInv'
    <3>1. Pushed' = Pushed /\ Erasures' = Erasures
      BY <1>1, <2>1 DEF Pushed, Erasures, TypeInv, VectorInv
    <3> QED
      BY <1>3, <2>1, <3>1 DEF StopServer, TypeInv, VectorInv
  <2> QED
    BY <1>3, <2>1, <2>2 DEF StopServer, TypeInv, TypeOK, LoopInv, Updating
<1>4. CASE Destroy
  BY <1>4 DEF Destroy, TypeInv, TypeOK, LoopInv, Updating, VectorInv, Pushed, Erasures
<1>5. ASSUME NEW f \in Files, WriteFile(f) PROVE TypeInv'
  <2>1. disk[f].version + 1 \in Versions
    BY <1>1, <1>5 DEF WriteFile, Versions
  <2>2. disk' \in [Files -> [exists : BOOLEAN, version : Versions]]
    BY <1>1, <1>5, <2>1 DEF WriteFile
  <2> QED
    BY <1>2, <1>5, <2>2 DEF WriteFile, server, TypeInv, TypeOK
<1>6. ASSUME NEW f \in Files, DeleteFile(f) \/ StatThrows(f) PROVE TypeInv'
  <2>1. disk' \in [Files -> [exists : BOOLEAN, version : Versions]]
    <3>1. /\ disk' = [disk EXCEPT ![f] = [exists |-> FALSE, version |-> @.version + 1]]
          /\ disk[f].version < MaxVersion
      BY <1>6 DEF DeleteFile, StatThrows, Deleted
    <3>2. disk[f].version + 1 \in Versions
      BY <1>1, <3>1 DEF Versions
    <3> QED
      BY <1>1, <3>1, <3>2
  <2> QED
    BY <1>2, <1>6, <2>1 DEF DeleteFile, StatThrows, server, TypeInv, TypeOK
<1>7. ASSUME NEW w \in Workers, RunPosted(w) PROVE TypeInv'
  <2>1. posted' \in [Workers -> Seq(Lambdas)]
    BY <1>1, <1>7 DEF RunPosted
  <2> DEFINE l == Head(posted[w])
  <2>2. l \in Lambdas
    BY <1>1, <1>7 DEF RunPosted
  <2> HIDE DEF l
  <2>3. EmptyMap \in [Files -> LoadedFile \cup {NoFile}]
    BY DEF EmptyMap
  <2>4. ASSUME l.do = "update", m_file_map_local[w] # NoMap
        PROVE  Updated(m_file_map_local[w], l) \in [Files -> LoadedFile \cup {NoFile}]
    BY <1>1, <2>2, <2>4 DEF Updated, Lambdas
  <2>5. l.do \in {"make", "reset", "update"}
    BY <2>2 DEF Lambdas
  <2>6. m_file_map_local' \in [Workers -> [Files -> LoadedFile \cup {NoFile}] \cup {NoMap}]
    <3>1. CASE l.do = "update" /\ m_file_map_local[w] = NoMap
      BY <1>1, <1>7, <3>1 DEF RunPosted, l
    <3>2. CASE ~(l.do = "update" /\ m_file_map_local[w] = NoMap)
      <4>1. m_file_map_local' = [m_file_map_local EXCEPT ![w] =
                 CASE l.do = "make"   -> EmptyMap
                   [] l.do = "reset"  -> NoMap
                   [] l.do = "update" -> Updated(m_file_map_local[w], l)]
        BY <1>7, <3>2 DEF RunPosted, l
      <4> QED
        BY <1>1, <2>3, <2>4, <2>5, <3>2, <4>1
    <3> QED
      BY <3>1, <3>2
  <2>7. crashed' \in BOOLEAN
    BY <1>7 DEF RunPosted, TypeInv, TypeOK
  <2> QED
    BY <1>1, <1>2, <1>7, <2>1, <2>6, <2>7 DEF RunPosted
<1>8. ASSUME NEW w \in Workers, NEW f \in Files, CopyFromMain(w, f) PROVE TypeInv'
  <2>1. m_file_map_local' \in [Workers -> [Files -> LoadedFile \cup {NoFile}] \cup {NoMap}]
    BY <1>1, <1>8 DEF CopyFromMain
  <2> QED
    BY <1>1, <1>2, <1>8, <2>1 DEF CopyFromMain, server, TypeInv, TypeOK
<1>9. CASE FollowsFreedPointer
  BY <1>1, <1>2, <1>9 DEF FollowsFreedPointer, TypeInv, TypeOK
<1> QED
  BY <1>3, <1>4, <1>5, <1>6, <1>7, <1>8, <1>9

LEMMA TypeStep == TypeInv /\ [Next]_vars => TypeInv'
<1>1. ASSUME TypeInv, UNCHANGED vars PROVE TypeInv'
  BY <1>1 DEF vars, server, TypeInv, TypeOK, LoopInv, Updating, VectorInv, Pushed, Erasures
<1> QED
  BY <1>1, RefreshTypes, MainTypes, OtherTypes DEF Next

-----------------------------------------------------------------------------
(* The steps of the refresh thread, by what they do to the file in hand.   *)

SameFile == /\ refresh'.step = refresh.step /\ refresh'.file = refresh.file
            /\ refresh'.name = refresh.name /\ refresh'.stamp = refresh.stamp
            /\ refresh'.i = refresh.i /\ refresh'.size = refresh.size /\ refresh'.to = refresh.to
            /\ refresh'.stale = refresh.stale

DropsFile == /\ ~Updating /\ refresh'.step = "next" /\ refresh'.file = NoFile
             /\ refresh.step = "read" => ~Exists(refresh.name)

StatsFile(f) == /\ refresh.step = "next" /\ refresh'.step = "read"
                /\ refresh'.name = f /\ refresh'.stamp = disk[f].version /\ refresh'.file = NoFile

StartsPosts == /\ refresh'.step = "each" /\ refresh'.i = 1 /\ refresh'.size = m_iosvcs.size
               /\ ~refresh'.stale /\ UpdateStarts

LoadsFile == /\ refresh.step = "read" /\ StartsPosts /\ refresh'.name = refresh.name
             /\ refresh'.file = [stamp |-> refresh.stamp, data |-> disk[refresh.name].version]

RemovesFile(f) == /\ refresh.step = "next" /\ StartsPosts /\ refresh'.name = f /\ refresh'.file = NoFile

TakesIoService ==
  /\ refresh.step = "each" /\ refresh.i <= refresh.size /\ refresh'.step = "post"
  /\ refresh'.to = IF refresh.stale THEN refresh.i ELSE m_iosvcs.memory[refresh.i]
  /\ refresh'.file = refresh.file /\ refresh'.name = refresh.name
  /\ refresh'.i = refresh.i /\ refresh'.size = refresh.size /\ refresh'.stale = refresh.stale

PostsFile ==
  /\ refresh.step = "post" /\ refresh'.step = "each" /\ refresh'.i = refresh.i + 1
  /\ refresh'.file = refresh.file /\ refresh'.name = refresh.name /\ refresh'.size = refresh.size
  /\ refresh'.stale = refresh.stale
  /\ Post(refresh.to, [do |-> "update", name |-> refresh.name, file |-> refresh.file])

StoresFile ==
  /\ refresh.step = "each" /\ refresh.i > refresh.size
  /\ refresh'.step = "next" /\ refresh'.file = NoFile
  /\ m_file_map' = [m_file_map EXCEPT ![refresh.name] = refresh.file]

LEMMA RefreshMoves ==
  ASSUME TypeInv, Refresh
  PROVE  /\ UNCHANGED <<disk, m_file_map_local, server>>
         /\ UNCHANGED overlapped \/ LoadsFile \/ \E f \in Files : RemovesFile(f)
         /\ \/ /\ UNCHANGED <<m_file_map, posted>>
               /\ \/ SameFile \/ DropsFile \/ LoadsFile \/ TakesIoService
                  \/ \E f \in Files : StatsFile(f) \/ RemovesFile(f)
            \/ UNCHANGED m_file_map /\ PostsFile
            \/ UNCHANGED posted /\ StoresFile
<1>1. refresh \in RefreshThread /\ DOMAIN refresh = ThreadFields /\ (~Updating => refresh.file = NoFile)
  BY DEF TypeInv, TypeOK, LoopInv, RefreshThread, ThreadFields
<1>2. CASE WakeUp
  BY <1>1, <1>2 DEF WakeUp, SameFile, ThreadFields
<1>3. CASE CompareFiles
  BY <1>1, <1>3 DEF CompareFiles, SameFile, ThreadFields
<1>4. CASE ReadFile
  <2>1. CASE Exists(refresh.name)
    <3> DEFINE file == [stamp |-> refresh.stamp, data |-> disk[refresh.name].version]
    <3>1. refresh' = StartPosts(refresh, file) /\ refresh.step = "read" /\ UpdateStarts
      BY <1>4, <2>1 DEF ReadFile
    <3> HIDE DEF file
    <3>2. /\ refresh'.step = "each" /\ refresh'.i = 1 /\ refresh'.size = m_iosvcs.size
          /\ ~refresh'.stale
          /\ refresh'.name = refresh.name /\ refresh'.file = file
      BY <1>1, <3>1 DEF StartPosts, ThreadFields
    <3>3. LoadsFile
      BY <3>1, <3>2 DEF LoadsFile, StartsPosts, file
    <3> QED
      BY <1>4, <3>3 DEF ReadFile
  <2>2. CASE ~Exists(refresh.name)
    <3>1. /\ refresh.step = "read" /\ refresh'.step = "next" /\ refresh'.file = refresh.file
          /\ UNCHANGED overlapped
      BY <1>1, <1>4, <2>2 DEF ReadFile, ThreadFields
    <3>2. DropsFile
      BY <1>1, <2>2, <3>1 DEF DropsFile, Updating
    <3> QED
      BY <1>4, <3>1, <3>2 DEF ReadFile
  <2> QED
    BY <2>1, <2>2
<1>5. CASE TakeIoService
  <2>1. TakesIoService
    BY <1>1, <1>5 DEF TakeIoService, TakesIoService, ThreadFields
  <2> QED
    BY <1>5, <2>1 DEF TakeIoService
<1>6. CASE PostUpdate
  <2>1. PostsFile
    BY <1>1, <1>6 DEF PostUpdate, PostsFile, ThreadFields
  <2> QED
    BY <1>6, <2>1 DEF PostUpdate
<1>7. CASE StoreInMain
  <2>1. StoresFile
    BY <1>1, <1>7 DEF StoreInMain, StoresFile, ThreadFields
  <2> QED
    BY <1>7, <2>1 DEF StoreInMain
<1>8. CASE RoundEnds
  <2>1. DropsFile
    BY <1>8 DEF RoundEnds, Idle, DropsFile, Updating
  <2> QED
    BY <1>8, <2>1 DEF RoundEnds
<1>9. ASSUME NEW f \in Files, refresh.step = "next", NEW r \in {refresh, StatFile(f)},
             refresh'.step = r.step, refresh'.name = r.name, refresh'.stamp = r.stamp,
             refresh'.file = r.file, refresh'.i = r.i, refresh'.size = r.size, refresh'.to = r.to,
             refresh'.stale = r.stale
      PROVE  SameFile \/ StatsFile(f)
  <2>1. CASE r = refresh
    BY <1>9, <2>1 DEF SameFile
  <2>2. CASE r # refresh
    <3>1. r = [refresh EXCEPT !.name = f, !.step = "read", !.stamp = disk[f].version]
      BY <1>9, <2>2 DEF StatFile
    <3>2. r.step = "read" /\ r.name = f /\ r.stamp = disk[f].version /\ r.file = refresh.file
      BY <1>1, <3>1 DEF ThreadFields
    <3> QED
      BY <1>1, <1>9, <3>2 DEF StatsFile, Updating
  <2> QED
    BY <2>1, <2>2
<1>10. ASSUME NEW f \in Files PROVE DOMAIN StatFile(f) = ThreadFields
  BY <1>1 DEF StatFile, ThreadFields
<1>11. ASSUME NEW f \in Files, ScanEntry(f) PROVE SameFile \/ StatsFile(f)
  <2>1. PICK r \in {refresh, StatFile(f)} : refresh' = [r EXCEPT !.todo = @ \ {f}]
    BY <1>11 DEF ScanEntry
  <2>2. /\ refresh'.step = r.step /\ refresh'.name = r.name /\ refresh'.stamp = r.stamp
        /\ refresh'.file = r.file /\ refresh'.i = r.i /\ refresh'.size = r.size /\ refresh'.to = r.to
        /\ refresh'.stale = r.stale
    BY <1>1, <1>10, <2>1 DEF ThreadFields
  <2> QED
    BY <1>9, <1>11, <2>2 DEF ScanEntry, Scans
<1>12. ASSUME NEW f \in Files, UpdateFile(f) PROVE SameFile \/ StatsFile(f)
  <2>1. PICK r \in {refresh, StatFile(f)} : refresh' = [r EXCEPT !.to_add = @ \ {f}]
    BY <1>12 DEF UpdateFile
  <2>2. /\ refresh'.step = r.step /\ refresh'.name = r.name /\ refresh'.stamp = r.stamp
        /\ refresh'.file = r.file /\ refresh'.i = r.i /\ refresh'.size = r.size /\ refresh'.to = r.to
        /\ refresh'.stale = r.stale
    BY <1>1, <1>10, <2>1 DEF ThreadFields
  <2> QED
    BY <1>9, <1>12, <2>2 DEF UpdateFile, Updates
<1>13. ASSUME NEW f \in Files, RemoveFile(f) PROVE RemovesFile(f)
  <2>1. refresh' = [StartPosts(refresh, NoFile) EXCEPT !.to_remove = @ \ {f}, !.name = f]
    BY <1>13 DEF RemoveFile
  <2> DEFINE r == StartPosts(refresh, NoFile)
  <2>2. /\ DOMAIN r = ThreadFields /\ r.step = "each" /\ r.i = 1 /\ r.size = m_iosvcs.size
        /\ r.file = NoFile /\ ~r.stale
    BY <1>1 DEF StartPosts, ThreadFields
  <2>3. refresh' = [r EXCEPT !.to_remove = @ \ {f}, !.name = f]
    BY <2>1
  <2> HIDE DEF r
  <2> QED
    BY <1>13, <2>2, <2>3 DEF RemoveFile, RemovesFile, StartsPosts, ThreadFields
<1>14. UNCHANGED <<disk, m_file_map_local, server>>
  BY DEF Refresh, WakeUp, CompareFiles, ReadFile, TakeIoService, PostUpdate,
         StoreInMain, RoundEnds, ScanEntry, UpdateFile, RemoveFile
<1>15. ASSUME NEW f \in Files, ScanEntry(f) \/ UpdateFile(f) \/ RemoveFile(f)
       PROVE  UNCHANGED <<m_file_map, posted>>
  BY <1>15 DEF ScanEntry, UpdateFile, RemoveFile
<1>16. \/ UNCHANGED overlapped \/ ReadFile \/ \E f \in Files : RemoveFile(f)
  BY DEF Refresh, WakeUp, CompareFiles, TakeIoService, PostUpdate, StoreInMain, RoundEnds, ScanEntry,
         UpdateFile
<1> QED
  BY <1>2, <1>3, <1>4, <1>5, <1>6, <1>7, <1>8, <1>11, <1>12, <1>13, <1>14, <1>15, <1>16
  DEF Refresh, WakeUp, CompareFiles, RoundEnds

-----------------------------------------------------------------------------
(* Queues and maps of the workers while the server serves.                 *)

\* The lambda that makes w's map was posted.
Made(w) == main.phase = "starting" => w < main.worker

\* An update goes to the workers that were in the vector when it started, in their
\* order, and those that are registered meanwhile are overlapped.
VectorServes ==
  /\ Updating => refresh.size <= m_iosvcs.size
  /\ Updating => \A w \in Workers : refresh.size < w /\ w <= m_iosvcs.size => w \in overlapped
  /\ Updating /\ Registering => main.worker \in overlapped
  /\ refresh.step = "post" => refresh.to = refresh.i

\* Before a worker's map is made, the lambda that makes it is the first of its queue.
QueueServes(w) ==
  /\ m_file_map_local[w] = NoMap => (posted[w] = <<>> <=> ~Made(w))
  /\ m_file_map_local[w] # NoMap => Made(w)
  /\ \A k \in DOMAIN posted[w] :
       /\ posted[w][k].do # "reset"
       /\ posted[w][k].do = "make" <=> k = 1 /\ m_file_map_local[w] = NoMap

ServingInv == Serving => VectorServes /\ \A w \in Workers \ overlapped : QueueServes(w)

LEMMA ServingFacts ==
  ASSUME TypeInv, Serving
  PROVE  /\ m_iosvcs.size = Len(m_iosvcs.memory) /\ NumWorkers \in Nat \ {0}
         /\ m_iosvcs.size \in 0 .. NumWorkers
         /\ main.phase = "starting" =>
              m_iosvcs.size = IF main.step = "next" THEN main.worker - 1 ELSE main.worker
         /\ main.phase = "serving" => m_iosvcs.size = NumWorkers /\ ~Registering
         /\ \A k \in 1 .. m_iosvcs.size : m_iosvcs.memory[k] = k
         /\ main.worker \in 1 .. NumWorkers /\ m_iosvcs.memory \in Seq(Workers)
         /\ refresh.i \in Nat \ {0} /\ refresh.size \in Nat /\ refresh.name \in Files \cup {NoFile}
         /\ posted \in [Workers -> Seq(Lambdas)]
<1>1. Erasures = 0 /\ main.phase \in {"starting", "serving"}
  BY DEF Serving, Erasures
<1>2. /\ NumWorkers \in Nat \ {0} /\ main.worker \in 1 .. NumWorkers /\ Pushed \in 0 .. NumWorkers
      /\ Len(m_iosvcs.memory) = Pushed /\ m_iosvcs.size = Pushed
      /\ m_iosvcs.memory \in Seq(Workers)
  BY <1>1, Counts
<1>3. /\ main.phase = "starting" =>
           m_iosvcs.size = IF main.step = "next" THEN main.worker - 1 ELSE main.worker
      /\ main.phase = "serving" => m_iosvcs.size = NumWorkers
  BY <1>2 DEF Pushed
<1>4. \A k \in 1 .. m_iosvcs.size : m_iosvcs.memory[k] = k
  BY <1>1, <1>2 DEF TypeInv, VectorInv
<1>5. /\ refresh.i \in Nat \ {0} /\ refresh.size \in Nat /\ refresh.name \in Files \cup {NoFile}
      /\ posted \in [Workers -> Seq(Lambdas)]
  BY FileAssumption DEF TypeInv, TypeOK, RefreshThread
<1> QED
  BY <1>2, <1>3, <1>4, <1>5 DEF Registering

LEMMA Appended ==
  ASSUME posted \in [Workers -> Seq(Lambdas)], NEW w \in Workers, NEW l, Post(w, l)
  PROVE  /\ \A v \in Workers \ {w} : posted'[v] = posted[v]
         /\ Len(posted[w]) \in Nat /\ DOMAIN posted[w] = 1 .. Len(posted[w])
         /\ DOMAIN posted'[w] = 1 .. Len(posted[w]) + 1
         /\ \A k \in 1 .. Len(posted[w]) : posted'[w][k] = posted[w][k]
         /\ posted'[w][Len(posted[w]) + 1] = l
         /\ posted'[w] # <<>>
<1>1. posted'[w] = Append(posted[w], l) /\ \A v \in Workers \ {w} : posted'[v] = posted[v]
  BY DEF Post
<1> DEFINE q == posted[w]
<1>2. q \in Seq(Lambdas)
  OBVIOUS
<1> HIDE DEF q
<1>3. /\ Len(q) \in Nat /\ DOMAIN q = 1 .. Len(q) /\ DOMAIN Append(q, l) = 1 .. Len(q) + 1
      /\ \A k \in 1 .. Len(q) : Append(q, l)[k] = q[k]
      /\ Append(q, l)[Len(q) + 1] = l
      /\ Append(q, l) # <<>>
  BY <1>2
<1> QED
  BY <1>1, <1>3 DEF q

LEMMA RanFirst ==
  ASSUME posted \in [Workers -> Seq(Lambdas)], NEW w \in Workers, posted[w] # <<>>,
         posted' = [posted EXCEPT ![w] = Tail(@)]
  PROVE  /\ \A v \in Workers \ {w} : posted'[v] = posted[v]
         /\ Len(posted[w]) \in Nat \ {0} /\ DOMAIN posted[w] = 1 .. Len(posted[w])
         /\ DOMAIN posted'[w] = 1 .. Len(posted[w]) - 1
         /\ \A k \in 1 .. Len(posted[w]) - 1 : posted'[w][k] = posted[w][k + 1]
         /\ Head(posted[w]) = posted[w][1] /\ posted[w][1] \in Lambdas
<1> DEFINE q == posted[w]
<1>1. q \in Seq(Lambdas) /\ q # <<>>
  OBVIOUS
<1>2. posted'[w] = Tail(q) /\ \A v \in Workers \ {w} : posted'[v] = posted[v]
  OBVIOUS
<1> HIDE DEF q
<1>3. /\ Len(q) \in Nat \ {0} /\ DOMAIN q = 1 .. Len(q) /\ DOMAIN Tail(q) = 1 .. Len(q) - 1
      /\ \A k \in 1 .. Len(q) - 1 : Tail(q)[k] = q[k + 1]
      /\ Head(q) = q[1] /\ q[1] \in Lambdas
  BY <1>1
<1> QED
  BY <1>2, <1>3 DEF q

\* A lambda changes the map of its own worker.
LEMMA RunsAlone ==
  ASSUME TypeInv, NEW v \in Workers, RunPosted(v), NEW w \in Workers, w # v
  PROVE  posted'[w] = posted[w] /\ m_file_map_local'[w] = m_file_map_local[w]
<1>1. DOMAIN posted = Workers /\ DOMAIN m_file_map_local = Workers
  BY DEF TypeInv, TypeOK
<1>2. posted' = [posted EXCEPT ![v] = Tail(@)]
  BY DEF RunPosted
<1>3. CASE UNCHANGED m_file_map_local
  BY <1>1, <1>2, <1>3
<1>4. ASSUME NEW x, m_file_map_local' = [m_file_map_local EXCEPT ![v] = x]
      PROVE  m_file_map_local'[w] = m_file_map_local[w]
  BY <1>1, <1>4
<1>5. UNCHANGED m_file_map_local \/ \E x : m_file_map_local' = [m_file_map_local EXCEPT ![v] = x]
  BY DEF RunPosted
<1> QED
  BY <1>1, <1>2, <1>3, <1>4, <1>5

\* The workers that met an update are not forgotten.
LEMMA OverlapStays == [Next]_vars => overlapped \subseteq overlapped'
<1>1. Refresh => overlapped \subseteq overlapped'
  BY DEF Refresh, WakeUp, CompareFiles, ReadFile, TakeIoService, PostUpdate, StoreInMain, RoundEnds,
         ScanEntry, UpdateFile, RemoveFile, UpdateStarts
<1>2. Main => overlapped \subseteq overlapped'
  BY DEF Main, RegisterIoService, PostMake, UnregisterIoService, PostReset, Unregistered, VectorChanges
<1>3. (\E w \in Workers : RunPosted(w) \/ \E f \in Files : CopyFromMain(w, f))
        => overlapped \subseteq overlapped'
  BY DEF RunPosted, CopyFromMain
<1>4. (\E f \in Files : WriteFile(f) \/ DeleteFile(f) \/ StatThrows(f)) => overlapped \subseteq overlapped'
  BY DEF WriteFile, DeleteFile, StatThrows
<1>5. StopServer \/ Destroy \/ FollowsFreedPointer \/ UNCHANGED vars => overlapped \subseteq overlapped'
  BY DEF StopServer, Destroy, FollowsFreedPointer, vars
<1> QED
  BY <1>1, <1>2, <1>3, <1>4, <1>5 DEF Next

\* What running the first lambda does to the worker's map: the lambda is never an
\* update without a map, nor the reset.
LEMMA RunsLambda ==
  ASSUME TypeInv, ServingInv, Serving, NEW w \in Workers \ overlapped, RunPosted(w)
  PROVE  /\ crashed' = crashed
         /\ \/ /\ posted[w][1].do = "make" /\ m_file_map_local[w] = NoMap
               /\ m_file_map_local'[w] = EmptyMap
            \/ /\ posted[w][1].do = "update" /\ m_file_map_local[w] # NoMap
               /\ posted[w][1].name \in Files /\ posted[w][1].file \in LoadedFile \cup {NoFile}
               /\ m_file_map_local'[w] =
                    [m_file_map_local[w] EXCEPT ![posted[w][1].name] = posted[w][1].file]
<1>1. /\ posted \in [Workers -> Seq(Lambdas)] /\ posted[w] # <<>>
      /\ posted' = [posted EXCEPT ![w] = Tail(@)]
      /\ m_file_map_local \in [Workers -> [Files -> LoadedFile \cup {NoFile}] \cup {NoMap}]
  BY DEF RunPosted, TypeInv, TypeOK
<1>2. Head(posted[w]) = posted[w][1] /\ posted[w][1] \in Lambdas /\ 1 \in DOMAIN posted[w]
  BY <1>1, RanFirst
<1> DEFINE l == posted[w][1]
<1>3. /\ l.do # "reset" /\ (l.do = "make" <=> m_file_map_local[w] = NoMap)
  BY <1>2 DEF ServingInv, QueueServes
<1>4. /\ IF l.do = "update" /\ m_file_map_local[w] = NoMap
           THEN crashed' = TRUE /\ UNCHANGED m_file_map_local
           ELSE /\ m_file_map_local' = [m_file_map_local EXCEPT ![w] =
                     CASE l.do = "make"   -> EmptyMap
                       [] l.do = "reset"  -> NoMap
                       [] l.do = "update" -> Updated(@, l)]
                /\ UNCHANGED crashed
  BY <1>2 DEF RunPosted
<1>5. l \in Lambdas
  BY <1>2
<1> HIDE DEF l
<1>6. CASE l.do = "make"
  BY <1>1, <1>3, <1>4, <1>6 DEF l
<1>7. CASE l.do # "make"
  <2>1. l.do = "update" /\ l.name \in Files /\ l.file \in LoadedFile \cup {NoFile}
    BY <1>3, <1>5, <1>7 DEF Lambdas
  <2>2. m_file_map_local[w] # NoMap
    BY <1>3, <1>7
  <2>3. UNCHANGED crashed /\ m_file_map_local' = [m_file_map_local EXCEPT ![w] = Updated(m_file_map_local[w], l)]
    BY <1>4, <2>1, <2>2
  <2> QED
    BY <1>1, <2>1, <2>2, <2>3 DEF Updated, l
<1> QED
  BY <1>6, <1>7

\* The main thread while it registers the workers: the push_back and the post.
LEMMA Registers ==
  ASSUME TypeInv, Serving, RegisterIoService
  PROVE  /\ main.phase = "starting" /\ main.step = "next"
         /\ main'.phase = "starting" /\ main'.step = "post" /\ main'.worker = main.worker
         /\ main.worker \in 1 .. NumWorkers
         /\ m_iosvcs.size = main.worker - 1 /\ m_iosvcs'.size = main.worker
         /\ refresh'.step = refresh.step /\ refresh'.name = refresh.name /\ refresh'.file = refresh.file
         /\ refresh'.stamp = refresh.stamp /\ refresh'.i = refresh.i /\ refresh'.size = refresh.size
         /\ refresh'.to = refresh.to /\ VectorChanges
         /\ UNCHANGED <<disk, m_file_map, m_file_map_local, posted, m_stop, crashed>>
<1>1. /\ main.phase = "starting" /\ main.step = "next" /\ main' = [main EXCEPT !.step = "post"]
      /\ main \in MainThread /\ main.worker \in 1 .. NumWorkers /\ m_iosvcs.size = main.worker - 1
      /\ m_iosvcs'.size = m_iosvcs.size + 1 /\ VectorChanges
      /\ UNCHANGED <<disk, m_file_map, m_file_map_local, posted, m_stop, crashed>>
  BY ServingFacts DEF RegisterIoService, TypeInv, TypeOK
<1>2. main'.phase = "starting" /\ main'.step = "post" /\ main'.worker = main.worker
  BY <1>1 DEF MainThread
<1>3. \E moved \in BOOLEAN : refresh' = [refresh EXCEPT !.stale = @ \/ (moved /\ Updating)]
  BY DEF RegisterIoService
<1>4. refresh \in RefreshThread
  BY DEF TypeInv, TypeOK
<1>5. /\ refresh'.step = refresh.step /\ refresh'.name = refresh.name /\ refresh'.file = refresh.file
      /\ refresh'.stamp = refresh.stamp /\ refresh'.i = refresh.i /\ refresh'.size = refresh.size
      /\ refresh'.to = refresh.to
  BY <1>3, <1>4 DEF RefreshThread
<1>6. m_iosvcs'.size = main.worker
  BY <1>1
<1> QED
  BY <1>1, <1>2, <1>5, <1>6

LEMMA Makes ==
  ASSUME TypeInv, Serving, PostMake
  PROVE  /\ main.phase = "starting" /\ main.step = "post" /\ ~Registering'
         /\ main.worker \in Workers /\ Post(main.worker, [do |-> "make"])
         /\ \A w \in Workers : Made(w)' <=> w <= main.worker
         /\ UNCHANGED <<disk, m_file_map, m_file_map_local, refresh, m_iosvcs, m_stop, crashed, overlapped>>
<1>1. /\ main.phase = "starting" /\ main.step = "post" /\ NextWorker("serving")
      /\ main.worker \in 1 .. NumWorkers /\ main \in MainThread /\ NumWorkers \in Nat
      /\ Post(main.worker, [do |-> "make"])
      /\ UNCHANGED <<disk, m_file_map, m_file_map_local, refresh, m_iosvcs, m_stop, crashed, overlapped>>
  BY ServingFacts DEF PostMake, Registering, TypeInv, TypeOK
<1>2. CASE main.worker < NumWorkers
  <2>1. main' = [main EXCEPT !.worker = @ + 1, !.step = "next"]
    BY <1>1, <1>2 DEF NextWorker
  <2>2. main'.phase = "starting" /\ main'.step = "next" /\ main'.worker = main.worker + 1
    BY <1>1, <2>1 DEF MainThread
  <2>3. \A w \in Workers : w < main.worker + 1 <=> w <= main.worker
    BY <1>1 DEF Workers
  <2> QED
    BY <1>1, <2>2, <2>3 DEF Registering, Made, Workers
<1>3. CASE ~(main.worker < NumWorkers)
  <2>1. main'.phase = "serving"
    BY <1>1, <1>3 DEF NextWorker
  <2>2. \A w \in Workers : w <= main.worker
    BY <1>1, <1>3 DEF Workers
  <2> QED
    BY <1>1, <2>1, <2>2 DEF Registering, Made, Workers
<1> QED
  BY <1>2, <1>3

\* The server serves only after it served, and the vector changes only by Register.
LEMMA StillServes ==
  ASSUME TypeInv, [Next]_vars, Serving'
  PROVE  /\ Serving
         /\ RegisterIoService \/ PostMake \/ UNCHANGED <<m_iosvcs, main>>
<1>1. CASE Refresh
  BY <1>1, RefreshMoves DEF server, Serving
<1>2. CASE RegisterIoService \/ PostMake
  BY <1>2 DEF RegisterIoService, PostMake, Registering, Serving
<1>3. CASE UnregisterIoService \/ PostReset \/ Unregistered
  <2>1. /\ main.phase = "stopping" /\ main \in MainThread
    BY <1>3 DEF UnregisterIoService, PostReset, Unregistered, TypeInv, TypeOK
  <2>2. main'.phase \in {"stopping", "stopped"}
    <3>1. CASE UnregisterIoService \/ PostReset
      BY <2>1, <3>1 DEF UnregisterIoService, PostReset, MainThread
    <3>2. CASE Unregistered
      BY <2>1, <3>2 DEF Unregistered, NextWorker, MainThread
    <3> QED
      BY <1>3, <3>1, <3>2
  <2> QED
    BY <2>2 DEF Serving
<1>4. CASE StopServer
  <2>1. main \in MainThread
    BY <1>4 DEF TypeInv, TypeOK
  <2>2. main'.phase = "stopping"
    BY <1>4, <2>1 DEF StopServer, MainThread
  <2> QED
    BY <2>2 DEF Serving
<1>5. CASE Destroy \/ FollowsFreedPointer
  BY <1>5 DEF Destroy, FollowsFreedPointer, Serving
<1>6. ASSUME NEW f \in Files, WriteFile(f) \/ DeleteFile(f) \/ StatThrows(f) PROVE Serving /\ UNCHANGED <<m_iosvcs, main>>
  BY <1>6 DEF WriteFile, DeleteFile, StatThrows, Serving, server
<1>7. ASSUME NEW w \in Workers, RunPosted(w) PROVE Serving /\ UNCHANGED <<m_iosvcs, main>>
  BY <1>7 DEF RunPosted, Serving
<1>8. ASSUME NEW w \in Workers, NEW f \in Files, CopyFromMain(w, f) PROVE Serving /\ UNCHANGED <<m_iosvcs, main>>
  BY <1>8 DEF CopyFromMain, Serving, server
<1>9. CASE UNCHANGED vars
  BY <1>9 DEF vars, server, Serving
<1> QED
  BY <1>1, <1>2, <1>3, <1>4, <1>5, <1>6, <1>7, <1>8, <1>9 DEF Next, Main

LEMMA ServingStep == TypeInv /\ ServingInv /\ [Next]_vars => ServingInv'
<1> SUFFICES ASSUME TypeInv, ServingInv, [Next]_vars, Serving'
             PROVE  VectorServes' /\ \A w \in Workers \ overlapped' : QueueServes(w)'
  BY DEF ServingInv
<1>0. /\ Serving /\ VectorServes /\ \A w \in Workers \ overlapped : QueueServes(w)
      /\ RegisterIoService \/ PostMake \/ UNCHANGED <<m_iosvcs, main>>
      /\ overlapped \subseteq overlapped'
      /\ \A w \in Workers \ overlapped' : w \in Workers \ overlapped
  BY StillServes, OverlapStays DEF ServingInv
<1>1. ASSUME UNCHANGED <<m_iosvcs, main, refresh>> PROVE VectorServes'
  BY <1>0, <1>1 DEF VectorServes, Updating, Registering
<1>2. ASSUME UNCHANGED <<main, m_file_map_local, posted>>
      PROVE  \A w \in Workers \ overlapped' : QueueServes(w)'
  BY <1>0, <1>2 DEF QueueServes, Made
<1>3. CASE Refresh
  <2>1. UNCHANGED <<disk, m_file_map_local, server>> /\ UNCHANGED <<m_iosvcs, main>>
    BY <1>3, RefreshMoves DEF server
  <2>2. ASSUME SameFile \/ DropsFile \/ StoresFile \/ \E f \in Files : StatsFile(f)
        PROVE  VectorServes'
    BY <1>0, <2>1, <2>2 DEF SameFile, DropsFile, StoresFile, StatsFile, VectorServes, Updating, Registering
  <2>3. ASSUME LoadsFile \/ \E f \in Files : RemovesFile(f) PROVE VectorServes'
    <3>1. StartsPosts
      BY <2>3 DEF LoadsFile, RemovesFile
    <3>2. m_iosvcs.size \in Nat /\ \A w \in Workers : ~(m_iosvcs.size < w /\ w <= m_iosvcs.size)
      BY <1>0, ServingFacts DEF Workers
    <3> QED
      BY <1>0, <2>1, <3>1, <3>2 DEF StartsPosts, UpdateStarts, VectorServes, Updating, Registering
  <2>4. ASSUME TakesIoService PROVE VectorServes'
    <3>1. refresh.i \in 1 .. m_iosvcs.size
      BY <1>0, <2>4, ServingFacts DEF TakesIoService, VectorServes, Updating
    <3>2. refresh'.to = refresh.i
      BY <1>0, <2>4, <3>1, ServingFacts DEF TakesIoService
    <3> QED
      BY <1>0, <2>1, <2>4, <3>2 DEF TakesIoService, VectorServes, Updating, Registering
  <2>5. ASSUME PostsFile PROVE VectorServes'
    BY <1>0, <2>1, <2>5 DEF PostsFile, VectorServes, Updating, Registering
  <2>6. VectorServes'
    BY <1>3, <2>2, <2>3, <2>4, <2>5, RefreshMoves
  <2>7. ASSUME PostsFile, NEW w \in Workers \ overlapped' PROVE QueueServes(w)'
    <3>1. refresh.to = refresh.i /\ refresh.i <= refresh.size /\ refresh.size <= m_iosvcs.size
          /\ refresh.to \in Workers /\ Updating
      BY <1>0, <2>7 DEF PostsFile, VectorServes, Updating, TypeInv, LoopInv
    <3>2. w = refresh.to => Made(refresh.to)
      <4>1. Registering => main.worker # w
        BY <1>0, <3>1 DEF VectorServes
      <4>2. w = refresh.to => w <= m_iosvcs.size /\ w \in Nat
        BY <3>1, ServingFacts, <1>0 DEF Workers
      <4>3. /\ main.phase = "starting" =>
                  m_iosvcs.size = IF main.step = "next" THEN main.worker - 1 ELSE main.worker
            /\ main \in MainThread /\ main.worker \in Nat
        BY <1>0, ServingFacts DEF TypeInv, TypeOK
      <4>4. main.step = "wait" => main.phase = "stopping"
        BY DEF TypeInv, VectorInv
      <4>5. main.step \in {"next", "post", "wait"}
        BY <4>3 DEF MainThread
      <4> QED
        BY <4>1, <4>2, <4>3, <4>4, <4>5 DEF Made, Registering
    <3>3. CASE w = refresh.to
      <4> DEFINE l == [do |-> "update", name |-> refresh.name, file |-> refresh.file]
      <4>1. l.do = "update" /\ Post(w, l)
        BY <2>7, <3>3 DEF PostsFile
      <4> HIDE DEF l
      <4>2. m_file_map_local[w] = NoMap => Len(posted[w]) # 0
        BY <1>0, <3>2, <3>3, ServingFacts DEF QueueServes
      <4>3. Made(w)'
        BY <2>1, <3>2, <3>3 DEF Made
      <4>4. /\ Len(posted[w]) \in Nat /\ DOMAIN posted[w] = 1 .. Len(posted[w])
            /\ DOMAIN posted'[w] = 1 .. Len(posted[w]) + 1
            /\ \A k \in 1 .. Len(posted[w]) : posted'[w][k] = posted[w][k]
            /\ posted'[w][Len(posted[w]) + 1] = l /\ posted'[w] # <<>>
        BY <1>0, <4>1, Appended, ServingFacts
      <4>5. ASSUME NEW k \in DOMAIN posted'[w]
            PROVE  /\ posted'[w][k].do # "reset"
                   /\ posted'[w][k].do = "make" <=> k = 1 /\ m_file_map_local[w] = NoMap
        <5>1. CASE k \in 1 .. Len(posted[w])
          BY <1>0, <4>4, <5>1 DEF QueueServes
        <5>2. CASE k = Len(posted[w]) + 1
          BY <4>1, <4>2, <4>4, <5>2
        <5> QED
          BY <4>4, <5>1, <5>2
      <4> QED
        BY <2>1, <4>3, <4>4, <4>5 DEF QueueServes
    <3>4. CASE w # refresh.to
      <4>1. posted'[w] = posted[w]
        BY <1>0, <2>7, <3>1, <3>4, Appended, ServingFacts DEF PostsFile
      <4> QED
        BY <1>0, <2>1, <4>1 DEF QueueServes, Made
    <3> QED
      BY <3>3, <3>4
  <2> QED
    BY <1>2, <1>3, <2>1, <2>6, <2>7, RefreshMoves
<1>4. CASE RegisterIoService
  <2>1. /\ \A w \in Workers : Made(w)' <=> Made(w)
        /\ UNCHANGED <<posted, m_file_map_local>>
    BY <1>0, <1>4, Registers DEF Made
  <2>2. \A w \in Workers \ overlapped' : QueueServes(w)'
    BY <1>0, <2>1 DEF QueueServes
  <2>3. /\ refresh'.step = refresh.step /\ refresh'.i = refresh.i /\ refresh'.size = refresh.size
        /\ refresh'.to = refresh.to /\ (Updating' <=> Updating) /\ main'.worker = main.worker
        /\ Updating => main.worker \in overlapped'
        /\ overlapped \subseteq overlapped'
    BY <1>0, <1>4, Registers, OverlapStays DEF Updating, VectorChanges
  <2>4. PICK n \in Nat : /\ n = main.worker /\ m_iosvcs'.size = n
                        /\ m_iosvcs.size = n - 1 /\ n >= 1
    BY <1>0, <1>4, Registers
  <2>5. Updating => refresh.size <= n
    BY <1>0, <2>4, ServingFacts DEF VectorServes
  <2>6. ASSUME Updating, NEW w \in Workers, refresh.size < w, w <= n PROVE w \in overlapped'
    BY <1>0, <2>3, <2>4, <2>6 DEF VectorServes, Workers
  <2>7. VectorServes'
    BY <1>0, <2>3, <2>4, <2>5, <2>6 DEF VectorServes
  <2> QED
    BY <2>2, <2>7
<1>10. CASE PostMake
  <2>1. /\ main.phase = "starting" /\ ~Registering' /\ Post(main.worker, [do |-> "make"])
        /\ UNCHANGED <<refresh, m_file_map_local, m_iosvcs, overlapped>>
        /\ posted \in [Workers -> Seq(Lambdas)]
        /\ \A w \in Workers : Made(w)' <=> w <= main.worker
    BY <1>0, <1>10, Makes, ServingFacts
  <2>n. PICK m \in Workers : m = main.worker
    BY <1>0, <1>10, Makes
  <2>2. VectorServes'
    BY <1>0, <2>1 DEF VectorServes, Updating
  <2>3. ASSUME NEW w \in Workers \ overlapped', w # m PROVE QueueServes(w)'
    <3>1. posted'[w] = posted[w]
      BY <2>1, <2>3, <2>n, Appended
    <3>2. Made(w)' <=> Made(w)
      BY <2>1, <2>3, <2>n, FileAssumption DEF Made, Workers
    <3> QED
      BY <1>0, <2>1, <2>3, <3>1, <3>2 DEF QueueServes
  <2>4. ASSUME m \notin overlapped PROVE QueueServes(m)'
    <3>1. ~Made(m) /\ Made(m)'
      BY <2>1, <2>n, FileAssumption DEF Made, Workers
    <3>2. m_file_map_local[m] = NoMap /\ posted[m] = <<>>
      BY <1>0, <2>4, <3>1 DEF QueueServes
    <3>3. /\ DOMAIN posted'[m] = 1 .. 1 /\ posted'[m][1] = [do |-> "make"] /\ posted'[m] # <<>>
      BY <2>1, <2>n, <3>2, Appended
    <3> QED
      BY <2>1, <3>1, <3>2, <3>3 DEF QueueServes
  <2> QED
    BY <2>1, <2>2, <2>3, <2>4
<1>5. ASSUME NEW w \in Workers, RunPosted(w)
      PROVE  VectorServes' /\ \A v \in Workers \ overlapped' : QueueServes(v)'
  <2>1. /\ UNCHANGED <<m_iosvcs, main, refresh, overlapped>> /\ posted[w] # <<>> /\ posted' = [posted EXCEPT ![w] = Tail(@)]
        /\ posted \in [Workers -> Seq(Lambdas)]
    BY <1>5 DEF RunPosted, TypeInv, TypeOK
  <2>2. ASSUME NEW v \in Workers \ overlapped, v # w PROVE QueueServes(v)'
    <3>1. posted'[v] = posted[v] /\ m_file_map_local'[v] = m_file_map_local[v]
      BY <1>5, <2>2, RunsAlone
    <3> QED
      BY <1>0, <2>1, <2>2, <3>1 DEF QueueServes, Made
  <2>3. ASSUME w \notin overlapped PROVE m_file_map_local'[w] # NoMap
    <3>1. m_file_map_local'[w] \in [Files -> LoadedFile \cup {NoFile}]
      <4>1. EmptyMap \in [Files -> LoadedFile \cup {NoFile}]
        BY DEF EmptyMap
      <4>2. m_file_map_local[w] # NoMap => m_file_map_local[w] \in [Files -> LoadedFile \cup {NoFile}]
        BY DEF TypeInv, TypeOK
      <4>3. ASSUME m_file_map_local[w] # NoMap, NEW f \in Files, NEW file \in LoadedFile \cup {NoFile}
            PROVE  [m_file_map_local[w] EXCEPT ![f] = file] \in [Files -> LoadedFile \cup {NoFile}]
        BY <4>2, <4>3
      <4> QED
        <5>1. CASE m_file_map_local'[w] = EmptyMap
          BY <4>1, <5>1
        <5>2. CASE m_file_map_local'[w] # EmptyMap
          <6>1. /\ m_file_map_local[w] # NoMap /\ posted[w][1].name \in Files
                /\ posted[w][1].file \in LoadedFile \cup {NoFile}
                /\ m_file_map_local'[w] =
                     [m_file_map_local[w] EXCEPT ![posted[w][1].name] = posted[w][1].file]
            BY <1>0, <1>5, <2>3, <5>2, RunsLambda
          <6> QED
            BY <4>3, <6>1
        <5> QED
          BY <5>1, <5>2
    <3> QED
      BY <3>1, FileAssumption
  <2>4. ASSUME w \notin overlapped PROVE Made(w)'
    BY <1>0, <2>1, <2>4 DEF QueueServes, Made
  <2>5. ASSUME w \notin overlapped, NEW k \in DOMAIN posted'[w]
        PROVE  posted'[w][k].do \notin {"make", "reset"}
    <3>1. k \in Nat \ {0} /\ k + 1 \in DOMAIN posted[w] /\ posted'[w][k] = posted[w][k + 1]
      BY <2>1, <2>5, RanFirst
    <3> QED
      BY <1>0, <2>5, <3>1 DEF QueueServes
  <2>6. w \notin overlapped => QueueServes(w)'
    BY <2>3, <2>4, <2>5 DEF QueueServes
  <2> QED
    BY <1>1, <2>1, <2>2, <2>6
<1>6. ASSUME NEW w \in Workers, NEW f \in Files, CopyFromMain(w, f)
      PROVE  VectorServes' /\ \A v \in Workers \ overlapped' : QueueServes(v)'
  <2>1. /\ UNCHANGED <<m_iosvcs, main, refresh, posted, overlapped>>
        /\ \A v \in Workers \ {w} : m_file_map_local'[v] = m_file_map_local[v]
        /\ m_file_map_local[w] # NoMap /\ m_file_map_local'[w] \in [Files -> LoadedFile \cup {NoFile}]
    BY <1>6 DEF CopyFromMain, server, TypeInv, TypeOK
  <2>2. \A v \in Workers : m_file_map_local'[v] = NoMap <=> m_file_map_local[v] = NoMap
    BY <2>1, FileAssumption
  <2> QED
    BY <1>0, <1>1, <2>1, <2>2 DEF QueueServes, Made
<1>7. ASSUME NEW f \in Files, WriteFile(f) \/ DeleteFile(f) \/ StatThrows(f)
      PROVE  UNCHANGED <<m_iosvcs, main, refresh, m_file_map_local, posted>>
  BY <1>7 DEF WriteFile, DeleteFile, StatThrows, server
<1>8. CASE StopServer \/ Destroy \/ FollowsFreedPointer \/ UnregisterIoService \/ PostReset \/ Unregistered
  <2>1. ~RegisterIoService /\ ~PostMake => UNCHANGED <<m_iosvcs, main>>
    BY <1>0
  <2>2. main \in MainThread
    BY DEF TypeInv, TypeOK
  <2>3. CASE Destroy \/ FollowsFreedPointer
    BY <1>1, <1>2, <2>3 DEF Destroy, FollowsFreedPointer
  <2>4. CASE StopServer
    BY <2>2, <2>4 DEF StopServer, Serving, MainThread
  <2>5. CASE UnregisterIoService \/ PostReset \/ Unregistered
    BY <1>0, <2>5 DEF UnregisterIoService, PostReset, Unregistered, Serving
  <2> QED
    BY <1>8, <2>3, <2>4, <2>5
<1>9. CASE UNCHANGED vars
  BY <1>1, <1>2, <1>9 DEF vars, server
<1> QED
  BY <1>1, <1>2, <1>3, <1>4, <1>5, <1>6, <1>7, <1>8, <1>9, <1>10 DEF Next, Main

-----------------------------------------------------------------------------
(* Queues and maps of the workers while the server is stopped.             *)

\* The workers that got their reset.
Resets == CASE main.phase = "stopping" -> main.worker - (IF main.step = "wait" THEN 0 ELSE 1)
            [] main.phase = "stopped"  -> NumWorkers
            [] OTHER -> 0

\* An update goes to no erased worker but to those that were erased during it.
VectorStops ==
  /\ Updating => \A w \in Workers \ overlapped :
       w <= Erasures => ~refresh.stale /\ refresh.size + w <= NumWorkers
  /\ refresh.step = "post" /\ refresh.to <= Erasures => refresh.to \in overlapped

\* A posted update finds the map; so will one that is posted ahead of the reset.
Finds(w) ==
  /\ \A i \in DOMAIN posted[w] : posted[w][i].do = "update" =>
       /\ m_file_map_local[w] = NoMap => \E j \in 1 .. i - 1 : posted[w][j].do = "make"
       /\ \A j \in 1 .. i - 1 : posted[w][j].do # "reset"
  /\ w > Resets =>
       /\ \A i \in DOMAIN posted[w] : posted[w][i].do # "reset"
       /\ m_file_map_local[w] = NoMap => \E i \in DOMAIN posted[w] : posted[w][i].do = "make"

StopInv == ~Serving => VectorStops /\ \A w \in Workers \ overlapped : Finds(w)

LEMMA StopFacts ==
  ASSUME TypeInv, ~Serving
  PROVE  /\ main \in MainThread /\ main.phase \in {"stopping", "stopped"} /\ main.worker \in 1 .. NumWorkers
         /\ NumWorkers \in Nat \ {0} /\ Erasures \in 0 .. NumWorkers /\ Resets \in 0 .. Erasures
         /\ m_iosvcs.size = NumWorkers - Erasures /\ ~Registering
         /\ refresh.i \in Nat \ {0} /\ refresh.size \in 0 .. NumWorkers
         /\ refresh.size <= NumWorkers
         /\ \A j \in 1 .. NumWorkers :
              m_iosvcs.memory[j] = IF Erasures + j <= NumWorkers THEN Erasures + j ELSE NumWorkers
         /\ posted \in [Workers -> Seq(Lambdas)]
         /\ m_file_map_local \in [Workers -> [Files -> LoadedFile \cup {NoFile}] \cup {NoMap}]
<1>1. /\ main \in MainThread /\ main.worker \in 1 .. NumWorkers /\ NumWorkers \in Nat \ {0}
      /\ Erasures \in 0 .. NumWorkers /\ m_iosvcs.size = Pushed - Erasures
  BY Counts
<1>2. main.phase \in {"stopping", "stopped"} /\ main.step \in {"next", "post", "wait"}
  BY <1>1 DEF MainThread, Serving
<1>3. Pushed = NumWorkers /\ ~Registering
  BY <1>2 DEF Pushed, Registering
<1>4. Resets \in 0 .. Erasures
  BY <1>1, <1>2 DEF Resets, Erasures
<1>5. \A j \in 1 .. NumWorkers :
        m_iosvcs.memory[j] = IF Erasures + j <= NumWorkers THEN Erasures + j ELSE NumWorkers
  BY <1>3 DEF TypeInv, VectorInv
<1>6. /\ refresh.i \in Nat \ {0} /\ refresh.size \in 0 .. NumWorkers
      /\ posted \in [Workers -> Seq(Lambdas)]
      /\ m_file_map_local \in [Workers -> [Files -> LoadedFile \cup {NoFile}] \cup {NoMap}]
  BY FileAssumption DEF TypeInv, TypeOK, RefreshThread
<1> QED
  BY <1>1, <1>2, <1>3, <1>4, <1>5, <1>6

\* A step that leaves worker w's queue alone and neither makes nor resets its map.
LEMMA StillFinds ==
  ASSUME NEW w, Finds(w), posted'[w] = posted[w], Resets' = Resets,
         m_file_map_local'[w] = NoMap <=> m_file_map_local[w] = NoMap
  PROVE  Finds(w)'
BY DEF Finds

\* A lambda is posted behind the others.
LEMMA FindsPosted ==
  ASSUME posted \in [Workers -> Seq(Lambdas)], NEW w \in Workers, NEW l, Post(w, l),
         UNCHANGED m_file_map_local, Finds(w), w > Resets,
         \/ l.do = "update" /\ Resets' = Resets
         \/ l.do = "reset" /\ ~(w > Resets')
  PROVE  Finds(w)'
<1>1. /\ Len(posted[w]) \in Nat /\ DOMAIN posted[w] = 1 .. Len(posted[w])
      /\ DOMAIN posted'[w] = 1 .. Len(posted[w]) + 1
      /\ \A k \in 1 .. Len(posted[w]) : posted'[w][k] = posted[w][k]
      /\ posted'[w][Len(posted[w]) + 1] = l
  BY Appended
<1>2. PICK n \in Nat : n = Len(posted[w])
  BY <1>1
<1>3. ASSUME NEW i \in DOMAIN posted'[w], posted'[w][i].do = "update"
      PROVE  /\ m_file_map_local'[w] = NoMap => \E j \in 1 .. i - 1 : posted'[w][j].do = "make"
             /\ \A j \in 1 .. i - 1 : posted'[w][j].do # "reset"
  <2>1. CASE i \in 1 .. n
    <3>1. \A j \in 1 .. i - 1 : j \in 1 .. n /\ posted'[w][j] = posted[w][j]
      BY <1>1, <1>2, <2>1
    <3>2. posted[w][i].do = "update" /\ i \in DOMAIN posted[w]
      BY <1>1, <1>2, <1>3, <2>1
    <3> QED
      BY <3>1, <3>2 DEF Finds
  <2>2. CASE i = n + 1
    <3>1. \A j \in 1 .. n : j \in 1 .. i - 1
      BY <2>2
    <3>2. \A j \in 1 .. i - 1 : j \in 1 .. n
      BY <2>2
    <3> QED
      BY <1>1, <1>2, <3>1, <3>2 DEF Finds
  <2> QED
    BY <1>1, <1>2, <2>1, <2>2
<1>4. ASSUME w > Resets'
      PROVE  /\ \A i \in DOMAIN posted'[w] : posted'[w][i].do # "reset"
             /\ m_file_map_local'[w] = NoMap => \E i \in DOMAIN posted'[w] : posted'[w][i].do = "make"
  <2>1. l.do = "update"
    BY <1>4
  <2>2. 1 .. n + 1 = (1 .. n) \cup {n + 1}
    OBVIOUS
  <2> QED
    BY <1>1, <1>2, <2>1, <2>2 DEF Finds
<1> QED
  BY <1>3, <1>4 DEF Finds

\* The first lambda runs.
LEMMA FindsRun ==
  ASSUME TypeInv, NEW w \in Workers, RunPosted(w), Finds(w), Resets' = Resets
  PROVE  Finds(w)'
<1>1. /\ posted \in [Workers -> Seq(Lambdas)] /\ posted[w] # <<>> /\ posted' = [posted EXCEPT ![w] = Tail(@)]
      /\ m_file_map_local \in [Workers -> [Files -> LoadedFile \cup {NoFile}] \cup {NoMap}]
  BY DEF RunPosted, TypeInv, TypeOK
<1>2. PICK n \in Nat \ {0} : n = Len(posted[w])
  BY <1>1, RanFirst
<1>3. /\ DOMAIN posted[w] = 1 .. n /\ DOMAIN posted'[w] = 1 .. n - 1
      /\ \A k \in 1 .. n - 1 : posted'[w][k] = posted[w][k + 1]
      /\ Head(posted[w]) = posted[w][1] /\ posted[w][1] \in Lambdas
  BY <1>1, <1>2, RanFirst
<1>4. PICK l \in Lambdas : l = posted[w][1]
  BY <1>3
<1>5. /\ IF l.do = "update" /\ m_file_map_local[w] = NoMap
           THEN crashed' = TRUE /\ UNCHANGED m_file_map_local
           ELSE /\ m_file_map_local' = [m_file_map_local EXCEPT ![w] =
                     CASE l.do = "make"   -> EmptyMap
                       [] l.do = "reset"  -> NoMap
                       [] l.do = "update" -> Updated(@, l)]
                /\ UNCHANGED crashed
  BY <1>3, <1>4 DEF RunPosted
<1>6. l.do \in {"make", "reset", "update"} /\ 1 \in 1 .. n
  BY <1>4 DEF Lambdas
<1>7. l.do # "reset" => m_file_map_local'[w] # NoMap
  <2>1. CASE l.do = "make"
    <3>1. EmptyMap \in [Files -> LoadedFile \cup {NoFile}]
      BY DEF EmptyMap
    <3>2. m_file_map_local'[w] = EmptyMap
      BY <1>1, <1>5, <2>1
    <3> QED
      BY <3>1, <3>2, FileAssumption
  <2>2. CASE l.do = "update"
    <3>1. m_file_map_local[w] # NoMap
      BY <1>3, <1>4, <1>6, <2>2 DEF Finds
    <3>2. m_file_map_local'[w] = Updated(m_file_map_local[w], l)
      BY <1>1, <1>5, <2>2, <3>1
    <3>3. l.file \in LoadedFile \cup {NoFile}
      BY <1>4, <2>2 DEF Lambdas
    <3>4. Updated(m_file_map_local[w], l) \in [Files -> LoadedFile \cup {NoFile}]
      BY <1>1, <3>1, <3>3 DEF Updated
    <3> QED
      BY <3>2, <3>4, FileAssumption
  <2> QED
    BY <1>6, <2>1, <2>2
<1>8. ASSUME NEW i \in 1 .. n - 1 PROVE i + 1 \in 1 .. n /\ posted'[w][i] = posted[w][i + 1]
  BY <1>3
<1>9. ASSUME NEW i \in 1 .. n - 1, posted'[w][i].do = "update"
      PROVE  /\ l.do # "reset"
             /\ \A j \in 1 .. i - 1 : posted'[w][j].do # "reset"
  <2>1. i + 1 \in 1 .. n /\ posted[w][i + 1].do = "update" /\ (i + 1) - 1 = i /\ 1 \in 1 .. i
    BY <1>8, <1>9
  <2>2. \A j \in 1 .. i : posted[w][j].do # "reset"
    BY <1>3, <2>1 DEF Finds
  <2>3. \A j \in 1 .. i - 1 : j \in 1 .. n - 1 /\ j + 1 \in 1 .. i
    OBVIOUS
  <2> QED
    BY <1>4, <1>8, <2>1, <2>2, <2>3
<1>10. ASSUME w > Resets PROVE l.do # "reset" /\ \A i \in 1 .. n - 1 : posted'[w][i].do # "reset"
  BY <1>3, <1>4, <1>6, <1>8, <1>10 DEF Finds
<1> QED
  BY <1>3, <1>7, <1>9, <1>10 DEF Finds

LEMMA StopStep ==
  TypeInv /\ ServingInv /\ StopInv /\ [Next]_vars => StopInv'
<1> SUFFICES ASSUME TypeInv, ServingInv, StopInv, [Next]_vars, ~Serving'
             PROVE  VectorStops' /\ \A w \in Workers \ overlapped' : Finds(w)'
  BY DEF StopInv
<1>0. overlapped \subseteq overlapped'
  BY OverlapStays
<1>same. ASSUME ~Serving, UNCHANGED <<main, posted, m_file_map_local>>
      PROVE  \A w \in Workers \ overlapped' : Finds(w)'
  <2>1. Resets' = Resets
    BY <1>same DEF Resets
  <2> QED
    BY <1>0, <1>same, <2>1, StillFinds DEF StopInv
<1>vector. ASSUME ~Serving, Erasures' = Erasures, UNCHANGED refresh PROVE VectorStops'
  BY <1>0, <1>vector DEF StopInv, VectorStops, Updating
<1>1. CASE Refresh
  <2>1. UNCHANGED <<m_file_map_local, m_iosvcs, main>> /\ ~Serving
    BY <1>1, RefreshMoves DEF server, Serving
  <2>2. Erasures' = Erasures /\ Resets' = Resets /\ VectorStops
    BY <2>1 DEF Erasures, Resets, StopInv
  <2>3. ASSUME SameFile \/ DropsFile \/ StoresFile \/ \E f \in Files : StatsFile(f) PROVE VectorStops'
    BY <1>0, <2>2, <2>3 DEF SameFile, DropsFile, StoresFile, StatsFile, VectorStops, Updating
  <2>4. ASSUME LoadsFile \/ \E f \in Files : RemovesFile(f) PROVE VectorStops'
    <3>1. /\ refresh'.step = "each" /\ refresh'.size = m_iosvcs.size /\ ~refresh'.stale
      BY <2>4 DEF LoadsFile, RemovesFile, StartsPosts
    <3>2. PICK e \in 0 .. NumWorkers : e = Erasures /\ m_iosvcs.size = NumWorkers - e /\ NumWorkers \in Nat
      BY <2>1, StopFacts
    <3>3. \A w \in Workers : w <= e => (NumWorkers - e) + w <= NumWorkers
      BY <3>2 DEF Workers
    <3> QED
      BY <2>2, <3>1, <3>2, <3>3 DEF VectorStops
  <2>5. ASSUME TakesIoService PROVE VectorStops'
    <3>1. /\ refresh.step = "each" /\ refresh.i <= refresh.size /\ refresh'.step = "post"
          /\ refresh'.to = IF refresh.stale THEN refresh.i ELSE m_iosvcs.memory[refresh.i]
          /\ refresh'.size = refresh.size /\ refresh'.stale = refresh.stale
      BY <2>5 DEF TakesIoService
    <3>2. PICK e \in 0 .. NumWorkers : e = Erasures
      BY <2>1, StopFacts
    <3>i. /\ refresh.i \in Nat \ {0} /\ refresh.size \in 0 .. NumWorkers
          /\ NumWorkers \in Nat \ {0}
      BY <2>1, StopFacts
    <3>n. refresh.i \in 1 .. NumWorkers
      BY <3>1, <3>i
    <3>3. PICK i \in 1 .. NumWorkers : i = refresh.i /\ NumWorkers \in Nat \ {0} /\ i <= refresh.size
                                       /\ refresh.size \in Nat
      BY <3>1, <3>i, <3>n
    <3>4. m_iosvcs.memory[i] = IF e + i <= NumWorkers THEN e + i ELSE NumWorkers
      BY <2>1, <3>2, <3>3, StopFacts
    <3>5. \A w \in Workers \ overlapped : w <= e => ~refresh.stale /\ refresh.size + w <= NumWorkers
      BY <2>2, <3>1, <3>2 DEF VectorStops, Updating
    <3>6. PICK to : to = refresh'.to
      OBVIOUS
    <3>7. to \in Workers
      BY <3>1, <3>3, <3>4, <3>6, <3>2 DEF Workers
    <3>8. ASSUME to <= e PROVE to \in overlapped
      <4>1. CASE refresh.stale
        BY <3>5, <3>7, <3>8, <4>1
      <4>2. CASE ~refresh.stale
        <5>1. to = NumWorkers
          BY <3>1, <3>2, <3>3, <3>4, <3>6, <3>8, <4>2
        <5>2. ~(refresh.size + to <= NumWorkers)
          BY <3>3, <5>1
        <5> QED
          BY <3>5, <3>7, <3>8, <5>2
      <4> QED
        BY <4>1, <4>2
    <3> QED
      BY <1>0, <2>2, <3>1, <3>2, <3>5, <3>6, <3>8 DEF VectorStops
  <2>6. ASSUME PostsFile PROVE VectorStops'
    BY <1>0, <2>2, <2>6 DEF PostsFile, VectorStops, Updating
  <2>7. VectorStops'
    BY <1>1, <2>3, <2>4, <2>5, <2>6, RefreshMoves
  <2>8. ASSUME PostsFile, NEW w \in Workers \ overlapped' PROVE Finds(w)'
    <3>0. posted \in [Workers -> Seq(Lambdas)] /\ Erasures \in Nat /\ Resets \in 0 .. Erasures
      BY <2>1, StopFacts
    <3>1. /\ posted \in [Workers -> Seq(Lambdas)] /\ Erasures \in Nat /\ Resets \in 0 .. Erasures
          /\ Finds(w) /\ w \notin overlapped /\ w \in Nat
      BY <1>0, <2>1, <3>0 DEF StopInv, Workers
    <3>l. PICK l : l = [do |-> "update", name |-> refresh.name, file |-> refresh.file]
      OBVIOUS
    <3>2. Post(refresh.to, l) /\ l.do = "update" /\ refresh.step = "post" /\ refresh.to \in Workers
      BY <2>8, <3>l DEF PostsFile, TypeInv, LoopInv
    <3>3. CASE w = refresh.to
      <4>1. w > Resets
        BY <2>2, <3>1, <3>2, <3>3 DEF VectorStops
      <4> QED
        BY <2>1, <2>2, <3>1, <3>2, <3>3, <4>1, FindsPosted
    <3>4. CASE w # refresh.to
      <4>1. posted'[w] = posted[w]
        BY <3>1, <3>2, <3>4, Appended
      <4> QED
        BY <2>1, <2>2, <3>1, <4>1, StillFinds
    <3> QED
      BY <3>3, <3>4
  <2> QED
    BY <1>1, <1>same, <2>1, <2>7, <2>8, RefreshMoves
<1>2. CASE UnregisterIoService
  <2>1. /\ main.phase = "stopping" /\ main.step = "next" /\ main' = [main EXCEPT !.step = "post"]
        /\ VectorChanges /\ UNCHANGED <<posted, m_file_map_local, refresh>> /\ ~Serving
    BY <1>2 DEF UnregisterIoService, Serving
  <2>2. PICK m \in 1 .. NumWorkers : m = main.worker /\ main \in MainThread /\ NumWorkers \in Nat
    BY <2>1, StopFacts
  <2>3. main'.phase = "stopping" /\ main'.step = "post" /\ main'.worker = m
    BY <2>1, <2>2 DEF MainThread
  <2>4. Erasures = m - 1 /\ Erasures' = m /\ Resets = m - 1 /\ Resets' = m - 1
    BY <2>1, <2>2, <2>3 DEF Erasures, Resets
  <2>5. Updating => m \in overlapped'
    BY <2>1, <2>2 DEF VectorChanges
  <2>6. refresh.step = "post" => refresh.to \in Workers /\ Updating
    BY DEF TypeInv, LoopInv, Updating
  <2>7. \A w \in Workers : w <= m => w <= m - 1 \/ w = m
    BY <2>2 DEF Workers
  <2>8. VectorStops'
    BY <1>0, <2>1, <2>4, <2>5, <2>6, <2>7 DEF StopInv, VectorStops, Updating
  <2>9. \A w \in Workers \ overlapped' : Finds(w)'
    BY <1>0, <2>1, <2>4, StillFinds DEF StopInv
  <2> QED
    BY <2>8, <2>9
<1>3. CASE PostReset
  <2> DEFINE l == [do |-> "reset"]
  <2>1. /\ main.phase = "stopping" /\ main.step = "post" /\ main' = [main EXCEPT !.step = "wait"]
        /\ Post(main.worker, l) /\ l.do = "reset"
        /\ UNCHANGED <<m_file_map_local, refresh>> /\ ~Serving
    BY <1>3 DEF PostReset, Serving
  <2> HIDE DEF l
  <2>2. PICK m \in Workers : m = main.worker /\ main \in MainThread /\ m \in Nat
    BY <2>1, StopFacts DEF Workers
  <2>3. main'.phase = "stopping" /\ main'.step = "wait" /\ main'.worker = m
    BY <2>1, <2>2 DEF MainThread
  <2>4. Erasures = m /\ Erasures' = m /\ Resets = m - 1 /\ Resets' = m
    BY <2>1, <2>2, <2>3 DEF Erasures, Resets
  <2>5. posted \in [Workers -> Seq(Lambdas)]
    BY <2>1, StopFacts
  <2>6. ASSUME NEW w \in Workers \ overlapped' PROVE Finds(w)'
    <3>1. Finds(w) /\ w \in Nat
      BY <1>0, <2>1 DEF StopInv, Workers
    <3>2. CASE w = m
      BY <2>1, <2>2, <2>4, <2>5, <3>1, <3>2, FindsPosted
    <3>3. CASE w # m
      <4>1. posted'[w] = posted[w]
        BY <2>1, <2>2, <2>5, <3>3, Appended
      <4>2. w > Resets' => w > Resets
        BY <2>2, <2>4, <3>1
      <4> QED
        BY <2>1, <3>1, <4>1, <4>2 DEF Finds
    <3> QED
      BY <3>2, <3>3
  <2> QED
    BY <1>vector, <2>1, <2>4, <2>6
<1>4. CASE Unregistered
  <2>1. /\ main.phase = "stopping" /\ main.step = "wait" /\ NextWorker("stopped")
        /\ UNCHANGED <<posted, m_file_map_local, refresh>> /\ ~Serving
    BY <1>4 DEF Unregistered, Serving
  <2>2. PICK m \in 1 .. NumWorkers : m = main.worker /\ main \in MainThread /\ NumWorkers \in Nat
    BY <2>1, StopFacts
  <2>3. Erasures' = m /\ Resets' = m
    <3>1. CASE m < NumWorkers
      <4>1. main' = [main EXCEPT !.worker = @ + 1, !.step = "next"]
        BY <2>1, <2>2, <3>1 DEF NextWorker
      <4>2. main'.phase = "stopping" /\ main'.worker = m + 1 /\ main'.step = "next"
        BY <2>1, <2>2, <4>1 DEF MainThread
      <4> QED
        BY <2>2, <4>2 DEF Erasures, Resets
    <3>2. CASE ~(m < NumWorkers)
      <4>1. main'.phase = "stopped" /\ m = NumWorkers
        BY <2>1, <2>2, <3>2 DEF NextWorker
      <4> QED
        BY <4>1 DEF Erasures, Resets
    <3> QED
      BY <3>1, <3>2
  <2>4. Erasures = m /\ Resets = m
    BY <2>1, <2>2 DEF Erasures, Resets
  <2>5. \A w \in Workers \ overlapped' : Finds(w)'
    BY <1>0, <2>1, <2>3, <2>4, StillFinds DEF StopInv
  <2> QED
    BY <1>vector, <2>1, <2>3, <2>4, <2>5
<1>5. CASE StopServer
  <2>1. /\ main.phase = "serving" /\ main' = [main EXCEPT !.phase = "stopping"] /\ Serving
        /\ UNCHANGED <<posted, m_file_map_local, refresh>>
    BY <1>5 DEF StopServer, Serving
  <2>2. main \in MainThread /\ main.worker = 1 /\ main.step = "next"
    BY <2>1 DEF TypeInv, TypeOK, VectorInv
  <2>3. main'.phase = "stopping" /\ main'.worker = 1 /\ main'.step = "next"
    BY <2>1, <2>2 DEF MainThread
  <2>4. Erasures' = 0 /\ Resets' = 0
    BY <2>3 DEF Erasures, Resets
  <2>5. \A w \in Workers : w \in Nat /\ ~(w <= 0)
    BY DEF Workers
  <2>6. VectorStops'
    BY <2>1, <2>4, <2>5 DEF VectorStops, TypeInv, LoopInv
  <2>7. ASSUME NEW w \in Workers \ overlapped' PROVE Finds(w)'
    <3>1. QueueServes(w) /\ Made(w)
      BY <1>0, <2>1 DEF ServingInv, Made
    <3>2. posted[w] \in Seq(Lambdas)
      BY DEF TypeInv, TypeOK
    <3>3. /\ DOMAIN posted[w] = 1 .. Len(posted[w]) /\ Len(posted[w]) \in Nat
          /\ posted[w] # <<>> => 1 \in DOMAIN posted[w]
      BY <3>2
    <3>4. m_file_map_local[w] = NoMap => 1 \in DOMAIN posted[w] /\ posted[w][1].do = "make"
      BY <3>1, <3>3 DEF QueueServes
    <3>5. \A i \in DOMAIN posted[w] : posted[w][i].do # "reset"
      BY <3>1 DEF QueueServes
    <3>6. ASSUME NEW i \in DOMAIN posted[w], posted[w][i].do = "update"
          PROVE  /\ m_file_map_local[w] = NoMap => \E j \in 1 .. i - 1 : posted[w][j].do = "make"
                 /\ \A j \in 1 .. i - 1 : posted[w][j].do # "reset"
      <4>1. i \in 1 .. Len(posted[w]) /\ \A j \in 1 .. i - 1 : j \in DOMAIN posted[w]
        BY <3>3
      <4>2. m_file_map_local[w] = NoMap => i # 1 /\ 1 \in 1 .. i - 1
        BY <3>3, <3>4, <3>6, <4>1
      <4> QED
        BY <3>4, <3>5, <4>1, <4>2
    <3>7. posted'[w] = posted[w] /\ m_file_map_local'[w] = m_file_map_local[w]
      BY <2>1
    <3> QED
      BY <3>4, <3>5, <3>6, <3>7 DEF Finds
  <2> QED
    BY <2>6, <2>7
<1>6. ASSUME NEW v \in Workers, RunPosted(v)
      PROVE  VectorStops' /\ \A w \in Workers \ overlapped' : Finds(w)'
  <2>1. UNCHANGED <<main, refresh, overlapped>> /\ ~Serving
    BY <1>6 DEF RunPosted, Serving
  <2>2. Erasures' = Erasures /\ Resets' = Resets
    BY <2>1 DEF Erasures, Resets
  <2>3. ASSUME NEW w \in Workers \ overlapped' PROVE Finds(w)'
    <3>1. Finds(w)
      BY <1>0, <2>1 DEF StopInv
    <3>2. CASE w = v
      BY <1>6, <2>2, <3>1, <3>2, FindsRun
    <3>3. CASE w # v
      <4>1. posted'[w] = posted[w] /\ m_file_map_local'[w] = m_file_map_local[w]
        BY <1>6, <3>3, RunsAlone
      <4> QED
        BY <2>2, <3>1, <4>1, StillFinds
    <3> QED
      BY <3>2, <3>3
  <2> QED
    BY <1>vector, <2>1, <2>2, <2>3
<1>7. ASSUME NEW v \in Workers, NEW f \in Files, CopyFromMain(v, f)
      PROVE  VectorStops' /\ \A w \in Workers \ overlapped' : Finds(w)'
  <2>1. /\ UNCHANGED <<main, refresh, posted, overlapped>> /\ ~Serving
        /\ \A w \in Workers \ {v} : m_file_map_local'[w] = m_file_map_local[w]
        /\ m_file_map_local[v] # NoMap /\ m_file_map_local'[v] \in [Files -> LoadedFile \cup {NoFile}]
    BY <1>7 DEF CopyFromMain, server, TypeInv, TypeOK, Serving
  <2>2. Erasures' = Erasures /\ Resets' = Resets
    BY <2>1 DEF Erasures, Resets
  <2>3. \A w \in Workers : m_file_map_local'[w] = NoMap <=> m_file_map_local[w] = NoMap
    BY <2>1, FileAssumption
  <2>4. \A w \in Workers \ overlapped' : Finds(w)'
    BY <1>0, <2>1, <2>2, <2>3, StillFinds DEF StopInv
  <2> QED
    BY <1>vector, <2>1, <2>2, <2>4
<1>8. ASSUME UNCHANGED <<main, refresh, posted, m_file_map_local>>
      PROVE  VectorStops' /\ \A w \in Workers \ overlapped' : Finds(w)'
  <2>1. ~Serving /\ Erasures' = Erasures
    BY <1>8 DEF Serving, Erasures
  <2> QED
    BY <1>8, <1>same, <1>vector, <2>1
<1>9. ASSUME NEW f \in Files, WriteFile(f) \/ DeleteFile(f) \/ StatThrows(f)
      PROVE  UNCHANGED <<main, refresh, posted, m_file_map_local>>
  BY <1>9 DEF WriteFile, DeleteFile, StatThrows, server
<1>10. CASE Destroy \/ FollowsFreedPointer \/ UNCHANGED vars
  BY <1>8, <1>10 DEF Destroy, FollowsFreedPointer, vars, server
<1>11. CASE RegisterIoService \/ PostMake
  <2>1. main.phase = "starting" /\ main \in MainThread
    BY <1>11 DEF RegisterIoService, PostMake, Registering, TypeInv, TypeOK
  <2>2. main'.phase \in {"starting", "serving"}
    <3>1. CASE RegisterIoService
      BY <2>1, <3>1 DEF RegisterIoService, MainThread
    <3>2. CASE PostMake
      BY <2>1, <3>2 DEF PostMake, NextWorker, MainThread
    <3> QED
      BY <1>11, <3>1, <3>2
  <2> QED
    BY <2>2 DEF Serving
<1> QED
  BY <1>1, <1>2, <1>3, <1>4, <1>5, <1>6, <1>7, <1>8, <1>9, <1>10, <1>11 DEF Next, Main

\* A posted update finds its map, in all phases of the server's life.
LEMMA UpdatesFind == TypeInv /\ ServingInv /\ StopInv => UpdatesFindMap
<1> SUFFICES ASSUME TypeInv, ServingInv, StopInv, NEW w \in Workers \ overlapped,
                    NEW i \in DOMAIN posted[w], posted[w][i].do = "update"
             PROVE  /\ m_file_map_local[w] = NoMap => \E j \in 1 .. i - 1 : posted[w][j].do = "make"
                    /\ \A j \in 1 .. i - 1 : posted[w][j].do # "reset"
  BY DEF UpdatesFindMap
<1>1. CASE ~Serving
  BY <1>1 DEF StopInv, Finds
<1>2. CASE Serving
  <2>1. QueueServes(w) /\ posted[w] \in Seq(Lambdas)
    BY <1>2 DEF ServingInv, TypeInv, TypeOK
  <2>2. /\ Len(posted[w]) \in Nat /\ DOMAIN posted[w] = 1 .. Len(posted[w])
        /\ i \in Nat /\ 1 <= i /\ 1 \in DOMAIN posted[w] /\ i <= Len(posted[w])
    BY <2>1
  <2>3. m_file_map_local[w] = NoMap => posted[w][1].do = "make" /\ i # 1
    BY <2>1, <2>2 DEF QueueServes
  <2>4. \A j \in 1 .. i - 1 : j \in DOMAIN posted[w]
    BY <2>2
  <2> QED
    BY <2>1, <2>2, <2>3, <2>4 DEF QueueServes
<1> QED
  BY <1>1, <1>2

-----------------------------------------------------------------------------
(* What waits in the queue of worker w for file f, and what w's map will    *)
(* have for it.                                                             *)

Removing(f) == Updating /\ refresh.name = f /\ refresh.file = NoFile
Loading(f)  == Updating /\ refresh.name = f /\ refresh.file # NoFile

Last(w, f, k) == k \in Waiting(w, f) /\ \A j \in Waiting(w, f) : j <= k

WillHave(w, f, x) ==
  \/ Waiting(w, f) = {} /\ x = Local(w, f)
  \/ \E k \in Waiting(w, f) : Last(w, f, k) /\ x = posted[w][k].file

\* A worker to which the file in hand was posted will have it; and every worker
\* will have what the main map has, unless the file is just being removed.
Agrees(w, f) ==
  /\ Waiting(w, f) # {} => \E k \in Waiting(w, f) : Last(w, f, k)
  /\ \A x : WillHave(w, f, x) =>
       /\ Loading(f) /\ w < refresh.i => x = refresh.file
       /\ m_file_map[f] # NoFile =>
            /\ x = NoFile \/ x = m_file_map[f] \/ (Loading(f) /\ x = refresh.file)
            /\ x = NoFile /\ Waiting(w, f) # {} => Removing(f)

AgreeInv == Serving => \A w \in Workers \ overlapped, f \in Files : Agrees(w, f)

\* A step that changes nothing of what worker w will have.
LEMMA KeepsAgreeing ==
  ASSUME NEW w, NEW f, Agrees(w, f),
         Waiting(w, f)' = Waiting(w, f), Local(w, f)' = Local(w, f),
         \A k \in Waiting(w, f) : posted'[w][k].file = posted[w][k].file,
         m_file_map'[f] = m_file_map[f],
         Loading(f)' /\ w < refresh'.i => Loading(f) /\ w < refresh.i /\ refresh'.file = refresh.file,
         m_file_map[f] # NoFile =>
           /\ Loading(f) => Loading(f)' /\ refresh'.file = refresh.file
           /\ Removing(f) => Removing(f)'
  PROVE  Agrees(w, f)'
<1>1. \A k : Last(w, f, k)' <=> Last(w, f, k)
  BY DEF Last
<1>2. \A x : WillHave(w, f, x)' <=> WillHave(w, f, x)
  BY <1>1 DEF WillHave, Last
<1> QED
  BY <1>1, <1>2 DEF Agrees

\* What is posted behind an update that waits, or in front of it, does not matter.
LEMMA PostedOther ==
  ASSUME posted \in [Workers -> Seq(Lambdas)], NEW w \in Workers, NEW f, NEW v \in Workers, NEW l,
         Post(v, l), v # w \/ l.do # "update" \/ l.name # f
  PROVE  /\ Waiting(w, f)' = Waiting(w, f)
         /\ \A k \in Waiting(w, f) : posted'[w][k].file = posted[w][k].file
<1>1. CASE v # w
  BY <1>1, Appended DEF Waiting
<1>2. CASE v = w
  BY <1>2, Appended DEF Waiting
<1> QED
  BY <1>1, <1>2

LEMMA PostedLast ==
  ASSUME posted \in [Workers -> Seq(Lambdas)], NEW w \in Workers, NEW f, NEW l,
         Post(w, l), l.do = "update", l.name = f
  PROVE  /\ Len(posted[w]) + 1 \in Nat
         /\ Waiting(w, f)' = Waiting(w, f) \cup {Len(posted[w]) + 1}
         /\ \A k \in Waiting(w, f) : /\ k \in Nat /\ k < Len(posted[w]) + 1
                                     /\ posted'[w][k] = posted[w][k]
         /\ posted'[w][Len(posted[w]) + 1] = l /\ Len(posted[w]) + 1 \notin Waiting(w, f)
<1> DEFINE n == Len(posted[w]) + 1
<1>1. /\ n \in Nat \ {0} /\ DOMAIN posted[w] = 1 .. n - 1 /\ DOMAIN posted'[w] = 1 .. n
      /\ \A k \in 1 .. n - 1 : posted'[w][k] = posted[w][k]
      /\ posted'[w][n] = l
  BY SMTT(20), Appended
<1>2. PICK m \in Nat \ {0} : m = n
  BY <1>1
<1> HIDE DEF n
<1>3. /\ Waiting(w, f)' = Waiting(w, f) \cup {m}
      /\ \A k \in Waiting(w, f) : k \in Nat /\ k < m /\ posted'[w][k] = posted[w][k]
      /\ posted'[w][m] = l /\ m \notin Waiting(w, f)
  <2>1. 1 .. m = (1 .. m - 1) \cup {m} /\ m \notin 1 .. m - 1 /\ m # 0
    BY <1>1, <1>2
  <2>2. ASSUME NEW k PROVE k \in Waiting(w, f)' <=> k \in Waiting(w, f) \/ k = m
    BY <1>1, <1>2, <2>1 DEF Waiting
  <2> QED
    BY <1>1, <1>2, <2>1, <2>2 DEF Waiting
<1> QED
  BY <1>2, <1>3 DEF n

LEMMA RanWaiting ==
  ASSUME posted \in [Workers -> Seq(Lambdas)], NEW w \in Workers, posted[w] # <<>>,
         posted' = [posted EXCEPT ![w] = Tail(@)], NEW f
  PROVE  /\ \A k : k \in Waiting(w, f)' <=> k \in Nat \ {0} /\ k + 1 \in Waiting(w, f)
         /\ \A k \in Waiting(w, f)' : posted'[w][k] = posted[w][k + 1]
         /\ \A k \in Waiting(w, f) : k \in Nat \ {0}
         /\ 1 \in Waiting(w, f) <=> posted[w][1].do = "update" /\ posted[w][1].name = f
<1>1. /\ Len(posted[w]) \in Nat \ {0} /\ DOMAIN posted[w] = 1 .. Len(posted[w])
      /\ DOMAIN posted'[w] = 1 .. Len(posted[w]) - 1
      /\ \A k \in 1 .. Len(posted[w]) - 1 : posted'[w][k] = posted[w][k + 1]
  BY RanFirst
<1>2. PICK n \in Nat : n = Len(posted[w])
  BY <1>1
<1>3. ASSUME NEW k PROVE k \in Waiting(w, f)' <=> k \in Nat \ {0} /\ k + 1 \in Waiting(w, f)
  <2>1. k \in 1 .. n - 1 <=> k \in Nat \ {0} /\ k + 1 \in 1 .. n
    BY <1>1, <1>2
  <2> QED
    BY <1>1, <1>2, <2>1 DEF Waiting
<1> QED
  BY <1>1, <1>2, <1>3 DEF Waiting

\* The map of a worker for one file, when a lambda runs and when a lookup copies.
LEMMA RanLocal ==
  ASSUME TypeInv, ServingInv, Serving, NEW w \in Workers \ overlapped, RunPosted(w), NEW f \in Files
  PROVE  Local(w, f)' = IF posted[w][1].do = "update" /\ posted[w][1].name = f
                          THEN posted[w][1].file ELSE Local(w, f)
<1>1. m_file_map_local \in [Workers -> [Files -> LoadedFile \cup {NoFile}] \cup {NoMap}]
  BY DEF TypeInv, TypeOK
<1>2. CASE /\ posted[w][1].do = "make" /\ m_file_map_local[w] = NoMap
           /\ m_file_map_local'[w] = EmptyMap
  BY <1>2 DEF Local, EmptyMap
<1>3. CASE /\ posted[w][1].do = "update" /\ m_file_map_local[w] # NoMap
           /\ posted[w][1].name \in Files /\ posted[w][1].file \in LoadedFile \cup {NoFile}
           /\ m_file_map_local'[w] =
                [m_file_map_local[w] EXCEPT ![posted[w][1].name] = posted[w][1].file]
  <2>1. m_file_map_local[w] \in [Files -> LoadedFile \cup {NoFile}]
    BY <1>1, <1>3
  <2>2. m_file_map_local'[w] \in [Files -> LoadedFile \cup {NoFile}]
    BY <1>3, <2>1
  <2>3. m_file_map_local'[w] # NoMap
    BY <2>2, FileAssumption
  <2> QED
    BY <1>3, <2>1, <2>3 DEF Local
<1> QED
  BY <1>2, <1>3, RunsLambda

LEMMA CopiedLocal ==
  ASSUME TypeInv, NEW v \in Workers, NEW g \in Files, CopyFromMain(v, g),
         NEW w \in Workers, NEW f \in Files
  PROVE  IF w = v /\ f = g
           THEN Local(w, f) = NoFile /\ Local(w, f)' = m_file_map[f] /\ m_file_map[f] # NoFile
           ELSE Local(w, f)' = Local(w, f)
<1>1. /\ m_file_map_local[v] # NoMap /\ m_file_map_local[v][g] = NoFile /\ m_file_map[g] # NoFile
      /\ m_file_map_local[v] \in [Files -> LoadedFile \cup {NoFile}]
      /\ m_file_map \in [Files -> LoadedFile \cup {NoFile}]
      /\ m_file_map_local'[v] = [m_file_map_local[v] EXCEPT ![g] = m_file_map[g]]
      /\ \A u \in Workers \ {v} : m_file_map_local'[u] = m_file_map_local[u]
  BY DEF CopyFromMain, TypeInv, TypeOK
<1>2. m_file_map_local'[v] \in [Files -> LoadedFile \cup {NoFile}]
  BY <1>1
<1>3. m_file_map_local'[v] # NoMap
  BY <1>2, FileAssumption
<1> QED
  BY <1>1, <1>3 DEF Local

LEMMA AgreeRefresh ==
  ASSUME TypeInv, ServingInv, AgreeInv, Serving, Refresh, NEW w \in Workers \ overlapped, NEW f \in Files
  PROVE  Agrees(w, f)'
<1>1. /\ UNCHANGED <<m_file_map_local, m_iosvcs>> /\ Agrees(w, f) /\ VectorServes /\ QueueServes(w)
      /\ posted \in [Workers -> Seq(Lambdas)] /\ DOMAIN m_file_map = Files
  BY RefreshMoves DEF server, AgreeInv, ServingInv, TypeInv, TypeOK
<1>2. Local(w, f)' = Local(w, f)
  BY <1>1 DEF Local
<1>3. refresh.i \in Nat \ {0} /\ w \in Nat /\ w # 0 /\ refresh.size \in Nat
  BY ServingFacts DEF Workers
<1>4. ASSUME UNCHANGED posted
      PROVE  /\ Waiting(w, f)' = Waiting(w, f)
             /\ \A k \in Waiting(w, f) : posted'[w][k].file = posted[w][k].file
  BY <1>4 DEF Waiting
<1>5. ASSUME UNCHANGED <<m_file_map, posted>>,
             SameFile \/ DropsFile \/ LoadsFile \/ TakesIoService
               \/ \E g \in Files : StatsFile(g) \/ RemovesFile(g)
      PROVE  Agrees(w, f)'
  <2>1. /\ Loading(f)' /\ w < refresh'.i => Loading(f) /\ w < refresh.i /\ refresh'.file = refresh.file
        /\ Loading(f) => Loading(f)' /\ refresh'.file = refresh.file
        /\ Removing(f) => Removing(f)'
    <3>1. CASE SameFile
      BY <3>1 DEF SameFile, Loading, Removing, Updating
    <3>2. CASE DropsFile
      BY <3>2 DEF DropsFile, Loading, Removing, Updating
    <3>3. CASE LoadsFile
      BY <1>3, <3>3 DEF LoadsFile, StartsPosts, Loading, Removing, Updating
    <3>4. CASE TakesIoService
      BY <3>4 DEF TakesIoService, Loading, Removing, Updating
    <3>5. ASSUME NEW g \in Files, StatsFile(g) \/ RemovesFile(g)
          PROVE  ~Loading(f)' /\ ~Loading(f) /\ ~Removing(f)
      BY <3>5 DEF StatsFile, RemovesFile, StartsPosts, Loading, Removing, Updating
    <3> QED
      BY <1>5, <3>1, <3>2, <3>3, <3>4, <3>5
  <2> QED
    BY <1>1, <1>2, <1>4, <1>5, <2>1, KeepsAgreeing
<1>6. ASSUME UNCHANGED m_file_map, PostsFile PROVE Agrees(w, f)'
  <2>1. /\ refresh.to = refresh.i /\ refresh.to \in Workers
        /\ Loading(f)' <=> Loading(f)
        /\ Removing(f)' <=> Removing(f)
        /\ refresh'.file = refresh.file /\ refresh'.i = refresh.i + 1
    BY <1>1, <1>6 DEF PostsFile, VectorServes, TypeInv, LoopInv, Loading, Removing, Updating
  <2>l. PICK l : l = [do |-> "update", name |-> refresh.name, file |-> refresh.file]
    OBVIOUS
  <2>2. Post(refresh.to, l) /\ l.do = "update" /\ l.name = refresh.name /\ l.file = refresh.file
    BY <1>6, <2>l DEF PostsFile
  <2>3. CASE w = refresh.to /\ f = refresh.name
    <3>1. PICK n \in Nat : /\ Waiting(w, f)' = Waiting(w, f) \cup {n}
                           /\ \A k \in Waiting(w, f) : k \in Nat /\ k < n /\ posted'[w][k] = posted[w][k]
                           /\ posted'[w][n] = l
      <4>1. posted \in [Workers -> Seq(Lambdas)]
        BY <1>1
      <4>2. Post(w, l)
        BY <2>2, <2>3
      <4>3. l.do = "update"
        BY <2>2
      <4>4. l.name = f
        BY <2>2, <2>3
      <4> QED
        BY <4>1, <4>2, <4>3, <4>4, PostedLast
    <3>2. \A k : Last(w, f, k)' <=> k = n
      BY <3>1 DEF Last
    <3>3. \A x : WillHave(w, f, x)' <=> x = refresh.file
      BY <2>2, <3>1, <3>2 DEF WillHave
    <3>4. Updating /\ (refresh.file = NoFile => Removing(f)) /\ (refresh.file # NoFile => Loading(f))
      BY <1>6, <2>3 DEF PostsFile, Updating, Removing, Loading
    <3> QED
      BY <2>1, <3>1, <3>2, <3>3, <3>4 DEF Agrees
  <2>4. CASE ~(w = refresh.to /\ f = refresh.name)
    <3>1. /\ Waiting(w, f)' = Waiting(w, f)
          /\ \A k \in Waiting(w, f) : posted'[w][k].file = posted[w][k].file
      <4>1. refresh.to # w \/ l.name # f
        BY <2>2, <2>4
      <4> QED
        BY <1>1, <2>1, <2>2, <4>1, PostedOther
    <3>2. Loading(f) /\ w < refresh.i + 1 => w < refresh.i
      BY <1>3, <2>1, <2>4 DEF Loading
    <3> QED
      BY <1>1, <1>2, <1>6, <2>1, <3>1, <3>2, KeepsAgreeing
  <2> QED
    BY <2>3, <2>4
<1>7. ASSUME UNCHANGED posted, StoresFile PROVE Agrees(w, f)'
  <2>1. /\ Updating /\ refresh.i > refresh.size /\ refresh.name \in Files
        /\ m_file_map' = [m_file_map EXCEPT ![refresh.name] = refresh.file]
        /\ ~Loading(f)' /\ ~Removing(f)'
    BY <1>1, <1>7 DEF StoresFile, Updating, Loading, Removing, TypeInv, LoopInv
  <2>2. CASE f # refresh.name
    <3>1. m_file_map'[f] = m_file_map[f] /\ ~Loading(f) /\ ~Removing(f)
      BY <1>1, <2>1, <2>2 DEF Loading, Removing
    <3> QED
      BY <1>1, <1>2, <1>4, <1>7, <2>1, <3>1, KeepsAgreeing
  <2>3. CASE f = refresh.name
    <3>1. m_file_map'[f] = refresh.file
      BY <1>1, <2>1, <2>3
    <3>2. \A k : Last(w, f, k)' <=> Last(w, f, k)
      BY <1>4, <1>7 DEF Last
    <3>3. \A x : WillHave(w, f, x)' <=> WillHave(w, f, x)
      BY <1>2, <1>4, <1>7, <3>2 DEF WillHave
    <3>4. CASE refresh.file = NoFile
      BY <1>1, <1>4, <1>7, <2>1, <3>1, <3>2, <3>4 DEF Agrees
    <3>5. CASE refresh.file # NoFile /\ w <= refresh.size
      <4>1. Loading(f) /\ w < refresh.i
        BY <1>3, <2>1, <2>3, <3>5 DEF Loading
      <4>2. \A x : WillHave(w, f, x) => x = refresh.file
        BY <1>1, <4>1 DEF Agrees
      <4> QED
        BY <1>1, <1>4, <1>7, <2>1, <3>1, <3>2, <3>3, <3>5, <4>2 DEF Agrees
    <3>6. CASE w > refresh.size
      <4>0. ~Made(w)
        <5>1. w > m_iosvcs.size
          BY <1>1, <1>3, <2>1, <3>6, ServingFacts DEF VectorServes
        <5> QED
          BY <1>3, <5>1, ServingFacts DEF Made, Workers, Serving
      <4>1. m_file_map_local[w] = NoMap /\ posted[w] = <<>>
        BY <1>1, <4>0 DEF QueueServes
      <4>2. Waiting(w, f) = {} /\ Local(w, f) = NoFile
        BY <4>1 DEF Waiting, Local
      <4>3. \A x : WillHave(w, f, x) => x = NoFile
        BY <4>2 DEF WillHave
      <4> QED
        BY <1>4, <1>7, <2>1, <3>3, <4>2, <4>3 DEF Agrees
    <3> QED
      BY <1>3, <3>4, <3>5, <3>6
  <2> QED
    BY <2>2, <2>3
<1> QED
  BY <1>5, <1>6, <1>7, RefreshMoves

LEMMA AgreeRun ==
  ASSUME TypeInv, ServingInv, AgreeInv, Serving, NEW v \in Workers, RunPosted(v),
         NEW w \in Workers \ overlapped, NEW f \in Files
  PROVE  Agrees(w, f)'
<1>1. /\ UNCHANGED <<m_file_map, refresh>> /\ Agrees(w, f) /\ posted[v] # <<>>
      /\ posted' = [posted EXCEPT ![v] = Tail(@)] /\ posted \in [Workers -> Seq(Lambdas)]
      /\ (Loading(f)' <=> Loading(f)) /\ (Removing(f)' <=> Removing(f))
  BY DEF RunPosted, AgreeInv, TypeInv, TypeOK, Loading, Removing, Updating
<1>2. CASE w # v
  <2>1. posted'[w] = posted[w] /\ m_file_map_local'[w] = m_file_map_local[w]
    BY <1>2, RunsAlone
  <2>2. Waiting(w, f)' = Waiting(w, f) /\ Local(w, f)' = Local(w, f)
    BY <2>1 DEF Waiting, Local
  <2> QED
    BY <1>1, <2>1, <2>2, KeepsAgreeing
<1>3. CASE w = v
  <2>1. /\ \A k : k \in Waiting(w, f)' <=> k \in Nat \ {0} /\ k + 1 \in Waiting(w, f)
        /\ \A k \in Waiting(w, f)' : posted'[w][k] = posted[w][k + 1]
        /\ \A k \in Waiting(w, f) : k \in Nat \ {0}
        /\ 1 \in Waiting(w, f) <=> posted[w][1].do = "update" /\ posted[w][1].name = f
    BY ZenonT(30), <1>1, <1>3, RanWaiting
  <2>2. Local(w, f)' = IF 1 \in Waiting(w, f) THEN posted[w][1].file ELSE Local(w, f)
    BY <1>3, <2>1, RanLocal
  <2>3. \A k \in Waiting(w, f) : k # 1 => k - 1 \in Waiting(w, f)'
    BY <2>1
  <2>4. ASSUME NEW k, Last(w, f, k)' PROVE Last(w, f, k + 1) /\ posted'[w][k].file = posted[w][k + 1].file
    <3>1. k \in Waiting(w, f)' /\ \A j \in Waiting(w, f)' : j <= k
      BY <2>4 DEF Last
    <3>2. k \in Nat \ {0} /\ k + 1 \in Waiting(w, f)
      BY <2>1, <3>1
    <3>3. ASSUME NEW j \in Waiting(w, f) PROVE j <= k + 1
      BY <2>1, <2>3, <3>1, <3>2, <3>3
    <3> QED
      BY <2>1, <3>1, <3>2, <3>3 DEF Last
  <2>5. ASSUME NEW x, WillHave(w, f, x)' PROVE WillHave(w, f, x)
    <3>1. CASE Waiting(w, f)' = {}
      <4>1. x = Local(w, f)' /\ Waiting(w, f) \subseteq {1}
        BY <2>3, <2>5, <3>1 DEF WillHave
      <4>2. CASE 1 \in Waiting(w, f)
        BY <2>2, <4>1, <4>2 DEF WillHave, Last
      <4>3. CASE 1 \notin Waiting(w, f)
        BY <2>2, <4>1, <4>3 DEF WillHave
      <4> QED
        BY <4>2, <4>3
    <3>2. CASE Waiting(w, f)' # {}
      <4>1. PICK k \in Waiting(w, f)' : Last(w, f, k)' /\ x = posted'[w][k].file
        BY <2>5, <3>2 DEF WillHave
      <4> QED
        BY <2>1, <2>4, <4>1 DEF WillHave
    <3> QED
      BY <3>1, <3>2
  <2>6. Waiting(w, f)' # {} => Waiting(w, f) # {}
    BY <2>1
  <2>7. ASSUME Waiting(w, f)' # {} PROVE \E k \in Waiting(w, f)' : Last(w, f, k)'
    <3>1. PICK j : j \in Waiting(w, f)'
      BY <2>7
    <3>2. j \in Nat \ {0} /\ j + 1 \in Waiting(w, f)
      BY <2>1, <3>1
    <3>3. PICK k \in Waiting(w, f) : Last(w, f, k)
      BY <1>1, <3>2 DEF Agrees
    <3>4. k \in Nat \ {0} /\ k # 1 /\ k - 1 \in Waiting(w, f)'
      BY <2>1, <2>3, <3>2, <3>3 DEF Last
    <3>5. ASSUME NEW i \in Waiting(w, f)' PROVE i <= k - 1
      BY <2>1, <3>3, <3>4, <3>5 DEF Last
    <3> QED
      BY <3>4, <3>5 DEF Last
  <2> QED
    BY <1>1, <2>5, <2>6, <2>7 DEF Agrees
<1> QED
  BY <1>2, <1>3

LEMMA AgreeCopy ==
  ASSUME TypeInv, AgreeInv, Serving, NEW v \in Workers, NEW g \in Files, CopyFromMain(v, g),
         NEW w \in Workers \ overlapped, NEW f \in Files
  PROVE  Agrees(w, f)'
<1>1. /\ UNCHANGED <<m_file_map, refresh, posted>> /\ Agrees(w, f)
      /\ (Loading(f)' <=> Loading(f)) /\ (Removing(f)' <=> Removing(f))
      /\ Waiting(w, f)' = Waiting(w, f)
  BY DEF CopyFromMain, AgreeInv, Loading, Removing, Updating, Waiting
<1>2. CASE w # v \/ f # g
  <2>1. Local(w, f)' = Local(w, f)
    BY <1>2, CopiedLocal
  <2> QED
    BY <1>1, <2>1, KeepsAgreeing
<1>3. CASE w = v /\ f = g
  <2>1. Local(w, f) = NoFile /\ Local(w, f)' = m_file_map[f] /\ m_file_map[f] # NoFile
    BY <1>3, CopiedLocal
  <2>2. \A k : Last(w, f, k)' <=> Last(w, f, k)
    BY <1>1 DEF Last
  <2>3. CASE Waiting(w, f) # {}
    <3>1. \A x : WillHave(w, f, x)' <=> WillHave(w, f, x)
      BY <1>1, <2>2, <2>3 DEF WillHave
    <3> QED
      BY <1>1, <2>2, <3>1 DEF Agrees
  <2>4. CASE Waiting(w, f) = {}
    <3>1. WillHave(w, f, NoFile) /\ \A x : WillHave(w, f, x)' <=> x = m_file_map[f]
      BY <1>1, <2>1, <2>4 DEF WillHave
    <3>2. ~(Loading(f) /\ w < refresh.i)
      BY <1>1, <3>1 DEF Agrees, Loading
    <3> QED
      BY <1>1, <2>1, <2>4, <3>1, <3>2 DEF Agrees
  <2> QED
    BY <2>3, <2>4
<1> QED
  BY <1>2, <1>3

LEMMA AgreeStep == TypeInv /\ ServingInv /\ AgreeInv /\ [Next]_vars => AgreeInv'
<1> SUFFICES ASSUME TypeInv, ServingInv, AgreeInv, [Next]_vars, Serving',
                    NEW w \in Workers \ overlapped', NEW f \in Files
             PROVE  Agrees(w, f)'
  BY DEF AgreeInv
<1>0. /\ Serving /\ w \in Workers \ overlapped /\ Agrees(w, f)
      /\ posted \in [Workers -> Seq(Lambdas)]
  BY StillServes, OverlapStays DEF AgreeInv, TypeInv, TypeOK
<1>1. ASSUME UNCHANGED <<m_file_map, m_file_map_local, posted, refresh>> PROVE Agrees(w, f)'
  BY <1>0, <1>1, KeepsAgreeing DEF Waiting, Local, Loading, Removing, Updating
<1>2. CASE Refresh
  BY <1>0, <1>2, AgreeRefresh
<1>3. CASE PostMake
  <2> DEFINE l == [do |-> "make"]
  <2>1. /\ Post(main.worker, l) /\ l.do # "update" /\ main.worker \in Workers
        /\ UNCHANGED <<m_file_map, m_file_map_local, refresh>>
    BY <1>0, <1>3, Makes
  <2> HIDE DEF l
  <2>2. /\ Waiting(w, f)' = Waiting(w, f)
        /\ \A k \in Waiting(w, f) : posted'[w][k].file = posted[w][k].file
    BY <1>0, <2>1, PostedOther
  <2> QED
    BY <1>0, <2>1, <2>2, KeepsAgreeing DEF Local, Loading, Removing, Updating
<1>4. ASSUME NEW v \in Workers, RunPosted(v) PROVE Agrees(w, f)'
  BY <1>0, <1>4, AgreeRun
<1>5. ASSUME NEW v \in Workers, NEW g \in Files, CopyFromMain(v, g) PROVE Agrees(w, f)'
  BY <1>0, <1>5, AgreeCopy
<1>6. ASSUME NEW g \in Files, WriteFile(g) \/ DeleteFile(g) \/ StatThrows(g) PROVE Agrees(w, f)'
  BY <1>1, <1>6 DEF WriteFile, DeleteFile, StatThrows
<1>7. CASE StopServer \/ Destroy \/ FollowsFreedPointer
  BY <1>1, <1>7 DEF StopServer, Destroy, FollowsFreedPointer
<1>8. CASE UnregisterIoService \/ PostReset \/ Unregistered
  BY <1>0, <1>8 DEF UnregisterIoService, PostReset, Unregistered, Serving
<1>9. CASE UNCHANGED vars
  BY <1>1, <1>9 DEF vars
<1>10. CASE RegisterIoService
  <2>1. /\ UNCHANGED <<m_file_map, m_file_map_local, posted>>
        /\ refresh'.step = refresh.step /\ refresh'.name = refresh.name
        /\ refresh'.file = refresh.file /\ refresh'.i = refresh.i
    BY <1>0, <1>10, Registers
  <2>2. /\ Loading(f)' <=> Loading(f)
        /\ Removing(f)' <=> Removing(f)
    BY <2>1 DEF Loading, Removing, Updating
  <2> QED
    BY <1>0, <2>1, <2>2, KeepsAgreeing DEF Waiting, Local
<1> QED
  BY <1>2, <1>3, <1>4, <1>5, <1>6, <1>7, <1>8, <1>9, <1>10 DEF Next, Main

-----------------------------------------------------------------------------
(* The order of the versions.                                              *)

\* The data of f that is the newest of all that was stored or is being stored.
Newest(f) ==
  IF Loading(f) THEN refresh.file.data
  ELSE IF m_file_map[f] # NoFile THEN m_file_map[f].data
  ELSE IF refresh.step = "read" /\ refresh.name = f THEN refresh.stamp
  ELSE disk[f].version

\* The refresh thread replaces a file only by a newer one.
MainInv ==
  \A f \in Files : m_file_map[f] # NoFile =>
    /\ Loading(f) => m_file_map[f].data <= refresh.file.data
    /\ refresh.step = "read" /\ refresh.name = f => m_file_map[f].data <= refresh.stamp

\* Nothing in worker w's map or queue is newer than that, the queue is in order, and
\* the map is not newer than the last update that waits for it.
Ordered(w, f) ==
  /\ Local(w, f) # NoFile => Local(w, f).data <= Newest(f)
  /\ \A k \in Waiting(w, f) : posted[w][k].file # NoFile => posted[w][k].file.data <= Newest(f)
  /\ \A j, k \in Waiting(w, f) :
       j < k /\ posted[w][j].file # NoFile /\ posted[w][k].file # NoFile
         => posted[w][j].file.data <= posted[w][k].file.data
  /\ \A k \in Waiting(w, f) :
       Waiting(w, f) = {k} /\ posted[w][k].file # NoFile /\ Local(w, f) # NoFile
         => Local(w, f).data <= posted[w][k].file.data

OrderInv == Serving => \A w \in Workers \ overlapped, f \in Files : Ordered(w, f)

\* Whatever is a file has a version.
LEMMA DataTypes ==
  ASSUME TypeInv
  PROVE  /\ Versions \subseteq Nat
         /\ \A x \in LoadedFile : x.data \in Nat /\ x.stamp \in Nat
         /\ \A f \in Files : disk[f].version \in Nat /\ m_file_map[f] \in LoadedFile \cup {NoFile}
         /\ \A w \in Workers, f \in Files : Local(w, f) \in LoadedFile \cup {NoFile}
         /\ \A w \in Workers, f \in Files : \A k \in Waiting(w, f) :
              posted[w][k].file \in LoadedFile \cup {NoFile}
         /\ refresh.file \in LoadedFile \cup {NoFile} /\ refresh.stamp \in Nat
         /\ \A f \in Files : Newest(f) \in Nat
<1>1. Versions \subseteq Nat
  BY FileAssumption DEF Versions
<1>2. \A x \in LoadedFile : x.data \in Nat /\ x.stamp \in Nat
  BY <1>1 DEF LoadedFile
<1>3. /\ \A f \in Files : disk[f].version \in Nat /\ m_file_map[f] \in LoadedFile \cup {NoFile}
      /\ refresh.file \in LoadedFile \cup {NoFile} /\ refresh.stamp \in Nat
  <2>1. \A f \in Files : disk[f].version \in Nat /\ m_file_map[f] \in LoadedFile \cup {NoFile}
    BY <1>1 DEF TypeInv, TypeOK
  <2>2. refresh.file \in LoadedFile \cup {NoFile} /\ refresh.stamp \in Versions \cup {0}
    BY DEF TypeInv, TypeOK, RefreshThread
  <2>3. refresh.stamp \in Nat
    BY <2>2, FileAssumption, SMT DEF Versions
  <2> QED
    BY <2>1, <2>2, <2>3
<1>4. \A w \in Workers, f \in Files : Local(w, f) \in LoadedFile \cup {NoFile}
  BY DEF TypeInv, TypeOK, Local
<1>5. ASSUME NEW w \in Workers, NEW f \in Files, NEW k \in Waiting(w, f)
      PROVE  posted[w][k].file \in LoadedFile \cup {NoFile}
  <2>1. posted[w] \in Seq(Lambdas) /\ k \in DOMAIN posted[w] /\ posted[w][k].do = "update"
    BY DEF TypeInv, TypeOK, Waiting
  <2>2. posted[w][k] \in Lambdas
    BY <2>1
  <2> QED
    BY <2>1, <2>2 DEF Lambdas
<1>6. \A f \in Files : Newest(f) \in Nat
  BY <1>2, <1>3 DEF Newest, Loading
<1> QED
  BY <1>1, <1>2, <1>3, <1>4, <1>5, <1>6

LEMMA NewestTypes ==
  ASSUME TypeInv', NEW f \in Files
  PROVE  Newest(f)' \in Nat
<1>1. Versions \subseteq Nat
  BY FileAssumption DEF Versions
<1>2. \A x \in LoadedFile : x.data \in Nat
  BY <1>1 DEF LoadedFile
<1>3. disk'[f].version \in Nat /\ m_file_map'[f] \in LoadedFile \cup {NoFile}
  BY <1>1 DEF TypeInv, TypeOK
<1>4. refresh'.file \in LoadedFile \cup {NoFile} /\ refresh'.stamp \in Versions \cup {0}
  BY DEF TypeInv, TypeOK, RefreshThread
<1>5. refresh'.stamp \in Nat
  BY <1>4, FileAssumption, SMT DEF Versions
<1> QED
  BY <1>2, <1>3, <1>4, <1>5 DEF Newest, Loading

\* The main map and the newest version, step by step.
LEMMA NewestGrows ==
  ASSUME TypeInv, TypeInv', LoadInv, MainInv, [Next]_vars
  PROVE  MainInv' /\ \A f \in Files : Newest(f) <= Newest(f)'
<1> SUFFICES ASSUME NEW f \in Files
             PROVE  /\ m_file_map'[f] # NoFile =>
                         /\ Loading(f)' => m_file_map'[f].data <= refresh'.file.data
                         /\ refresh'.step = "read" /\ refresh'.name = f => m_file_map'[f].data <= refresh'.stamp
                    /\ Newest(f) <= Newest(f)'
  BY DEF MainInv
<1>1. /\ disk[f].version \in Nat /\ m_file_map[f] \in LoadedFile \cup {NoFile} /\ Newest(f) \in Nat
      /\ refresh.file \in LoadedFile \cup {NoFile} /\ refresh.stamp \in Nat
      /\ \A x \in LoadedFile : x.data \in Nat /\ x.stamp \in Nat
      /\ DOMAIN m_file_map = Files
  BY DataTypes DEF TypeInv, TypeOK
<1>2. /\ m_file_map[f] # NoFile => m_file_map[f].data <= disk[f].version
      /\ refresh.step = "read" /\ refresh.name = f => refresh.stamp <= disk[f].version
      /\ m_file_map[f] # NoFile =>
           /\ Loading(f) => m_file_map[f].data <= refresh.file.data
           /\ refresh.step = "read" /\ refresh.name = f => m_file_map[f].data <= refresh.stamp
  BY DEF LoadInv, Honest, Past, MainInv
<1>3. ASSUME UNCHANGED <<m_file_map, refresh>>, disk[f].version <= disk'[f].version
      PROVE  /\ m_file_map'[f] # NoFile =>
                  /\ Loading(f)' => m_file_map'[f].data <= refresh'.file.data
                  /\ refresh'.step = "read" /\ refresh'.name = f => m_file_map'[f].data <= refresh'.stamp
             /\ Newest(f) <= Newest(f)'
  <2>1. Loading(f)' <=> Loading(f)
    BY <1>3 DEF Loading, Updating
  <2> QED
    BY <1>1, <1>2, <1>3, <2>1 DEF Newest
<1>4. ASSUME UNCHANGED <<m_file_map, refresh, disk>> PROVE disk[f].version <= disk'[f].version
  BY <1>1, <1>4
<1>5. CASE Refresh
  <2>1. UNCHANGED disk
    BY <1>5, RefreshMoves
  <2>2. CASE UNCHANGED m_file_map /\ SameFile
    <3>1. Loading(f)' <=> Loading(f)
      BY <2>2 DEF SameFile, Loading, Updating
    <3> QED
      BY <1>1, <1>2, <2>1, <2>2, <3>1 DEF Newest, SameFile
  <2>3. CASE UNCHANGED m_file_map /\ (TakesIoService \/ PostsFile)
    <3>1. /\ (Loading(f)' <=> Loading(f)) /\ refresh'.file = refresh.file
          /\ refresh.step # "read" /\ refresh'.step # "read"
      BY <2>3 DEF TakesIoService, PostsFile, Loading, Updating
    <3> QED
      BY <1>1, <1>2, <2>1, <2>3, <3>1 DEF Newest
  <2>4. CASE UNCHANGED m_file_map /\ DropsFile
    <3>1. ~Loading(f)' /\ ~Loading(f) /\ refresh'.step # "read"
      BY <2>4 DEF DropsFile, Loading, Updating
    <3> QED
      BY <1>1, <1>2, <2>1, <2>4, <3>1 DEF Newest
  <2>5. ASSUME NEW g \in Files, UNCHANGED m_file_map, StatsFile(g)
        PROVE  /\ m_file_map'[f] # NoFile =>
                    /\ Loading(f)' => m_file_map'[f].data <= refresh'.file.data
                    /\ refresh'.step = "read" /\ refresh'.name = f => m_file_map'[f].data <= refresh'.stamp
               /\ Newest(f) <= Newest(f)'
    <3>1. /\ ~Loading(f)' /\ ~Loading(f) /\ refresh.step # "read"
          /\ refresh'.name = f => refresh'.stamp = disk[f].version
      BY <2>5 DEF StatsFile, Loading, Updating
    <3> QED
      BY <1>1, <1>2, <2>1, <2>5, <3>1 DEF Newest
  <2>6. ASSUME NEW g \in Files, UNCHANGED m_file_map, RemovesFile(g)
        PROVE  /\ m_file_map'[f] # NoFile =>
                    /\ Loading(f)' => m_file_map'[f].data <= refresh'.file.data
                    /\ refresh'.step = "read" /\ refresh'.name = f => m_file_map'[f].data <= refresh'.stamp
               /\ Newest(f) <= Newest(f)'
    <3>1. ~Loading(f)' /\ ~Loading(f) /\ refresh.step # "read" /\ refresh'.step # "read"
      BY <2>6 DEF RemovesFile, StartsPosts, Loading, Updating
    <3> QED
      BY <1>1, <1>2, <2>1, <2>6, <3>1 DEF Newest
  <2>7. CASE UNCHANGED m_file_map /\ LoadsFile
    <3>1. /\ refresh.step = "read" /\ refresh'.step = "each" /\ refresh'.name = refresh.name
          /\ refresh'.file = [stamp |-> refresh.stamp, data |-> disk[refresh.name].version]
          /\ refresh.name \in Files /\ ~Loading(f)
      BY <2>7 DEF LoadsFile, StartsPosts, TypeInv, LoopInv, Loading, Updating
    <3>2. refresh'.file \in LoadedFile
      BY <3>1 DEF LoadedFile, TypeInv, TypeOK, LoopInv
    <3>3. Loading(f)' <=> refresh.name = f
      BY <3>1, <3>2, FileAssumption DEF Loading, Updating
    <3>4. refresh.name = f => refresh'.file.data = disk[f].version
      BY <3>1
    <3> QED
      BY <1>1, <1>2, <2>1, <2>7, <3>1, <3>3, <3>4 DEF Newest
  <2>8. CASE StoresFile
    <3>1. /\ Updating /\ refresh.name \in Files /\ refresh.step # "read" /\ refresh'.step # "read"
          /\ ~Loading(f)'
          /\ m_file_map' = [m_file_map EXCEPT ![refresh.name] = refresh.file]
      BY <2>8 DEF StoresFile, Loading, Updating, TypeInv, LoopInv
    <3>2. CASE f = refresh.name
      <4>1. m_file_map'[f] = refresh.file
        BY <1>1, <3>1, <3>2
      <4>2. Loading(f) <=> refresh.file # NoFile
        BY <3>1, <3>2 DEF Loading
      <4> QED
        BY <1>1, <1>2, <2>1, <3>1, <4>1, <4>2 DEF Newest
    <3>3. CASE f # refresh.name
      <4>1. m_file_map'[f] = m_file_map[f] /\ ~Loading(f)
        BY <1>1, <3>1, <3>3 DEF Loading
      <4> QED
        BY <1>1, <1>2, <2>1, <3>1, <4>1 DEF Newest
    <3> QED
      BY <3>2, <3>3
  <2> QED
    BY <1>5, <2>2, <2>3, <2>4, <2>5, <2>6, <2>7, <2>8, RefreshMoves
<1>6. ASSUME NEW g \in Files, WriteFile(g) \/ DeleteFile(g) \/ StatThrows(g)
      PROVE  UNCHANGED <<m_file_map, refresh>> /\ disk[f].version <= disk'[f].version
  <2>1. disk \in [Files -> [exists : BOOLEAN, version : Versions]]
    BY DEF TypeInv, TypeOK
  <2>2. CASE WriteFile(g)
    <3>1. disk'[f].version \in {disk[f].version, disk[f].version + 1}
      BY <2>1, <2>2 DEF WriteFile
    <3> QED
      BY <1>1, <2>2, <3>1 DEF WriteFile
  <2>3. CASE DeleteFile(g) \/ StatThrows(g)
    <3>1. disk' = [disk EXCEPT ![g] = [exists |-> FALSE, version |-> @.version + 1]]
      BY <2>3 DEF DeleteFile, StatThrows, Deleted
    <3>2. disk'[f].version \in {disk[f].version, disk[f].version + 1}
      BY <2>1, <3>1
    <3> QED
      BY <1>1, <2>3, <3>2 DEF DeleteFile, StatThrows
  <2> QED
    BY <1>6, <2>2, <2>3
<1>7. CASE \/ PostMake \/ UnregisterIoService \/ PostReset \/ Unregistered \/ StopServer \/ Destroy
           \/ FollowsFreedPointer \/ UNCHANGED vars
  BY <1>3, <1>4, <1>7
  DEF PostMake, UnregisterIoService, PostReset, Unregistered, StopServer, Destroy, FollowsFreedPointer,
      vars
<1>9. CASE RegisterIoService
  <2>1. /\ UNCHANGED <<m_file_map, disk>>
        /\ \E moved \in BOOLEAN : refresh' = [refresh EXCEPT !.stale = @ \/ (moved /\ Updating)]
    BY <1>9 DEF RegisterIoService
  <2>2. refresh \in RefreshThread
    BY DEF TypeInv, TypeOK
  <2>3. /\ refresh'.step = refresh.step /\ refresh'.name = refresh.name
        /\ refresh'.file = refresh.file /\ refresh'.stamp = refresh.stamp
    BY <2>1, <2>2 DEF RefreshThread
  <2>4. Loading(f)' <=> Loading(f)
    BY <2>3 DEF Loading, Updating
  <2> QED
    BY <1>1, <1>2, <2>1, <2>3, <2>4 DEF Newest
<1>8. CASE \E w \in Workers : RunPosted(w) \/ \E g \in Files : CopyFromMain(w, g)
  BY <1>3, <1>4, <1>8 DEF RunPosted, CopyFromMain
<1> QED
  BY <1>3, <1>5, <1>6, <1>7, <1>8, <1>9 DEF Next, Main

\* A step that changes nothing in the queue and the map of worker w for f.
LEMMA KeepsOrder ==
  ASSUME NEW w, NEW f, Ordered(w, f), Newest(f) \in Nat, Newest(f)' \in Nat, Newest(f) <= Newest(f)',
         Local(w, f) \in LoadedFile \cup {NoFile},
         \A k \in Waiting(w, f) : posted[w][k].file \in LoadedFile \cup {NoFile},
         \A x \in LoadedFile : x.data \in Nat,
         Waiting(w, f)' = Waiting(w, f), Local(w, f)' = Local(w, f),
         \A k \in Waiting(w, f) : posted'[w][k].file = posted[w][k].file
  PROVE  Ordered(w, f)'
<1>1. Local(w, f)' # NoFile => Local(w, f)'.data <= Newest(f)'
  BY DEF Ordered
<1>2. \A k \in Waiting(w, f)' : posted'[w][k].file # NoFile => posted'[w][k].file.data <= Newest(f)'
  BY DEF Ordered
<1> QED
  BY <1>1, <1>2 DEF Ordered

LEMMA OrderPost ==
  ASSUME TypeInv, TypeInv', ServingInv, OrderInv, Serving, NEW w \in Workers \ overlapped, NEW f \in Files,
         UNCHANGED <<m_file_map, m_file_map_local>>, PostsFile, Newest(f) <= Newest(f)'
  PROVE  Ordered(w, f)'
<1>1. /\ Ordered(w, f) /\ posted \in [Workers -> Seq(Lambdas)] /\ Local(w, f)' = Local(w, f)
      /\ refresh.to \in Workers
  BY DEF OrderInv, TypeInv, TypeOK, LoopInv, Local, PostsFile
<1>2. /\ Newest(f) \in Nat /\ Newest(f)' \in Nat /\ Local(w, f) \in LoadedFile \cup {NoFile}
      /\ \A k \in Waiting(w, f) : posted[w][k].file \in LoadedFile \cup {NoFile}
      /\ \A x \in LoadedFile : x.data \in Nat
      /\ refresh.file \in LoadedFile \cup {NoFile}
  <2>1. Newest(f)' \in Nat
    BY NewestTypes
  <2> QED
    BY <2>1, DataTypes
<1>l. PICK l : l = [do |-> "update", name |-> refresh.name, file |-> refresh.file]
  OBVIOUS
<1>3. Post(refresh.to, l)
  BY <1>l DEF PostsFile
<1>4. l.do = "update"
  BY <1>l
<1>5. l.name = refresh.name /\ l.file = refresh.file
  BY <1>l
<1>6. CASE w = refresh.to /\ f = refresh.name
  <2>1. posted \in [Workers -> Seq(Lambdas)]
    BY <1>1
  <2>2. Post(w, l)
    BY <1>3, <1>6
  <2>3. l.name = f
    BY <1>5, <1>6
  <2>4. PICK n \in Nat : /\ Waiting(w, f)' = Waiting(w, f) \cup {n} /\ n \notin Waiting(w, f)
                         /\ \A k \in Waiting(w, f) : k \in Nat /\ k < n /\ posted'[w][k] = posted[w][k]
                         /\ posted'[w][n] = l
    BY <1>4, <2>1, <2>2, <2>3, PostedLast
  <2>5. refresh.file # NoFile => Newest(f)' = refresh.file.data
    BY <1>6 DEF PostsFile, Newest, Loading, Updating
  <2>6. \A k \in Waiting(w, f) : posted[w][k].file # NoFile => posted[w][k].file.data <= Newest(f)'
    BY <1>1, <1>2 DEF Ordered
  <2>7. Local(w, f) # NoFile => Local(w, f).data <= Newest(f)'
    BY <1>1, <1>2 DEF Ordered
  <2>8. posted'[w][n].file = refresh.file
    BY <1>5, <2>4
  <2>9. \A k \in Waiting(w, f)' : posted'[w][k].file # NoFile => posted'[w][k].file.data <= Newest(f)'
    BY <1>2, <2>4, <2>5, <2>6, <2>8
  <2>10. ASSUME NEW j \in Waiting(w, f)', NEW k \in Waiting(w, f)',
                j < k, posted'[w][j].file # NoFile, posted'[w][k].file # NoFile
         PROVE  posted'[w][j].file.data <= posted'[w][k].file.data
    <3>1. j \in Waiting(w, f)
      BY <2>4, <2>10
    <3>2. CASE k \in Waiting(w, f)
      BY <1>1, <2>4, <2>10, <3>1, <3>2 DEF Ordered
    <3>3. CASE k = n
      BY <2>4, <2>5, <2>6, <2>8, <2>10, <3>1, <3>3
    <3> QED
      BY <2>4, <3>2, <3>3
  <2>11. ASSUME NEW k \in Waiting(w, f)', Waiting(w, f)' = {k}, posted'[w][k].file # NoFile, Local(w, f)' # NoFile
         PROVE  Local(w, f)'.data <= posted'[w][k].file.data
    <3>1. k = n
      BY <2>4, <2>11
    <3> QED
      BY <1>1, <2>5, <2>7, <2>8, <2>11, <3>1
  <2> QED
    BY <1>1, <2>7, <2>9, <2>10, <2>11 DEF Ordered
<1>7. CASE ~(w = refresh.to /\ f = refresh.name)
  <2>1. refresh.to # w \/ l.name # f
    BY <1>5, <1>7
  <2>2. /\ Waiting(w, f)' = Waiting(w, f)
        /\ \A k \in Waiting(w, f) : posted'[w][k].file = posted[w][k].file
    BY <1>1, <1>3, <2>1, PostedOther
  <2> QED
    BY <1>1, <1>2, <2>2, KeepsOrder
<1> QED
  BY <1>6, <1>7

LEMMA OrderRun ==
  ASSUME TypeInv, TypeInv', ServingInv, OrderInv, Serving, NEW v \in Workers, RunPosted(v),
         NEW w \in Workers \ overlapped, NEW f \in Files
  PROVE  Ordered(w, f)'
<1>1. /\ Ordered(w, f) /\ posted[v] # <<>> /\ posted' = [posted EXCEPT ![v] = Tail(@)]
      /\ posted \in [Workers -> Seq(Lambdas)] /\ Newest(f)' = Newest(f)
  BY DEF RunPosted, OrderInv, TypeInv, TypeOK, Newest, Loading, Updating
<1>2. /\ Newest(f) \in Nat /\ Local(w, f) \in LoadedFile \cup {NoFile}
      /\ \A k \in Waiting(w, f) : posted[w][k].file \in LoadedFile \cup {NoFile}
      /\ \A x \in LoadedFile : x.data \in Nat
  BY DataTypes
<1>3. CASE w # v
  <2>1. posted'[w] = posted[w] /\ m_file_map_local'[w] = m_file_map_local[w]
    BY <1>3, RunsAlone
  <2>2. Waiting(w, f)' = Waiting(w, f) /\ Local(w, f)' = Local(w, f)
    BY <2>1 DEF Waiting, Local
  <2> QED
    BY <1>1, <1>2, <2>1, <2>2, KeepsOrder
<1>4. CASE w = v
  <2>1. /\ \A k : k \in Waiting(w, f)' <=> k \in Nat \ {0} /\ k + 1 \in Waiting(w, f)
        /\ \A k \in Waiting(w, f)' : posted'[w][k] = posted[w][k + 1]
        /\ \A k \in Waiting(w, f) : k \in Nat \ {0}
        /\ 1 \in Waiting(w, f) <=> posted[w][1].do = "update" /\ posted[w][1].name = f
    BY ZenonT(30), <1>1, <1>4, RanWaiting
  <2>2. Local(w, f)' = IF 1 \in Waiting(w, f) THEN posted[w][1].file ELSE Local(w, f)
    BY <1>4, <2>1, RanLocal
  <2>3. Local(w, f)' # NoFile => Local(w, f)'.data <= Newest(f)'
    BY <1>1, <2>2 DEF Ordered
  <2>4. \A k \in Waiting(w, f)' : posted'[w][k].file # NoFile => posted'[w][k].file.data <= Newest(f)'
    BY ZenonT(30), <1>1, <2>1 DEF Ordered
  <2>5. ASSUME NEW j \in Waiting(w, f)', NEW k \in Waiting(w, f)',
               j < k, posted'[w][j].file # NoFile, posted'[w][k].file # NoFile
        PROVE  posted'[w][j].file.data <= posted'[w][k].file.data
    <3>1. /\ j + 1 \in Waiting(w, f) /\ k + 1 \in Waiting(w, f) /\ j + 1 < k + 1
          /\ posted'[w][j] = posted[w][j + 1] /\ posted'[w][k] = posted[w][k + 1]
      BY <2>1, <2>5
    <3> QED
      BY <1>1, <2>5, <3>1 DEF Ordered
  <2>6. ASSUME NEW k \in Waiting(w, f)', Waiting(w, f)' = {k}, posted'[w][k].file # NoFile, Local(w, f)' # NoFile
        PROVE  Local(w, f)'.data <= posted'[w][k].file.data
    <3>1. k \in Nat \ {0} /\ k + 1 \in Waiting(w, f) /\ posted'[w][k] = posted[w][k + 1] /\ 1 < k + 1
      BY <2>1
    <3>2. CASE 1 \in Waiting(w, f)
      BY <1>1, <2>2, <2>6, <3>1, <3>2 DEF Ordered
    <3>3. CASE 1 \notin Waiting(w, f)
      <4>1. ASSUME NEW j \in Waiting(w, f) PROVE j = k + 1
        <5>1. j - 1 \in Waiting(w, f)'
          BY <2>1, <3>3
        <5> QED
          BY <2>1, <2>6, <3>1, <5>1
      <4>2. Waiting(w, f) = {k + 1}
        BY <3>1, <4>1
      <4> QED
        BY <1>1, <2>2, <2>6, <3>1, <3>3, <4>2 DEF Ordered
    <3> QED
      BY <3>2, <3>3
  <2> QED
    BY <2>3, <2>4, <2>5, <2>6 DEF Ordered
<1> QED
  BY <1>3, <1>4

LEMMA OrderCopy ==
  ASSUME TypeInv, AgreeInv, MainInv, OrderInv, Serving,
         NEW v \in Workers, NEW g \in Files, CopyFromMain(v, g),
         NEW w \in Workers \ overlapped, NEW f \in Files
  PROVE  Ordered(w, f)'
<1>1. /\ UNCHANGED <<m_file_map, posted>> /\ Ordered(w, f) /\ Agrees(w, f)
      /\ Newest(f)' = Newest(f) /\ Waiting(w, f)' = Waiting(w, f)
  BY DEF CopyFromMain, OrderInv, AgreeInv, Newest, Loading, Updating, Waiting
<1>2. /\ Newest(f) \in Nat /\ Local(w, f) \in LoadedFile \cup {NoFile}
      /\ m_file_map[f] \in LoadedFile \cup {NoFile}
      /\ \A k \in Waiting(w, f) : posted[w][k].file \in LoadedFile \cup {NoFile}
      /\ \A x \in LoadedFile : x.data \in Nat
  BY DataTypes
<1>3. CASE w # v \/ f # g
  <2>1. Local(w, f)' = Local(w, f)
    BY <1>3, CopiedLocal
  <2> QED
    BY <1>1, <1>2, <2>1, KeepsOrder
<1>4. CASE w = v /\ f = g
  <2>1. Local(w, f)' = m_file_map[f] /\ m_file_map[f] # NoFile
    BY <1>4, CopiedLocal
  <2>2. m_file_map[f].data <= Newest(f)
    BY <1>2, <2>1 DEF MainInv, Newest
  <2>3. ASSUME NEW k \in Waiting(w, f), Waiting(w, f) = {k}, posted[w][k].file # NoFile
        PROVE  m_file_map[f].data <= posted[w][k].file.data
    <3>1. WillHave(w, f, posted[w][k].file)
      BY <1>1, <2>3 DEF WillHave, Agrees, Last
    <3>2. posted[w][k].file = m_file_map[f] \/ (Loading(f) /\ posted[w][k].file = refresh.file)
      BY <1>1, <2>1, <2>3, <3>1 DEF Agrees
    <3> QED
      BY <1>2, <2>1, <3>2 DEF MainInv
  <2> QED
    BY <1>1, <2>1, <2>2, <2>3 DEF Ordered
<1> QED
  BY <1>3, <1>4

LEMMA OrderStep ==
  ASSUME TypeInv, TypeInv', LoadInv, ServingInv, AgreeInv, MainInv, OrderInv, [Next]_vars
  PROVE  OrderInv'
<1> SUFFICES ASSUME Serving', NEW w \in Workers \ overlapped', NEW f \in Files
             PROVE  Ordered(w, f)'
  BY DEF OrderInv
<1>0. /\ Serving /\ w \in Workers \ overlapped /\ Ordered(w, f)
      /\ posted \in [Workers -> Seq(Lambdas)] /\ Newest(f) <= Newest(f)'
  BY StillServes, OverlapStays, NewestGrows DEF OrderInv, TypeInv, TypeOK
<1>1. /\ Newest(f) \in Nat /\ Newest(f)' \in Nat /\ Local(w, f) \in LoadedFile \cup {NoFile}
      /\ \A k \in Waiting(w, f) : posted[w][k].file \in LoadedFile \cup {NoFile}
      /\ \A x \in LoadedFile : x.data \in Nat
  <2>1. Newest(f)' \in Nat
    BY NewestTypes
  <2> QED
    BY <2>1, DataTypes
<1>2. ASSUME UNCHANGED <<m_file_map_local, posted>> PROVE Ordered(w, f)'
  BY <1>0, <1>1, <1>2, KeepsOrder DEF Waiting, Local
<1>3. CASE Refresh
  BY <1>0, <1>2, <1>3, OrderPost, RefreshMoves
<1>4. CASE PostMake
  <2> DEFINE l == [do |-> "make"]
  <2>1. /\ Post(main.worker, l) /\ l.do # "update" /\ main.worker \in Workers
        /\ UNCHANGED m_file_map_local
    BY <1>0, <1>4, Makes
  <2> HIDE DEF l
  <2>2. /\ Waiting(w, f)' = Waiting(w, f)
        /\ \A k \in Waiting(w, f) : posted'[w][k].file = posted[w][k].file
    BY <1>0, <2>1, PostedOther
  <2> QED
    BY <1>0, <1>1, <2>1, <2>2, KeepsOrder DEF Local
<1>5. ASSUME NEW v \in Workers, RunPosted(v) PROVE Ordered(w, f)'
  BY <1>0, <1>5, OrderRun
<1>6. ASSUME NEW v \in Workers, NEW g \in Files, CopyFromMain(v, g) PROVE Ordered(w, f)'
  BY <1>0, <1>6, OrderCopy
<1>7. ASSUME NEW g \in Files, WriteFile(g) \/ DeleteFile(g) \/ StatThrows(g) PROVE Ordered(w, f)'
  BY <1>2, <1>7 DEF WriteFile, DeleteFile, StatThrows
<1>8. CASE RegisterIoService \/ StopServer \/ Destroy \/ FollowsFreedPointer
  BY <1>2, <1>8 DEF RegisterIoService, StopServer, Destroy, FollowsFreedPointer
<1>9. CASE UnregisterIoService \/ PostReset \/ Unregistered
  BY <1>0, <1>9 DEF UnregisterIoService, PostReset, Unregistered, Serving
<1>10. CASE UNCHANGED vars
  BY <1>2, <1>10 DEF vars
<1> QED
  BY <1>3, <1>4, <1>5, <1>6, <1>7, <1>8, <1>9, <1>10 DEF Next, Main

-----------------------------------------------------------------------------
(* Everything together.                                                    *)

Inv == TypeInv /\ LoadInv /\ ServingInv /\ StopInv /\ AgreeInv /\ MainInv /\ OrderInv

LEMMA InvInit == Init => Inv
<1> SUFFICES ASSUME Init PROVE ServingInv /\ StopInv /\ AgreeInv /\ MainInv /\ OrderInv
  BY InitTypes, LoadInit DEF Inv
<1>1. /\ m_iosvcs.size = 0 /\ refresh.step = "next" /\ ~Updating
      /\ posted = [w \in Workers |-> <<>>] /\ m_file_map_local = [w \in Workers |-> NoMap]
  BY DEF Init, Idle, Updating
<1>2. \A w \in Workers, f \in Files : Waiting(w, f) = {} /\ Local(w, f) = NoFile
  BY <1>1 DEF Waiting, Local
<1>3. ServingInv
  <2>1. \A w \in Workers : ~Made(w) /\ posted[w] = <<>>
    BY <1>1 DEF Init, Made, Workers
  <2> QED
    BY <1>1, <2>1 DEF ServingInv, VectorServes, QueueServes
<1>4. AgreeInv
  <2>1. \A f \in Files : ~Loading(f)
    BY <1>1 DEF Loading
  <2> QED
    BY <1>2, <2>1 DEF AgreeInv, Agrees, WillHave
<1>5. MainInv
  BY <1>1 DEF MainInv, Loading
<1>6. OrderInv
  BY <1>2 DEF OrderInv, Ordered
<1>7. StopInv
  BY DEF Init, StopInv, Serving
<1> QED
  BY <1>3, <1>4, <1>5, <1>6, <1>7

LEMMA InvStep == Inv /\ [Next]_vars => Inv'
<1> SUFFICES ASSUME Inv, [Next]_vars PROVE Inv'
  OBVIOUS
<1>1. TypeInv /\ LoadInv /\ ServingInv /\ StopInv /\ AgreeInv /\ MainInv /\ OrderInv
  BY DEF Inv
<1>2. TypeInv'
  BY <1>1, TypeStep
<1>3. LoadInv'
  BY <1>1, LoadStep
<1>4. ServingInv' /\ StopInv' /\ AgreeInv'
  BY <1>1, ServingStep, StopStep, AgreeStep
<1>5. MainInv'
  BY <1>1, <1>2, NewestGrows
<1>6. OrderInv'
  BY <1>1, <1>2, OrderStep
<1> QED
  BY <1>2, <1>3, <1>4, <1>5, <1>6 DEF Inv

LEMMA InvHolds == Spec => []Inv
BY InvInit, InvStep, PTL DEF Spec

\* The lambdas of add_file and remove_file never follow the null pointer of a map that
\* is not made yet, or was reset, from the first registration to the end of the
\* server, whatever the refresh thread does meanwhile: register_io_service posts the
\* make and unregister_io_service takes the worker out of the vector before it posts
\* the reset.  That holds for a worker whose own two steps met no update; for the
\* others the code promises nothing.  With it the types of all variables.
THEOREM UpdatesMeetMaps == Spec => []FileCacheInv
<1>1. Inv => FileCacheInv
  BY UpdatesFind DEF Inv, FileCacheInv, TypeInv
<1> QED
  BY <1>1, InvHolds, PTL

\* What a worker's map will have for a file after all its posted updates.
LEMMA FinallyHas ==
  ASSUME NEW w \in Workers, NEW f \in Files, Agrees(w, f), TypeInv
  PROVE  WillHave(w, f, AfterUpdates(w, f))
<1>1. CASE Waiting(w, f) = {}
  BY <1>1 DEF WillHave, AfterUpdates
<1>2. CASE Waiting(w, f) # {}
  <2>1. \E k \in Waiting(w, f) : \A j \in Waiting(w, f) : j <= k
    BY <1>2 DEF Agrees, Last
  <2> DEFINE k == CHOOSE i \in Waiting(w, f) : \A j \in Waiting(w, f) : j <= i
  <2>2. k \in Waiting(w, f) /\ \A j \in Waiting(w, f) : j <= k
    BY <2>1
  <2>3. AfterUpdates(w, f) = posted[w][k].file
    BY <1>2 DEF AfterUpdates
  <2> HIDE DEF k
  <2> QED
    BY <2>2, <2>3 DEF WillHave, Last
<1> QED
  BY <1>1, <1>2

\* The maps of all workers that were not registered during an update are on their way
\* to the content of the main map: add_file and remove_file post the same update to
\* every registered io service and then store it, and a lookup that copies from the
\* main map meanwhile is overtaken by the update in its worker's queue.
THEOREM MapsAgree == Spec => []LocalMapsAgree
<1>1. ASSUME Inv PROVE LocalMapsAgree
  <2> SUFFICES ASSUME Serving, NEW w \in Workers \ overlapped, NEW f \in Files, m_file_map[f] # NoFile
               PROVE  AfterUpdates(w, f) \in
                        {NoFile, m_file_map[f]} \cup (IF refresh.name = f THEN {refresh.file} ELSE {})
    BY DEF LocalMapsAgree
  <2>1. Agrees(w, f) /\ TypeInv
    BY <1>1 DEF Inv, AgreeInv
  <2>2. PICK x : x = AfterUpdates(w, f)
    OBVIOUS
  <2>3. WillHave(w, f, x)
    BY <2>1, <2>2, FinallyHas
  <2>4. x = NoFile \/ x = m_file_map[f] \/ (Loading(f) /\ x = refresh.file)
    BY <2>1, <2>3 DEF Agrees
  <2> QED
    BY <2>2, <2>4 DEF Loading
<1> QED
  BY <1>1, InvHolds, PTL

\* The posted update that worker w runs, when it is the only one that waits, is not
\* older than what w served before, and if it removes the file, neither is the main
\* map.
LEMMA RunsForward ==
  ASSUME Inv, Serving, NEW w \in Workers \ overlapped, NEW f \in Files, RunPosted(w),
         Served(w, f) # NoFile, Served(w, f)' # NoFile, \A i, j \in Waiting(w, f) : i = j
  PROVE  Served(w, f)'.data >= Served(w, f).data
<1>1. /\ TypeInv /\ ServingInv /\ MainInv /\ Agrees(w, f) /\ Ordered(w, f)
      /\ posted \in [Workers -> Seq(Lambdas)] /\ posted[w] # <<>>
      /\ posted' = [posted EXCEPT ![w] = Tail(@)] /\ m_file_map' = m_file_map
  BY DEF Inv, AgreeInv, OrderInv, RunPosted, TypeInv, TypeOK
<1>2. /\ Local(w, f) \in LoadedFile \cup {NoFile} /\ m_file_map[f] \in LoadedFile \cup {NoFile}
      /\ \A k \in Waiting(w, f) : posted[w][k].file \in LoadedFile \cup {NoFile}
      /\ \A x \in LoadedFile : x.data \in Nat
  BY <1>1, DataTypes
<1>3. 1 \in Waiting(w, f) <=> posted[w][1].do = "update" /\ posted[w][1].name = f
  BY <1>1, RanWaiting
<1>4. Local(w, f)' = IF 1 \in Waiting(w, f) THEN posted[w][1].file ELSE Local(w, f)
  BY <1>1, <1>3, RanLocal
<1>5. CASE 1 \notin Waiting(w, f)
  BY <1>1, <1>2, <1>4, <1>5 DEF Served
<1>6. CASE 1 \in Waiting(w, f)
  <2>1. PICK u : u = posted[w][1].file
    OBVIOUS
  <2>2. Waiting(w, f) = {1} /\ WillHave(w, f, u) /\ u \in LoadedFile \cup {NoFile}
    BY <1>1, <1>2, <1>6, <2>1 DEF WillHave, Agrees, Last
  <2>3. Local(w, f)' = u
    BY <1>4, <1>6, <2>1
  <2>4. CASE Local(w, f) # NoFile /\ u # NoFile
    <3>1. Local(w, f).data <= u.data
      BY <1>1, <1>6, <2>1, <2>2, <2>4 DEF Ordered
    <3> QED
      BY <1>2, <2>2, <2>3, <2>4, <3>1 DEF Served
  <2>5. CASE Local(w, f) # NoFile /\ u = NoFile
    <3>1. m_file_map[f] # NoFile /\ Served(w, f)' = m_file_map[f]
      BY <1>1, <2>3, <2>5 DEF Served
    <3>2. Removing(f)
      BY <1>1, <2>2, <2>5, <3>1 DEF Agrees
    <3>3. Newest(f) = m_file_map[f].data
      BY <3>1, <3>2 DEF Newest, Removing, Loading
    <3>4. Local(w, f).data <= Newest(f)
      BY <1>1, <2>5 DEF Ordered
    <3> QED
      BY <1>2, <2>5, <3>1, <3>3, <3>4 DEF Served
  <2>6. CASE Local(w, f) = NoFile /\ u # NoFile
    <3>1. m_file_map[f] # NoFile /\ Served(w, f) = m_file_map[f] /\ Served(w, f)' = u
      BY <2>3, <2>6 DEF Served
    <3>2. u = m_file_map[f] \/ (Loading(f) /\ u = refresh.file)
      BY <1>1, <2>2, <2>6, <3>1 DEF Agrees
    <3> QED
      BY <1>1, <1>2, <2>2, <2>6, <3>1, <3>2 DEF MainInv
  <2>7. CASE Local(w, f) = NoFile /\ u = NoFile
    BY <1>1, <1>2, <2>3, <2>7 DEF Served
  <2> QED
    BY <2>4, <2>5, <2>6, <2>7
<1> QED
  BY <1>5, <1>6

LEMMA ServesForward ==
  ASSUME Inv, Next, Serving, NEW w \in Workers \ overlapped, NEW f \in Files,
         Served(w, f) # NoFile, Served(w, f)' # NoFile, \A i, j \in Waiting(w, f) : i = j
  PROVE  Served(w, f)'.data >= Served(w, f).data
<1>1. TypeInv /\ ServingInv /\ MainInv
  BY DEF Inv
<1>2. /\ Local(w, f) \in LoadedFile \cup {NoFile} /\ m_file_map[f] \in LoadedFile \cup {NoFile}
      /\ refresh.file \in LoadedFile \cup {NoFile} /\ \A x \in LoadedFile : x.data \in Nat
      /\ DOMAIN m_file_map = Files
  BY <1>1, DataTypes DEF TypeInv, TypeOK
<1>3. ASSUME Local(w, f)' = Local(w, f), m_file_map'[f] = m_file_map[f]
      PROVE  Served(w, f)'.data >= Served(w, f).data
  BY <1>2, <1>3 DEF Served
<1>4. CASE Refresh
  <2>1. UNCHANGED m_file_map_local /\ (StoresFile \/ UNCHANGED m_file_map)
    BY <1>1, <1>4, RefreshMoves
  <2>2. Local(w, f)' = Local(w, f)
    BY <2>1 DEF Local
  <2>3. CASE StoresFile
    <3>1. m_file_map'[f] = IF f = refresh.name THEN refresh.file ELSE m_file_map[f]
      BY <1>2, <2>3 DEF StoresFile
    <3>2. CASE f = refresh.name
      <4>1. refresh.file # NoFile => Loading(f)
        BY <2>3, <3>2 DEF StoresFile, Loading, Updating
      <4>2. CASE Local(w, f) = NoFile
        <5>1. Served(w, f) = m_file_map[f] /\ Served(w, f)' = refresh.file
          BY <2>2, <3>1, <3>2, <4>2 DEF Served
        <5> QED
          BY <1>1, <1>2, <4>1, <5>1 DEF MainInv
      <4>3. CASE Local(w, f) # NoFile
        BY <1>2, <2>2, <4>3 DEF Served
      <4> QED
        BY <4>2, <4>3
    <3> QED
      BY <1>3, <2>2, <3>1, <3>2
  <2> QED
    BY <1>3, <2>1, <2>2, <2>3
<1>5. ASSUME NEW v \in Workers, RunPosted(v) PROVE Served(w, f)'.data >= Served(w, f).data
  <2>1. CASE v = w
    BY <1>5, <2>1, RunsForward
  <2>2. CASE v # w
    <3>1. m_file_map_local'[w] = m_file_map_local[w] /\ m_file_map' = m_file_map
      BY <1>1, <1>5, <2>2, RunsAlone DEF RunPosted
    <3> QED
      BY <1>3, <3>1 DEF Local
  <2> QED
    BY <2>1, <2>2
<1>6. ASSUME NEW v \in Workers, NEW g \in Files, CopyFromMain(v, g)
      PROVE  Served(w, f)'.data >= Served(w, f).data
  <2>1. m_file_map' = m_file_map
    BY <1>6 DEF CopyFromMain
  <2>2. CASE w = v /\ f = g
    <3>1. Local(w, f)' = m_file_map[f] /\ m_file_map[f] # NoFile /\ Local(w, f) = NoFile
      BY <1>1, <1>6, <2>2, CopiedLocal
    <3> QED
      BY <1>2, <2>1, <3>1 DEF Served
  <2>3. CASE w # v \/ f # g
    <3>1. Local(w, f)' = Local(w, f)
      BY <1>1, <1>6, <2>3, CopiedLocal
    <3> QED
      BY <1>3, <2>1, <3>1
  <2> QED
    BY <2>2, <2>3
<1>7. ASSUME UNCHANGED <<m_file_map, m_file_map_local>> PROVE Served(w, f)'.data >= Served(w, f).data
  BY <1>3, <1>7 DEF Local
<1>8. ASSUME NEW g \in Files, WriteFile(g) \/ DeleteFile(g) \/ StatThrows(g)
      PROVE  UNCHANGED <<m_file_map, m_file_map_local>>
  BY <1>8 DEF WriteFile, DeleteFile, StatThrows
<1>9. CASE \/ RegisterIoService \/ PostMake \/ UnregisterIoService \/ PostReset \/ Unregistered
           \/ StopServer \/ Destroy \/ FollowsFreedPointer
  BY <1>7, <1>9 DEF RegisterIoService, PostMake, UnregisterIoService, PostReset, Unregistered,
                    StopServer, Destroy, FollowsFreedPointer
<1> QED
  BY <1>4, <1>5, <1>6, <1>7, <1>8, <1>9 DEF Next, Main

\* A worker that was not registered during an update and keeps up with the refresh
\* thread never serves an older version of a file after a newer one, whichever of
\* get_file's copy from the main map and the posted update of its own map comes first.
THEOREM VersionsOnlyGrow == Spec => NeverBackwards
<1>1. ASSUME Inv, [Next]_vars
      PROVE  [\A w \in Workers \ overlapped, f \in Files :
                /\ Serving /\ Served(w, f) # NoFile /\ Served(w, f)' # NoFile
                /\ \A i, j \in Waiting(w, f) : i = j
                => Served(w, f)'.data >= Served(w, f).data]_vars
  BY <1>1, ServesForward
<1> QED
  BY <1>1, InvHolds, PTL DEF Spec, NeverBackwards

=============================================================================
