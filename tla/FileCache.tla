----------------------------- MODULE FileCache -----------------------------
(***************************************************************************)
(* file_cache from the start of the server to its end; the directory was   *)
(* added by the bootstrap.  One refresh thread follows the file system; it *)
(* owns the updates of the main map (m_file_map, under m_file_mtx) and     *)
(* posts the same updates to every registered io service, where they       *)
(* change the worker's own map (m_file_map_local, no lock).  A request     *)
(* looks a file up in its worker's map first and copies what it finds in   *)
(* the main map.                                                           *)
(*                                                                         *)
(* The main thread changes the vector m_iosvcs without a lock and posts    *)
(* afterwards: a worker is registered, and unregistered, in two steps at   *)
(* any moment of the refresh thread, also while it iterates over the       *)
(* vector.  Its loop keeps the pointers it started with: it reads what     *)
(* erase left in the vector's memory, and memory that is freed when        *)
(* push_back moved the vector.  (The pointers that erase moves are moved   *)
(* at once.)                                                               *)
(*                                                                         *)
(* The history variable overlapped has the workers of which a registration *)
(* or an unregistration met an update: those for which nothing is          *)
(* promised.                                                               *)
(*                                                                         *)
(* The content of a file is its version: every change of a file gives it a *)
(* size or a modification time it did not have before.  A lookup runs in   *)
(* one piece on its worker thread, so what other threads can see of it     *)
(* happens at its lock; the refresh thread is split at every point where   *)
(* another thread or the file system can come in between.                  *)
(***************************************************************************)
EXTENDS Integers, Sequences

CONSTANTS
  Files,       \* the paths below the added directory
  NumWorkers,  \* the worker threads
  MaxVersion,  \* bound on the changes of one file
  NoFile,      \* nullptr: not in a map
  NoMap        \* nullptr: m_file_map_local before it is made and after its reset

Workers  == 1 .. NumWorkers
Versions == 1 .. MaxVersion

\* A loaded file: the size and time that were read, the data that was read.
LoadedFile == [stamp : Versions, data : Versions]

ASSUME FileAssumption ==
  /\ MaxVersion \in Nat \ {0} /\ NumWorkers \in Nat \ {0}
  /\ NoFile \notin LoadedFile
  /\ NoMap \notin [Files -> LoadedFile \cup {NoFile}]

VARIABLES
  disk,              \* per file: [exists, version]
  m_file_map,        \* the main map
  m_file_map_local,  \* per worker: its own map
  posted,            \* per worker: the posted lambdas, in order
  refresh,           \* the refresh thread: its place and its locals
  m_iosvcs,          \* the vector: its memory and its size
  main,              \* the main thread: the part of the server's life, the worker in hand
  m_stop,
  crashed,           \* the process died
  overlapped         \* history: the workers (un)registered during an update

server == <<m_iosvcs, main, m_stop, crashed>>
vars == <<disk, m_file_map, m_file_map_local, posted, refresh, server, overlapped>>

Lambdas == [do : {"make", "reset"}]
             \cup [do : {"update"}, name : Files, file : LoadedFile \cup {NoFile}]  \* NoFile: erase

RefreshThread ==
  [stale : BOOLEAN,                      \* the vector was moved under its loop
   at : {"sleep", "scan", "update", "ended"},  \* the loop it is in
   step : {"next", "read", "each", "post"},    \* where in add_file / remove_file
   i : 1 .. NumWorkers + 1, size : 0 .. NumWorkers,  \* the loop over m_iosvcs
   todo : SUBSET Files,                   \* directory entries to visit
   to_add : SUBSET Files, to_remove : SUBSET Files,
   name : Files \cup {NoFile},            \* the file in hand
   to : Workers \cup {0},                 \* the io service in hand
   stamp : Versions \cup {0},             \* what stat said of it
   file : LoadedFile \cup {NoFile}]       \* what was loaded of it

MainThread == [phase : {"starting", "serving", "stopping", "stopped"},
               worker : Workers,                \* the worker in hand
               step : {"next", "post", "wait"}] \* where in (un)register_io_service

TypeOK ==
  /\ disk \in [Files -> [exists : BOOLEAN, version : Versions]]
  /\ m_file_map \in [Files -> LoadedFile \cup {NoFile}]
  /\ m_file_map_local \in [Workers -> [Files -> LoadedFile \cup {NoFile}] \cup {NoMap}]
  /\ posted \in [Workers -> Seq(Lambdas)]
  /\ refresh \in RefreshThread
  /\ m_iosvcs.memory \in Seq(Workers) /\ m_iosvcs.size \in 0 .. Len(m_iosvcs.memory)
  /\ main \in MainThread
  /\ m_stop \in BOOLEAN /\ crashed \in BOOLEAN /\ overlapped \subseteq Workers

Exists(f) == disk[f].exists

EmptyMap == [f \in Files |-> NoFile]

Idle == [stale |-> FALSE, at |-> "sleep", step |-> "next", i |-> 1, size |-> 0,
         todo |-> {}, to_add |-> {}, to_remove |-> {},
         name |-> NoFile, to |-> 0, stamp |-> 0, file |-> NoFile]

\* add_directory has loaded the files that were there.
Init ==
  /\ disk \in [Files -> [exists : BOOLEAN, version : {1}]]
  /\ m_file_map = [f \in Files |->
                     IF Exists(f) THEN [stamp |-> 1, data |-> 1] ELSE NoFile]
  /\ m_file_map_local = [w \in Workers |-> NoMap]
  /\ posted = [w \in Workers |-> <<>>]
  /\ refresh = Idle
  /\ m_iosvcs = [memory |-> <<>>, size |-> 0]
  /\ main = [phase |-> "starting", worker |-> 1, step |-> "next"]
  /\ m_stop = FALSE /\ crashed = FALSE /\ overlapped = {}

-----------------------------------------------------------------------------
(* The file system: somebody writes or deletes files.                      *)

Deleted(f) ==
  /\ Exists(f) /\ disk[f].version < MaxVersion
  /\ disk' = [disk EXCEPT ![f] = [exists |-> FALSE, version |-> @.version + 1]]

WriteFile(f) ==
  /\ disk[f].version < MaxVersion
  /\ disk' = [disk EXCEPT ![f] = [exists |-> TRUE, version |-> @.version + 1]]
  /\ UNCHANGED <<m_file_map, m_file_map_local, posted, refresh, server, overlapped>>

DeleteFile(f) ==
  /\ Deleted(f)
  /\ UNCHANGED <<m_file_map, m_file_map_local, posted, refresh, server, overlapped>>

-----------------------------------------------------------------------------
(* The main thread.                                                        *)

Post(w, lambda) == posted' = [posted EXCEPT ![w] = Append(@, lambda)]

NextWorker(phase) ==
  main' = IF main.worker < NumWorkers
            THEN [main EXCEPT !.worker = @ + 1, !.step = "next"]
            ELSE [phase |-> phase, worker |-> 1, step |-> "next"]

\* An update is being posted to the io services and stored in the main map.
Updating == refresh.step \in {"each", "post"}

\* Its worker is in the vector, the lambda that makes its map is not posted yet.
Registering == main.phase = "starting" /\ main.step = "post"

\* The two ways to overlap: the vector changes during an update, or an update
\* starts while a worker is half registered.
VectorChanges == overlapped' = overlapped \cup (IF Updating THEN {main.worker} ELSE {})
UpdateStarts  == overlapped' = overlapped \cup (IF Registering THEN {main.worker} ELSE {})

\* push_back, which may move the vector to new memory ...
RegisterIoService ==
  /\ main.phase = "starting" /\ main.step = "next"
  /\ m_iosvcs' = [memory |-> Append(m_iosvcs.memory, main.worker), size |-> m_iosvcs.size + 1]
  /\ \E moved \in BOOLEAN : refresh' = [refresh EXCEPT !.stale = @ \/ (moved /\ Updating)]
  /\ main' = [main EXCEPT !.step = "post"]
  /\ VectorChanges
  /\ UNCHANGED <<disk, m_file_map, m_file_map_local, posted, m_stop, crashed>>

\* ... and then the post of the lambda that makes the map.
PostMake ==
  /\ Registering
  /\ Post(main.worker, [do |-> "make"])
  /\ NextWorker("serving")
  /\ UNCHANGED <<disk, m_file_map, m_file_map_local, refresh, m_iosvcs, m_stop, crashed, overlapped>>

StopServer ==
  /\ main.phase = "serving"
  /\ main' = [main EXCEPT !.phase = "stopping"]
  /\ UNCHANGED <<disk, m_file_map, m_file_map_local, posted, refresh, m_iosvcs, m_stop, crashed, overlapped>>

\* vector::erase moves the elements behind w, the last place keeps its pointer.
Erased(v, w) ==
  LET k == CHOOSE k \in 1 .. v.size : v.memory[k] = w IN
  [memory |-> [j \in DOMAIN v.memory |-> IF k <= j /\ j < v.size THEN v.memory[j + 1] ELSE v.memory[j]],
   size |-> v.size - 1]

\* Slip: the reset is posted, the io service stays in the vector.
BadUnregisterIoService ==
  /\ main.phase = "stopping" /\ main.step = "next"
  /\ main' = [main EXCEPT !.step = "post"]
  /\ UNCHANGED <<disk, m_file_map, m_file_map_local, posted, refresh, m_iosvcs, m_stop, crashed, overlapped>>

\* The erase ...
UnregisterIoService ==
  /\ main.phase = "stopping" /\ main.step = "next"
  /\ m_iosvcs' = Erased(m_iosvcs, main.worker)
  /\ main' = [main EXCEPT !.step = "post"]
  /\ VectorChanges
  /\ UNCHANGED <<disk, m_file_map, m_file_map_local, posted, refresh, m_stop, crashed>>

\* ... then the posted reset, for which io_service_post_wait waits.
PostReset ==
  /\ main.phase = "stopping" /\ main.step = "post"
  /\ Post(main.worker, [do |-> "reset"])
  /\ main' = [main EXCEPT !.step = "wait"]
  /\ UNCHANGED <<disk, m_file_map, m_file_map_local, refresh, m_iosvcs, m_stop, crashed, overlapped>>

\* The reset has run: the next worker; after the last the workers are stopped and
\* joined.
Unregistered ==
  /\ main.phase = "stopping" /\ main.step = "wait"
  /\ \A k \in DOMAIN posted[main.worker] : posted[main.worker][k].do # "reset"
  /\ NextWorker("stopped")
  /\ UNCHANGED <<disk, m_file_map, m_file_map_local, posted, refresh, m_iosvcs, m_stop, crashed, overlapped>>

\* The destructor, which joins the refresh thread.
Destroy ==
  /\ main.phase = "stopped" /\ ~m_stop
  /\ m_stop' = TRUE
  /\ UNCHANGED <<disk, m_file_map, m_file_map_local, posted, refresh, m_iosvcs, main, crashed, overlapped>>

-----------------------------------------------------------------------------
(* add_file and remove_file, called by the refresh thread.                 *)

\* The first half of file's constructor: exists, size and time.
StatFile(f) ==
  IF Exists(f)
    THEN [refresh EXCEPT !.name = f, !.step = "read", !.stamp = disk[f].version]
    ELSE refresh

\* The loop over m_iosvcs starts, with the end the vector has now.
StartPosts(thread, file) ==
  [thread EXCEPT !.step = "each", !.i = 1, !.size = m_iosvcs.size, !.file = file, !.stale = FALSE]

\* Slip: the data is read first, size and time after it.
BadReadFile ==
  /\ refresh.step = "read"
  /\ refresh' =
       IF Exists(refresh.name)
         THEN StartPosts(refresh, [stamp |-> disk[refresh.name].version, data |-> refresh.stamp])
         ELSE [refresh EXCEPT !.step = "next", !.name = NoFile, !.stamp = 0]
  /\ IF Exists(refresh.name) THEN UpdateStarts ELSE UNCHANGED overlapped
  /\ UNCHANGED <<disk, m_file_map, m_file_map_local, posted, server>>

\* The second half, the data.  A file that cannot be opened any more is not good
\* and changes nothing.
ReadFile ==
  /\ refresh.step = "read"
  /\ refresh' =
       IF Exists(refresh.name)
         THEN StartPosts(refresh, [stamp |-> refresh.stamp, data |-> disk[refresh.name].version])
         ELSE [refresh EXCEPT !.step = "next", !.name = NoFile, !.stamp = 0]
  /\ IF Exists(refresh.name) THEN UpdateStarts ELSE UNCHANGED overlapped
  /\ UNCHANGED <<disk, m_file_map, m_file_map_local, posted, server>>

\* The next pointer is read, after a move from the memory the vector had: the workers
\* were registered in order, and at that time none was erased ...
TakeIoService ==
  /\ refresh.step = "each" /\ refresh.i <= refresh.size
  /\ refresh' = [refresh EXCEPT
       !.step = "post", !.to = IF refresh.stale THEN refresh.i ELSE m_iosvcs.memory[refresh.i]]
  /\ UNCHANGED <<disk, m_file_map, m_file_map_local, posted, server, overlapped>>

\* ... and the update of that worker's map posted.
PostUpdate ==
  /\ refresh.step = "post"
  /\ Post(refresh.to, [do |-> "update", name |-> refresh.name, file |-> refresh.file])
  /\ refresh' = [refresh EXCEPT !.step = "each", !.i = @ + 1, !.to = 0]
  /\ UNCHANGED <<disk, m_file_map, m_file_map_local, server, overlapped>>

\* The update of the main map, under m_file_mtx: set or erase.
StoreInMain ==
  /\ refresh.step = "each" /\ refresh.i > refresh.size
  /\ m_file_map' = [m_file_map EXCEPT ![refresh.name] = refresh.file]
  /\ refresh' = [refresh EXCEPT !.step = "next", !.i = 1, !.size = 0, !.name = NoFile,
                                 !.stamp = 0, !.file = NoFile, !.stale = FALSE]
  /\ UNCHANGED <<disk, m_file_map_local, posted, server, overlapped>>

-----------------------------------------------------------------------------
(* The loop of the refresh thread.                                         *)

WakeUp ==
  /\ refresh.at = "sleep"
  /\ refresh' = [refresh EXCEPT !.at = "scan", !.todo = Files]
  /\ UNCHANGED <<disk, m_file_map, m_file_map_local, posted, server, overlapped>>

Scans(f)    == refresh.at = "scan" /\ refresh.step = "next" /\ f \in refresh.todo
Compares    == refresh.at = "scan" /\ refresh.step = "next" /\ refresh.todo = {}
Updates(f)  == refresh.at = "update" /\ refresh.step = "next" /\ f \in refresh.to_add

\* scan_directory visits an entry; a file the main map does not have is added.
ScanEntry(f) ==
  /\ Scans(f)
  /\ refresh' = [(IF m_file_map[f] = NoFile THEN StatFile(f) ELSE refresh)
                   EXCEPT !.todo = @ \ {f}]
  /\ UNCHANGED <<disk, m_file_map, m_file_map_local, posted, server, overlapped>>

\* Slip: only files that are gone are looked for.
BadCompareFiles ==
  /\ Compares
  /\ refresh' = [refresh EXCEPT !.at = "update",
                   !.to_remove = {f \in Files : m_file_map[f] # NoFile /\ ~Exists(f)}]
  /\ UNCHANGED <<disk, m_file_map, m_file_map_local, posted, server, overlapped>>

\* With m_file_mtx held: which files changed, which are gone.
CompareFiles ==
  /\ Compares
  /\ LET cached == {f \in Files : m_file_map[f] # NoFile}
     IN refresh' = [refresh EXCEPT
          !.at = "update",
          !.to_add = {f \in cached : Exists(f) /\ m_file_map[f].stamp # disk[f].version},
          !.to_remove = {f \in cached : ~Exists(f)}]
  /\ UNCHANGED <<disk, m_file_map, m_file_map_local, posted, server, overlapped>>

UpdateFile(f) ==
  /\ Updates(f)
  /\ refresh' = [StatFile(f) EXCEPT !.to_add = @ \ {f}]
  /\ UNCHANGED <<disk, m_file_map, m_file_map_local, posted, server, overlapped>>

\* remove_file: the local maps first, then the main map (StoreInMain).
RemoveFile(f) ==
  /\ refresh.at = "update" /\ refresh.step = "next"
  /\ refresh.to_add = {}
  /\ f \in refresh.to_remove
  /\ refresh' = [StartPosts(refresh, NoFile) EXCEPT !.to_remove = @ \ {f}, !.name = f]
  /\ UpdateStarts
  /\ UNCHANGED <<disk, m_file_map, m_file_map_local, posted, server>>

RoundEnds ==
  /\ refresh.at = "update" /\ refresh.step = "next"
  /\ refresh.to_add = {} /\ refresh.to_remove = {}
  /\ refresh' = IF m_stop THEN [Idle EXCEPT !.at = "ended"] ELSE Idle
  /\ UNCHANGED <<disk, m_file_map, m_file_map_local, posted, server, overlapped>>

\* A file that is deleted between exists and file_size: the exception leaves the
\* thread's function and ends the process.
StatThrows(f) ==
  /\ \/ Scans(f) /\ m_file_map[f] = NoFile
     \/ Compares /\ m_file_map[f] # NoFile
     \/ Updates(f)
  /\ Deleted(f)
  /\ crashed' = TRUE
  /\ UNCHANGED <<m_file_map, m_file_map_local, posted, refresh, m_iosvcs, main, m_stop, overlapped>>

\* The freed memory holds something else by now, which is not an io service.
FollowsFreedPointer ==
  /\ refresh.step = "each" /\ refresh.i <= refresh.size /\ refresh.stale
  /\ crashed' = TRUE
  /\ UNCHANGED <<disk, m_file_map, m_file_map_local, posted, refresh, m_iosvcs, main, m_stop, overlapped>>

Refresh ==
  /\ ~crashed
  /\ \/ WakeUp \/ CompareFiles \/ ReadFile \/ TakeIoService \/ PostUpdate \/ StoreInMain \/ RoundEnds
     \/ \E f \in Files : ScanEntry(f) \/ UpdateFile(f) \/ RemoveFile(f)

-----------------------------------------------------------------------------
(* The workers.                                                            *)

WorkerRuns == main.phase # "stopped" /\ ~crashed

\* Slip: the lambda of add_file inserts, which does not replace an entry.
BadUpdated(map, u) == [map EXCEPT ![u.name] = IF @ = NoFile \/ u.file = NoFile THEN u.file ELSE @]

\* The lambdas of add_file and remove_file.
Updated(map, u) == [map EXCEPT ![u.name] = u.file]

\* The io service runs the next posted lambda; an update without a map to update
\* follows a null pointer.
RunPosted(w) ==
  /\ WorkerRuns /\ posted[w] # <<>>
  /\ LET l == Head(posted[w]) IN
     IF l.do = "update" /\ m_file_map_local[w] = NoMap
       THEN crashed' = TRUE /\ UNCHANGED m_file_map_local
       ELSE /\ m_file_map_local' = [m_file_map_local EXCEPT ![w] =
                 CASE l.do = "make"   -> EmptyMap
                   [] l.do = "reset"  -> NoMap
                   [] l.do = "update" -> Updated(@, l)]
            /\ UNCHANGED crashed
  /\ posted' = [posted EXCEPT ![w] = Tail(@)]
  /\ UNCHANGED <<disk, m_file_map, refresh, m_iosvcs, main, m_stop, overlapped>>

\* Slip: the main map is asked even when the local map has the file.
BadCopyFromMain(w, f) ==
  /\ WorkerRuns /\ m_file_map_local[w] # NoMap
  /\ m_file_map[f] # NoFile
  /\ m_file_map_local' = [m_file_map_local EXCEPT ![w][f] = m_file_map[f]]
  /\ UNCHANGED <<disk, m_file_map, posted, refresh, server, overlapped>>

\* get_file on a miss in the local map that is a hit in the main map.  (Every
\* other lookup changes nothing.)
CopyFromMain(w, f) ==
  /\ WorkerRuns /\ m_file_map_local[w] # NoMap
  /\ m_file_map_local[w][f] = NoFile
  /\ m_file_map[f] # NoFile
  /\ m_file_map_local' = [m_file_map_local EXCEPT ![w][f] = m_file_map[f]]
  /\ UNCHANGED <<disk, m_file_map, posted, refresh, server, overlapped>>

Main ==
  /\ ~crashed
  /\ RegisterIoService \/ PostMake \/ UnregisterIoService \/ PostReset \/ Unregistered

Next == \/ Refresh \/ Main
        \/ \E w \in Workers : RunPosted(w) \/ \E f \in Files : CopyFromMain(w, f)
        \/ /\ ~crashed
           /\ \/ StopServer \/ Destroy \/ FollowsFreedPointer
              \/ \E f \in Files : WriteFile(f) \/ DeleteFile(f) \/ StatThrows(f)

Spec == Init /\ [][Next]_vars

\* The threads run; nobody has to stop the server, or to change or ask for files.
FairSpec == /\ Spec
            /\ WF_vars(Refresh) /\ WF_vars(Main)
            /\ \A w \in Workers : WF_vars(RunPosted(w))

-----------------------------------------------------------------------------
(* What a request of worker w is served (get_file).                        *)

Local(w, f) == IF m_file_map_local[w] = NoMap THEN NoFile ELSE m_file_map_local[w][f]

Served(w, f) == IF Local(w, f) # NoFile THEN Local(w, f) ELSE m_file_map[f]

Serving == main.phase \in {"starting", "serving"}

\* A posted update finds the worker's map, from the worker's registration to after its
\* reset, at every moment of the others' registration and unregistration: the map is
\* there, or the lambda that makes it is ahead in the queue.  The one exception is a
\* worker that was itself registered or unregistered during an update: the update may
\* come before the make or after the reset, and follows a null pointer.
UpdatesFindMap ==
  \A w \in Workers \ overlapped : \A i \in DOMAIN posted[w] :
    posted[w][i].do = "update" =>
      /\ m_file_map_local[w] = NoMap => \E j \in 1 .. i - 1 : posted[w][j].do = "make"
      /\ \A j \in 1 .. i - 1 : posted[w][j].do # "reset"

FileCacheInv == TypeOK /\ UpdatesFindMap

\* A file in the main map that looks unchanged is unchanged: size and time are
\* read before the data, so data that is newer than its stamp is loaded again,
\* and data that is older than its stamp cannot be.
ChangesAreDetected ==
  \A f \in Files :
    m_file_map[f] # NoFile /\ m_file_map[f].stamp = disk[f].version
      => m_file_map[f].data = disk[f].version

\* The updates of f that worker w has not run yet.
Waiting(w, f) == {i \in DOMAIN posted[w] : posted[w][i].do = "update" /\ posted[w][i].name = f}

\* What worker w's map will hold for f after the posted updates.
AfterUpdates(w, f) ==
  IF Waiting(w, f) = {}
    THEN Local(w, f)
    ELSE posted[w][CHOOSE i \in Waiting(w, f) : \A j \in Waiting(w, f) : j <= i].file

\* The maps of a serving server are on their way to the same content: with what is
\* posted to it, the map of a worker that was not registered during an update has no
\* other version of a file than the main map has or, while the file is updated, will
\* have, though lookups copy from the main map while updates are posted.  (A file the
\* main map does not have is another matter: RemovedFilesVanish.)
LocalMapsAgree ==
  Serving => \A w \in Workers \ overlapped, f \in Files :
    m_file_map[f] # NoFile
      => AfterUpdates(w, f) \in
           {NoFile, m_file_map[f]} \cup (IF refresh.name = f THEN {refresh.file} ELSE {})

\* While the server serves, a worker that was not registered during an update and
\* keeps up with the refresh thread (at most one update of the file waits) never
\* serves an older version after a newer one, although a lookup may copy the main
\* map's version while an update is on its way.  A worker that is busy for a whole
\* round may: it copies version 3, then runs the update to 2.
NeverBackwards ==
  [][\A w \in Workers \ overlapped, f \in Files :
       /\ Serving /\ Served(w, f) # NoFile /\ Served(w, f)' # NoFile
       /\ \A i, j \in Waiting(w, f) : i = j
       => Served(w, f)'.data >= Served(w, f).data]_vars

\* A server that goes on serving.
KeepsServing == main.phase = "serving" /\ ~crashed

\* file_cache.h: "The cache is loading and refreshing directories contents": a
\* file that stays as it is is served as it is by every worker that was not
\* registered during an update.
FilesBecomeFresh ==
  \A w \in Workers, f \in Files, v \in Versions :
    <>[](/\ KeepsServing /\ w \notin overlapped
         /\ disk[f] = [exists |-> TRUE, version |-> v])
      => <>[](Served(w, f) # NoFile /\ Served(w, f).data = v)

\* ... and a file that stays removed is served no more (test_file_cache.cpp).
RemovedFilesVanish ==
  \A w \in Workers, f \in Files :
    <>[](KeepsServing /\ w \notin overlapped /\ ~Exists(f)) => <>[](Served(w, f) = NoFile)

=============================================================================
