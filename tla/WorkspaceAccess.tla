---------------------------- MODULE WorkspaceAccess ----------------------------
(***************************************************************************)
(* Who may touch the workspace directory, and when: the exec_lock of       *)
(* AppState, taken for reading by UploadFile, GetFile, DeleteFile,         *)
(* ListFiles and RunSync (service/src/workspace.rs, runner.rs) and for     *)
(* writing by Run and RunPipeline, together with what these handlers do to *)
(* the directory between their suspension points.                          *)
(*                                                                         *)
(* A call makes one request.  A directory entry is a file name, or the     *)
(* temporary name `<name>.<session>.tmp_upload` of an uploading call,      *)
(* written as the call itself.  An entry points to an inode: an open file  *)
(* goes on being read after the entry was replaced.  An inode's data is a  *)
(* version: odd while somebody is writing it, even when it is whole.       *)
(*                                                                         *)
(* A tokio::fs operation runs on the blocking pool: when the client leaves *)
(* and the handler is dropped, with its lock guard, an operation already   *)
(* handed over still takes place.  The listing of a directory is taken at  *)
(* once, where tokio reads it in batches; the calls are valid requests:    *)
(* an invalid name is refused before anything is touched.                  *)
(***************************************************************************)
EXTENDS Naturals, FiniteSets

CONSTANTS Calls,    \* the calls made in a behaviour
          Names,    \* file names
          NoCall,   \* "the lock has no writer"
          NoFile    \* "no such entry"

ASSUME Distinct ==
    /\ Calls \cap Names = {}
    /\ NoCall \notin Calls
    /\ NoFile \notin Calls \cup Names

Entries == Names \cup Calls    \* final names and temporary upload names
Inodes  == Names \cup Calls    \* the file there at first, or the one a call creates

Rpcs == {"Upload", "Get", "Delete", "List", "RunSync", "Run", "RunPipeline"}
ReaderRpcs == Rpcs \ {"Run", "RunPipeline"}

VARIABLES
    req,      \* what every call asks for: [rpc, name]
    pc,       \* where every call's handler, or the task it spawned, is
    readers,  \* calls that hold a read guard
    writer,   \* the call that holds the write guard
    pool,     \* state of a call's operation on the blocking pool
    todo,     \* entries a directory scan has still to look at
    dir,      \* the workspace: entry -> inode
    data,     \* inode -> version
    src,      \* the inode a GetFile has opened
    got       \* the versions it has read

lock  == <<readers, writer>>
files == <<dir, data>>
vars  == <<req, pc, lock, pool, todo, files, src, got>>

(* Where a handler is while it holds a read guard, and a write guard. *)
Reading == {"admitted", "creating", "writing", "renaming", "removing", "scanning", "executing"}
Writing == {"launched", "modifying", "modified", "validating", "populating"}
Over    == {"ok", "error", "rejected", "gone"}
Places  == {"idle", "queued", "streaming", "opened", "reading"} \cup Reading
             \cup Writing \cup Over

Rpc(c)  == req[c].rpc
Name(c) == req[c].name

Init ==
    /\ req \in [Calls -> [rpc : Rpcs, name : Names]]
    /\ pc = [c \in Calls |-> "idle"]
    /\ readers = {}
    /\ writer = NoCall
    /\ pool = [c \in Calls |-> "none"]
    /\ todo = [c \in Calls |-> {}]
    /\ \E present \in SUBSET Names :
           /\ dir = [e \in Entries |-> IF e \in present THEN e ELSE NoFile]
           /\ data = [i \in Inodes |-> IF i \in present THEN 2 ELSE 0]
    /\ src = [c \in Calls |-> NoFile]
    /\ got = [c \in Calls |-> {}]

Goto(c, place) == pc' = [pc EXCEPT ![c] = place]

-----------------------------------------------------------------------------
(* The lock: tokio's RwLock, a fair queue.  Writers only try, so whoever   *)
(* waits waits for a writer to finish, and then all of them are let in.    *)

Queued == {c \in Calls : pc[c] = "queued"}

ArriveReader(c) ==
    /\ pc[c] = "idle" /\ Rpc(c) \in ReaderRpcs
    /\ IF writer = NoCall
       THEN readers' = readers \cup {c} /\ Goto(c, "admitted")
       ELSE Goto(c, "queued") /\ UNCHANGED readers
    /\ UNCHANGED <<req, writer, pool, todo, files, src, got>>

ReleaseRead(c, place) ==
    /\ readers' = readers \ {c}
    /\ Goto(c, place)
    /\ UNCHANGED writer

(* Slip: one waiter is woken, as if all of them wanted to write. *)
ReleaseWriteWakesOne(c, place) ==
    LET woken == IF Queued = {} THEN {} ELSE {CHOOSE d \in Queued : TRUE}
    IN  /\ writer' = NoCall
        /\ readers' = woken
        /\ pc' = [d \in Calls |-> IF d = c THEN place
                                  ELSE IF d \in woken THEN "admitted" ELSE pc[d]]

ReleaseWrite(c, place) ==
    /\ writer' = NoCall
    /\ readers' = Queued
    /\ pc' = [d \in Calls |-> IF d = c THEN place
                              ELSE IF d \in Queued THEN "admitted" ELSE pc[d]]

(* Slip: only another writer keeps a writer out. *)
TryWriteUnlessWriter(c, place) ==
    /\ pc[c] = "idle"
    /\ writer = NoCall
    /\ writer' = c
    /\ Goto(c, place)
    /\ UNCHANGED readers

TryWrite(c, place) ==
    /\ pc[c] = "idle"
    /\ readers = {} /\ writer = NoCall
    /\ writer' = c
    /\ Goto(c, place)
    /\ UNCHANGED readers

(* try_write_owned fails: FAILED_PRECONDITION, "another Run or RunPipeline *)
(* is active".                                                             *)
Refused(c) ==
    /\ pc[c] = "idle" /\ Rpc(c) \in {"Run", "RunPipeline"}
    /\ readers # {} \/ writer # NoCall
    /\ Goto(c, "rejected")
    /\ UNCHANGED <<req, lock, pool, todo, files, src, got>>

(* The client goes away; hyper drops the handler's future.                 *)
ClientLeaves(c) ==
    /\ Rpc(c) \in ReaderRpcs
    /\ pc[c] \in Reading \cup {"queued"}
    /\ ReleaseRead(c, "gone")
    /\ UNCHANGED <<req, pool, todo, files, src, got>>

-----------------------------------------------------------------------------
(* UploadFile *)

(* The first chunk, with the name: the temporary file is to be created. *)
UploadBegins(c) ==
    /\ pc[c] = "admitted" /\ Rpc(c) = "Upload"
    /\ pool' = [pool EXCEPT ![c] = "create"]
    /\ Goto(c, "creating")
    /\ UNCHANGED <<req, lock, todo, files, src, got>>

PoolCreates(c) ==
    /\ pool[c] = "create"
    /\ dir' = [dir EXCEPT ![c] = c]
    /\ data' = [data EXCEPT ![c] = 1]
    /\ pool' = [pool EXCEPT ![c] = "done"]
    /\ UNCHANGED <<req, pc, lock, todo, src, got>>

UploadWrites(c) ==
    /\ pc[c] = "creating" /\ pool[c] = "done"
    /\ pool' = [pool EXCEPT ![c] = "none"]
    /\ Goto(c, "writing")
    /\ UNCHANGED <<req, lock, todo, files, src, got>>

(* No name, a second name, a broken stream, a failed write: the handler    *)
(* returns the error and leaves the temporary file where it is.            *)
UploadFails(c) ==
    /\ pc[c] \in {"admitted", "writing"} /\ Rpc(c) = "Upload"
    /\ ReleaseRead(c, "error")
    /\ UNCHANGED <<req, pool, todo, files, src, got>>

(* Slip: the file is renamed without having been completed. *)
UploadPublishesUnsynced(c) ==
    /\ pc[c] = "writing" /\ Rpc(c) = "Upload"
    /\ pool' = [pool EXCEPT ![c] = "rename"]
    /\ Goto(c, "renaming")
    /\ UNCHANGED <<req, lock, todo, files, src, got>>

(* Slip: the reply does not wait for the rename. *)
UploadPublishesLater(c) ==
    /\ pc[c] = "writing" /\ Rpc(c) = "Upload"
    /\ data' = [data EXCEPT ![c] = 2]
    /\ pool' = [pool EXCEPT ![c] = "rename"]
    /\ ReleaseRead(c, "ok")
    /\ UNCHANGED <<req, todo, dir, src, got>>

(* The stream ends: the file is synced and closed, the rename handed over. *)
UploadPublishes(c) ==
    /\ pc[c] = "writing" /\ Rpc(c) = "Upload"
    /\ data' = [data EXCEPT ![c] = 2]
    /\ pool' = [pool EXCEPT ![c] = "rename"]
    /\ Goto(c, "renaming")
    /\ UNCHANGED <<req, lock, todo, dir, src, got>>

(* Slip: an existing file is overwritten instead of replaced. *)
PoolCopies(c) ==
    /\ pool[c] = "rename"
    /\ IF dir[Name(c)] = NoFile
       THEN dir' = [dir EXCEPT ![Name(c)] = dir[c], ![c] = NoFile] /\ UNCHANGED data
       ELSE dir' = [dir EXCEPT ![c] = NoFile] /\ data' = [data EXCEPT ![dir[Name(c)]] = 1]
    /\ pool' = [pool EXCEPT ![c] = "done"]
    /\ UNCHANGED <<req, pc, lock, todo, src, got>>

(* Slip: the file is linked to its name and the temporary name stays. *)
PoolLinks(c) ==
    /\ pool[c] = "rename"
    /\ dir' = [dir EXCEPT ![Name(c)] = dir[c]]
    /\ pool' = [pool EXCEPT ![c] = "done"]
    /\ UNCHANGED <<req, pc, lock, todo, data, src, got>>

PoolRenames(c) ==
    /\ pool[c] = "rename"
    /\ dir' = [dir EXCEPT ![Name(c)] = dir[c], ![c] = NoFile]
    /\ pool' = [pool EXCEPT ![c] = "done"]
    /\ UNCHANGED <<req, pc, lock, todo, data, src, got>>

-----------------------------------------------------------------------------
(* DeleteFile *)

DeleteFindsNothing(c) ==
    /\ pc[c] = "admitted" /\ Rpc(c) = "Delete"
    /\ dir[Name(c)] = NoFile
    /\ ReleaseRead(c, "error")
    /\ UNCHANGED <<req, pool, todo, files, src, got>>

DeleteRemoves(c) ==
    /\ pc[c] = "admitted" /\ Rpc(c) = "Delete"
    /\ dir[Name(c)] # NoFile
    /\ pool' = [pool EXCEPT ![c] = "remove"]
    /\ Goto(c, "removing")
    /\ UNCHANGED <<req, lock, todo, files, src, got>>

PoolRemoves(c) ==
    /\ pool[c] = "remove"
    /\ pool' = [pool EXCEPT ![c] = IF dir[Name(c)] = NoFile THEN "failed" ELSE "done"]
    /\ dir' = [dir EXCEPT ![Name(c)] = NoFile]
    /\ UNCHANGED <<req, pc, lock, todo, data, src, got>>

(* The handler of an upload or a delete gets the result and returns. *)
PoolReturns(c) ==
    /\ pc[c] \in {"renaming", "removing"}
    /\ pool[c] \in {"done", "failed"}
    /\ ReleaseRead(c, IF pool[c] = "done" THEN "ok" ELSE "error")
    /\ UNCHANGED <<req, pool, todo, files, src, got>>

-----------------------------------------------------------------------------
(* GetFile *)

GetFindsNothing(c) ==
    /\ pc[c] = "admitted" /\ Rpc(c) = "Get"
    /\ dir[Name(c)] = NoFile
    /\ ReleaseRead(c, "error")
    /\ UNCHANGED <<req, pool, todo, files, src, got>>

(* The handler spawns the streaming task and returns: the guard is dropped *)
(* before the task has opened the file.                                    *)
GetReplies(c) ==
    /\ pc[c] = "admitted" /\ Rpc(c) = "Get"
    /\ dir[Name(c)] # NoFile
    /\ ReleaseRead(c, "streaming")
    /\ UNCHANGED <<req, pool, todo, files, src, got>>

(* Slip: the file is taken to be there still. *)
GetOpensUnchecked(c) ==
    /\ pc[c] = "streaming"
    /\ src' = [src EXCEPT ![c] = dir[Name(c)]]
    /\ Goto(c, "opened")
    /\ UNCHANGED <<req, lock, pool, todo, files, got>>

GetOpens(c) ==
    /\ pc[c] = "streaming"
    /\ src' = [src EXCEPT ![c] = dir[Name(c)]]
    /\ Goto(c, IF dir[Name(c)] = NoFile THEN "error" ELSE "opened")
    /\ UNCHANGED <<req, lock, pool, todo, files, got>>

(* Two reads stand for the loop of stream_file_chunks. *)
GetReads(c) ==
    /\ pc[c] \in {"opened", "reading"}
    /\ got' = [got EXCEPT ![c] = got[c] \cup {data[src[c]]}]
    /\ Goto(c, IF pc[c] = "opened" THEN "reading" ELSE "ok")
    /\ UNCHANGED <<req, lock, pool, todo, files, src>>

-----------------------------------------------------------------------------
(* ListFiles, RunSync and a pipeline step scan the directory: ListFiles    *)
(* asks for the metadata of every entry, the others copy every file.       *)

Present == {e \in Entries : dir[e] # NoFile}

ScanStarts(c) ==
    /\ pc[c] = "admitted" /\ Rpc(c) \in {"List", "RunSync"}
    /\ todo' = [todo EXCEPT ![c] = Present]
    /\ Goto(c, "scanning")
    /\ UNCHANGED <<req, lock, pool, files, src, got>>

ScanTakes(c) ==
    /\ pc[c] \in {"scanning", "populating"}
    /\ \E e \in todo[c] \cap Present : todo' = [todo EXCEPT ![c] = todo[c] \ {e}]
    /\ UNCHANGED <<req, pc, lock, pool, files, src, got>>

(* The entry was read from the directory and is not there any more. *)
ScanFails(c) ==
    /\ pc[c] = "scanning"
    /\ todo[c] \ Present # {}
    /\ ReleaseRead(c, "error")
    /\ UNCHANGED <<req, pool, todo, files, src, got>>

ListReturns(c) ==
    /\ pc[c] = "scanning" /\ Rpc(c) = "List" /\ todo[c] = {}
    /\ ReleaseRead(c, "ok")
    /\ UNCHANGED <<req, pool, todo, files, src, got>>

(* RunSync's process works in a temporary directory of its own. *)
RunSyncExecutes(c) ==
    /\ pc[c] = "scanning" /\ Rpc(c) = "RunSync" /\ todo[c] = {}
    /\ Goto(c, "executing")
    /\ UNCHANGED <<req, lock, pool, todo, files, src, got>>

RunSyncReturns(c) ==
    /\ pc[c] = "executing"
    /\ ReleaseRead(c, "ok")
    /\ UNCHANGED <<req, pool, todo, files, src, got>>

-----------------------------------------------------------------------------
(* Run: the process works in the workspace itself *)

RunStarts(c) ==
    /\ Rpc(c) = "Run"
    /\ TryWrite(c, "launched")
    /\ UNCHANGED <<req, pool, todo, files, src, got>>

(* The process opens a file for writing, truncating the one there. *)
RunModifies(c) ==
    /\ pc[c] = "launched"
    /\ LET i == IF dir[Name(c)] = NoFile THEN c ELSE dir[Name(c)]
       IN  /\ dir' = [dir EXCEPT ![Name(c)] = i]
           /\ data' = [data EXCEPT ![i] = data[i] + IF data[i] % 2 = 0 THEN 1 ELSE 2]
           /\ src' = [src EXCEPT ![c] = i]
    /\ Goto(c, "modifying")
    /\ UNCHANGED <<req, lock, pool, todo, got>>

RunCompletesFile(c) ==
    /\ pc[c] = "modifying"
    /\ data' = [data EXCEPT ![src[c]] = data[src[c]] + 1]
    /\ Goto(c, "modified")
    /\ UNCHANGED <<req, lock, pool, todo, dir, src, got>>

(* The process is over, by itself or killed, and its outputs are streamed. *)
RunEnds(c) ==
    /\ pc[c] \in {"launched", "modifying", "modified"}
    /\ ReleaseWrite(c, "ok")
    /\ UNCHANGED <<req, pool, todo, files, src, got>>

-----------------------------------------------------------------------------
(* RunPipeline: the lock is tried before the request is validated; every   *)
(* step is filled from the workspace and works in a directory of its own.  *)
(* One scan stands for those of all the steps.                             *)

PipelineStarts(c) ==
    /\ Rpc(c) = "RunPipeline"
    /\ TryWrite(c, "validating")
    /\ UNCHANGED <<req, pool, todo, files, src, got>>

PipelineRefused(c) ==
    /\ pc[c] = "validating"
    /\ ReleaseWrite(c, "error")
    /\ UNCHANGED <<req, pool, todo, files, src, got>>

PipelinePopulates(c) ==
    /\ pc[c] = "validating"
    /\ todo' = [todo EXCEPT ![c] = Present]
    /\ Goto(c, "populating")
    /\ UNCHANGED <<req, lock, pool, files, src, got>>

(* A step that cannot be filled ends the pipeline, and its lock. *)
PopulateFails(c) ==
    /\ pc[c] = "populating"
    /\ todo[c] \ Present # {}
    /\ ReleaseWrite(c, "error")
    /\ UNCHANGED <<req, pool, todo, files, src, got>>

PipelineEnds(c) ==
    /\ pc[c] = "populating" /\ todo[c] = {}
    /\ ReleaseWrite(c, "ok")
    /\ UNCHANGED <<req, pool, todo, files, src, got>>

-----------------------------------------------------------------------------
Upload(c) == UploadBegins(c) \/ UploadWrites(c) \/ UploadFails(c) \/ UploadPublishes(c)
Delete(c) == DeleteFindsNothing(c) \/ DeleteRemoves(c)
Get(c)    == GetFindsNothing(c) \/ GetReplies(c) \/ GetOpens(c) \/ GetReads(c)
Scan(c)   == ScanStarts(c) \/ ScanTakes(c) \/ ScanFails(c) \/ ListReturns(c)
RunSync(c) == RunSyncExecutes(c) \/ RunSyncReturns(c)
Run(c)    == RunStarts(c) \/ RunModifies(c) \/ RunCompletesFile(c) \/ RunEnds(c)
Pipeline(c) ==
    \/ PipelineStarts(c) \/ PipelineRefused(c) \/ PipelinePopulates(c)
    \/ PopulateFails(c) \/ PipelineEnds(c)

Handler(c) ==
    \/ ArriveReader(c) \/ Refused(c) \/ PoolReturns(c)
    \/ Upload(c) \/ Delete(c) \/ Get(c) \/ Scan(c) \/ RunSync(c) \/ Run(c)
    \/ Pipeline(c)

Pending == {"create", "rename", "remove"}    \* handed to the pool, not done

BlockingPool(c) == PoolCreates(c) \/ PoolRenames(c) \/ PoolRemoves(c)

AllOver ==
    /\ \A c \in Calls : pc[c] \in Over /\ pool[c] \notin Pending
    /\ UNCHANGED vars

Next ==
    \/ \E c \in Calls : Handler(c) \/ ClientLeaves(c) \/ BlockingPool(c)
    \/ AllOver

Spec == Init /\ [][Next]_vars

(* What a writer does once it has the lock.  It ends: its executables have *)
(* time limits, and its client is taken to read the stream.                *)
WriterWorks(c) == writer = c /\ (Run(c) \/ Pipeline(c) \/ ScanTakes(c))

FairSpec == Spec /\ \A c \in Calls : WF_vars(WriterWorks(c))

-----------------------------------------------------------------------------
(* Properties *)

TypeOK ==
    /\ req \in [Calls -> [rpc : Rpcs, name : Names]]
    /\ pc \in [Calls -> Places]
    /\ readers \subseteq Calls
    /\ writer \in Calls \cup {NoCall}
    /\ pool \in [Calls -> {"none", "done", "failed"} \cup Pending]
    /\ todo \in [Calls -> SUBSET Entries]
    /\ dir \in [Entries -> Inodes \cup {NoFile}]
    /\ data \in [Inodes -> Nat]
    /\ src \in [Calls -> Inodes \cup {NoFile}]
    /\ \A c \in Calls : pc[c] \in {"opened", "reading", "modifying"} => src[c] # NoFile
    /\ got \in [Calls -> SUBSET Nat]

(* While a Run or RunPipeline holds the lock no handler of a workspace RPC *)
(* or RunSync is at work, and nobody waits for a lock that is free.        *)
ExclusiveRuns ==
    /\ writer # NoCall => \A c \in Calls : pc[c] \notin Reading
    /\ \A c, d \in Calls : pc[c] \in Writing /\ pc[d] \in Writing => c = d
    /\ Queued # {} => writer # NoCall

(* While a Run or RunPipeline is active, the workspace is changed by that  *)
(* Run's own process, or by an operation that a departed client's handler  *)
(* had already handed to the blocking pool; by no other call.              *)
OnlyRunChangesWorkspace ==
    [][writer # NoCall /\ files' # files =>
          \/ Rpc(writer) = "Run" /\ pc[writer] \in {"launched", "modifying"}
          \/ \E c \in Calls : pc[c] = "gone" /\ pool[c] # pool'[c]]_vars

(* Publishing by rename: a file under its final name that an upload put    *)
(* there is never a partly written one, unless a Run has opened it since.  *)
UploadsPublishedWhole ==
    \A n \in Names : \A c \in Calls :
        dir[n] = c /\ Rpc(c) = "Upload" /\ data[c] <= 2 => data[c] = 2

(* Uploads and deletes never tear a file that is being streamed, even      *)
(* though GetFile streams without the lock: only a Run can.                *)
RunTouched(i) == data[i] > 2 \/ (i \in Calls /\ Rpc(i) = "Run")
TornOnlyByRun ==
    \A c \in Calls : Rpc(c) = "Get" /\ got[c] # {} /\ got[c] # {2} => RunTouched(src[c])

(* A temporary upload file that is left over belongs to an upload that     *)
(* failed or was abandoned, never to one that was acknowledged.            *)
OnlyFailedUploadsLeaveTemp ==
    \A c \in Calls : dir[c] # NoFile =>
        pc[c] \in {"creating", "writing", "renaming", "error", "gone"}

(* Whoever waits for the lock gets it: writers cannot starve readers.      *)
WaitersAdmitted == \A c \in Calls : pc[c] = "queued" ~> pc[c] # "queued"

-----------------------------------------------------------------------------
(* What the documentation says of the service *)

(* Workspace RPCs are blocked during a Run "to prevent modifying files     *)
(* mid-execution": nobody but the Run changes the workspace meanwhile.     *)
WorkspaceStableDuringRun ==
    [][writer # NoCall /\ files' # files =>
          Rpc(writer) = "Run" /\ pc[writer] \in {"launched", "modifying"}]_vars

(* RunSync "is always safe to call concurrently": it does not fail because *)
(* of the other calls.                                                     *)
RunSyncNeverFails == \A c \in Calls : Rpc(c) = "RunSync" => pc[c] # "error"
=============================================================================
