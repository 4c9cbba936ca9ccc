------------------------ MODULE WorkspaceAccessProofs ------------------------
(***************************************************************************)
(* What holds of the exec_lock and of the workspace directory for any      *)
(* number of calls and files (service/src/workspace.rs, runner.rs).        *)
(*                                                                         *)
(* The inductive invariant has four parts: the types; the lock, which is   *)
(* held exactly by the handlers that are at a place between taking and     *)
(* dropping it; the roles, which tie the place of a call, and what it has  *)
(* on the blocking pool, to its request; and the files, which say that     *)
(* whatever a name or an open file refers to was once written completely.  *)
(***************************************************************************)
EXTENDS WorkspaceAccess, TLAPS

(* A guard is held where the code holds it, by a Run or by readers. *)
LockInv ==
    /\ \A c \in Calls : c \in readers <=> pc[c] \in Reading
    /\ \A c \in Calls : c = writer <=> pc[c] \in Writing
    /\ writer # NoCall => readers = {}
    /\ \A c \in Calls : pc[c] = "queued" => writer # NoCall

(* Places and pool operations belong to the requests that reach them. *)
RoleInv ==
    \A c \in Calls :
        /\ pc[c] \in {"creating", "writing", "renaming"} => Rpc(c) = "Upload"
        /\ pc[c] \in {"launched", "modifying", "modified"} => Rpc(c) = "Run"
        /\ pool[c] = "create" => Rpc(c) = "Upload" /\ pc[c] \in {"creating", "gone"}
        /\ pool[c] = "rename" => Rpc(c) = "Upload" /\ pc[c] \in {"renaming", "gone"}
        /\ pool[c] = "remove" => pc[c] \in {"removing", "gone"}
        /\ got[c] # {} => pc[c] \in {"reading", "ok"}

(* The inode was written completely, or it is one that a Run created. *)
Whole(i) == data[i] >= 2 \/ (i \in Calls /\ Rpc(i) = "Run")

(* An upload whose file has only its temporary name, if it has any. *)
Unpublished(c) ==
    /\ Rpc(c) = "Upload"
    /\ \/ pc[c] \in {"idle", "queued", "admitted", "creating", "writing"}
       \/ pool[c] \in {"create", "rename"}

NamedInv ==
    /\ \A n \in Names : dir[n] # NoFile => Whole(dir[n])
    /\ \A c \in Calls : src[c] # NoFile => Whole(src[c])

TempInv ==
    \A c \in Calls :
        /\ dir[c] \in {c, NoFile}
        /\ dir[c] # NoFile => pc[c] \in {"creating", "writing", "renaming", "error", "gone"}
        /\ pc[c] = "renaming" /\ pool[c] = "done" => dir[c] = NoFile
        /\ pool[c] = "rename" => data[c] >= 2
        /\ Unpublished(c) => /\ \A n \in Names : dir[n] # c
                             /\ \A d \in Calls : src[d] # c

(* Readers of a file that no Run has touched have seen one version of it. *)
TornInv ==
    \A c \in Calls :
        Rpc(c) = "Get" /\ got[c] # {} => src[c] # NoFile /\ (got[c] = {2} \/ RunTouched(src[c]))

FilesInv == NamedInv /\ TempInv /\ TornInv

WorkspaceInv == TypeOK /\ LockInv /\ RoleInv /\ FilesInv

-----------------------------------------------------------------------------
LEMMA InitWorkspace == Init => WorkspaceInv
<1> SUFFICES ASSUME Init PROVE WorkspaceInv
  OBVIOUS
<1> USE Distinct DEF Init, Entries, Inodes, Rpc, Name
<1>1. TypeOK
  BY DEF TypeOK, Places, Pending
<1>2. LockInv /\ RoleInv
  BY DEF LockInv, RoleInv, Reading, Writing
<1>3. FilesInv
  BY DEF FilesInv, NamedInv, TempInv, TornInv, Whole, Unpublished
<1> QED
  BY <1>1, <1>2, <1>3 DEF WorkspaceInv

(* Every step keeps the types. *)
LEMMA TypeStep ==
    ASSUME TypeOK, NEW c \in Calls,
           Handler(c) \/ ClientLeaves(c) \/ BlockingPool(c)
    PROVE  TypeOK'
<1> USE Distinct DEF TypeOK, Places, Reading, Writing, Over, Pending, Entries, Inodes, Rpcs,
      Rpc, Name, lock, files, Queued, Present, Goto, ReleaseRead, ReleaseWrite, TryWrite
<1>1. CASE ArriveReader(c)
  <2>1. pc' \in [Calls -> Places] /\ readers' \subseteq Calls
    <3>1. CASE writer = NoCall
      BY <1>1, <3>1 DEF ArriveReader
    <3>2. CASE writer # NoCall
      BY <1>1, <3>2 DEF ArriveReader
    <3> QED
      BY <3>1, <3>2
  <2>2. \A d \in Calls : pc'[d] \in {"opened", "reading", "modifying"} => src'[d] # NoFile
    BY <1>1 DEF ArriveReader
  <2> QED
    BY <1>1, <2>1, <2>2 DEF ArriveReader
<1>2. CASE Refused(c)
  BY <1>2 DEF Refused
<1>3. CASE ClientLeaves(c)
  BY <1>3 DEF ClientLeaves
<1>4. CASE PoolReturns(c)
  BY <1>4 DEF PoolReturns
<1>5. CASE PoolCreates(c)
  BY <1>5 DEF PoolCreates
<1>6. CASE PoolRenames(c)
  BY <1>6 DEF PoolRenames
<1>7. CASE PoolRemoves(c)
  BY <1>7 DEF PoolRemoves
<1>8. CASE UploadBegins(c)
  BY <1>8 DEF UploadBegins
<1>9. CASE UploadWrites(c)
  BY <1>9 DEF UploadWrites
<1>10. CASE UploadFails(c)
  BY <1>10 DEF UploadFails
<1>11. CASE UploadPublishes(c)
  BY <1>11 DEF UploadPublishes
<1>12. CASE DeleteFindsNothing(c)
  BY <1>12 DEF DeleteFindsNothing
<1>13. CASE DeleteRemoves(c)
  BY <1>13 DEF DeleteRemoves
<1>14. CASE GetFindsNothing(c)
  BY <1>14 DEF GetFindsNothing
<1>15. CASE GetReplies(c)
  BY <1>15 DEF GetReplies
<1>16. CASE GetOpens(c)
  BY <1>16 DEF GetOpens
<1>17. CASE GetReads(c)
  BY <1>17 DEF GetReads
<1>18. CASE ScanStarts(c)
  BY <1>18 DEF ScanStarts
<1>19. CASE ScanTakes(c)
  BY <1>19 DEF ScanTakes
<1>20. CASE ScanFails(c)
  BY <1>20 DEF ScanFails
<1>21. CASE ListReturns(c)
  BY <1>21 DEF ListReturns
<1>22. CASE RunSyncExecutes(c)
  BY <1>22 DEF RunSyncExecutes
<1>23. CASE RunSyncReturns(c)
  BY <1>23 DEF RunSyncReturns
<1>24. CASE RunStarts(c)
  BY <1>24 DEF RunStarts
<1>25. CASE RunModifies(c)
  BY <1>25 DEF RunModifies
<1>26. CASE RunCompletesFile(c)
  BY <1>26 DEF RunCompletesFile
<1>27. CASE RunEnds(c)
  BY <1>27 DEF RunEnds
<1>28. CASE PipelineStarts(c)
  BY <1>28 DEF PipelineStarts
<1>29. CASE PipelineRefused(c)
  BY <1>29 DEF PipelineRefused
<1>30. CASE PipelinePopulates(c)
  BY <1>30 DEF PipelinePopulates
<1>31. CASE PopulateFails(c)
  BY <1>31 DEF PopulateFails
<1>32. CASE PipelineEnds(c)
  BY <1>32 DEF PipelineEnds
<1> QED
  BY <1>1, <1>2, <1>3, <1>4, <1>5, <1>6, <1>7, <1>8, <1>9, <1>10, <1>11,
     <1>12, <1>13, <1>14, <1>15, <1>16, <1>17, <1>18, <1>19, <1>20, <1>21, <1>22,
     <1>23, <1>24, <1>25, <1>26, <1>27, <1>28, <1>29, <1>30, <1>31, <1>32
  DEF Handler, BlockingPool, Upload, Delete, Get, Scan, RunSync, Run, Pipeline

(* Every step leaves the lock with those who are at a place that holds it. *)
LEMMA LockStep ==
    ASSUME TypeOK, LockInv, NEW c \in Calls,
           Handler(c) \/ ClientLeaves(c) \/ BlockingPool(c)
    PROVE  LockInv'
<1> USE Distinct DEF TypeOK, LockInv, Places, Reading, Writing, Over, Rpcs, ReaderRpcs,
      Rpc, lock, Queued, Goto, ReleaseRead, ReleaseWrite, TryWrite
<1>1. CASE ArriveReader(c)
  BY <1>1 DEF ArriveReader
<1>2. CASE Refused(c)
  BY <1>2 DEF Refused
<1>3. CASE ClientLeaves(c)
  BY <1>3 DEF ClientLeaves
<1>4. CASE PoolReturns(c)
  BY <1>4 DEF PoolReturns
<1>5. CASE PoolCreates(c)
  BY <1>5 DEF PoolCreates
<1>6. CASE PoolRenames(c)
  BY <1>6 DEF PoolRenames
<1>7. CASE PoolRemoves(c)
  BY <1>7 DEF PoolRemoves
<1>8. CASE UploadBegins(c)
  BY <1>8 DEF UploadBegins
<1>9. CASE UploadWrites(c)
  BY <1>9 DEF UploadWrites
<1>10. CASE UploadFails(c)
  BY <1>10 DEF UploadFails
<1>11. CASE UploadPublishes(c)
  BY <1>11 DEF UploadPublishes
<1>12. CASE DeleteFindsNothing(c)
  BY <1>12 DEF DeleteFindsNothing
<1>13. CASE DeleteRemoves(c)
  BY <1>13 DEF DeleteRemoves
<1>14. CASE GetFindsNothing(c)
  BY <1>14 DEF GetFindsNothing
<1>15. CASE GetReplies(c)
  BY <1>15 DEF GetReplies
<1>16. CASE GetOpens(c)
  BY <1>16 DEF GetOpens
<1>17. CASE GetReads(c)
  BY <1>17 DEF GetReads
<1>18. CASE ScanStarts(c)
  BY <1>18 DEF ScanStarts
<1>19. CASE ScanTakes(c)
  BY <1>19 DEF ScanTakes
<1>20. CASE ScanFails(c)
  BY <1>20 DEF ScanFails
<1>21. CASE ListReturns(c)
  BY <1>21 DEF ListReturns
<1>22. CASE RunSyncExecutes(c)
  BY <1>22 DEF RunSyncExecutes
<1>23. CASE RunSyncReturns(c)
  BY <1>23 DEF RunSyncReturns
<1>24. CASE RunStarts(c)
  BY <1>24 DEF RunStarts
<1>25. CASE RunModifies(c)
  BY <1>25 DEF RunModifies
<1>26. CASE RunCompletesFile(c)
  BY <1>26 DEF RunCompletesFile
<1>27. CASE RunEnds(c)
  BY <1>27 DEF RunEnds
<1>28. CASE PipelineStarts(c)
  BY <1>28 DEF PipelineStarts
<1>29. CASE PipelineRefused(c)
  BY <1>29 DEF PipelineRefused
<1>30. CASE PipelinePopulates(c)
  BY <1>30 DEF PipelinePopulates
<1>31. CASE PopulateFails(c)
  BY <1>31 DEF PopulateFails
<1>32. CASE PipelineEnds(c)
  BY <1>32 DEF PipelineEnds
<1> QED
  BY <1>1, <1>2, <1>3, <1>4, <1>5, <1>6, <1>7, <1>8, <1>9, <1>10, <1>11,
     <1>12, <1>13, <1>14, <1>15, <1>16, <1>17, <1>18, <1>19, <1>20, <1>21, <1>22,
     <1>23, <1>24, <1>25, <1>26, <1>27, <1>28, <1>29, <1>30, <1>31, <1>32
  DEF Handler, BlockingPool, Upload, Delete, Get, Scan, RunSync, Run, Pipeline

(* Every step keeps places and pool operations in their roles. *)
LEMMA RoleStep ==
    ASSUME TypeOK, RoleInv, NEW c \in Calls,
           Handler(c) \/ ClientLeaves(c) \/ BlockingPool(c)
    PROVE  RoleInv'
<1> USE Distinct DEF TypeOK, RoleInv, Reading, Pending, Rpc, lock, Queued, Goto, ReleaseRead, ReleaseWrite, TryWrite
<1>1. CASE ArriveReader(c)
  BY <1>1 DEF ArriveReader
<1>2. CASE Refused(c)
  BY <1>2 DEF Refused
<1>3. CASE ClientLeaves(c)
  BY <1>3 DEF ClientLeaves
<1>4. CASE PoolReturns(c)
  BY <1>4 DEF PoolReturns
<1>5. CASE PoolCreates(c)
  BY <1>5 DEF PoolCreates
<1>6. CASE PoolRenames(c)
  BY <1>6 DEF PoolRenames
<1>7. CASE PoolRemoves(c)
  BY <1>7 DEF PoolRemoves
<1>8. CASE UploadBegins(c)
  BY <1>8 DEF UploadBegins
<1>9. CASE UploadWrites(c)
  BY <1>9 DEF UploadWrites
<1>10. CASE UploadFails(c)
  BY <1>10 DEF UploadFails
<1>11. CASE UploadPublishes(c)
  BY <1>11 DEF UploadPublishes
<1>12. CASE DeleteFindsNothing(c)
  BY <1>12 DEF DeleteFindsNothing
<1>13. CASE DeleteRemoves(c)
  BY <1>13 DEF DeleteRemoves
<1>14. CASE GetFindsNothing(c)
  BY <1>14 DEF GetFindsNothing
<1>15. CASE GetReplies(c)
  BY <1>15 DEF GetReplies
<1>16. CASE GetOpens(c)
  BY <1>16 DEF GetOpens
<1>17. CASE GetReads(c)
  BY <1>17 DEF GetReads
<1>18. CASE ScanStarts(c)
  BY <1>18 DEF ScanStarts
<1>19. CASE ScanTakes(c)
  BY <1>19 DEF ScanTakes
<1>20. CASE ScanFails(c)
  BY <1>20 DEF ScanFails
<1>21. CASE ListReturns(c)
  BY <1>21 DEF ListReturns
<1>22. CASE RunSyncExecutes(c)
  BY <1>22 DEF RunSyncExecutes
<1>23. CASE RunSyncReturns(c)
  BY <1>23 DEF RunSyncReturns
<1>24. CASE RunStarts(c)
  BY <1>24 DEF RunStarts
<1>25. CASE RunModifies(c)
  BY <1>25 DEF RunModifies
<1>26. CASE RunCompletesFile(c)
  BY <1>26 DEF RunCompletesFile
<1>27. CASE RunEnds(c)
  BY <1>27 DEF RunEnds
<1>28. CASE PipelineStarts(c)
  BY <1>28 DEF PipelineStarts
<1>29. CASE PipelineRefused(c)
  BY <1>29 DEF PipelineRefused
<1>30. CASE PipelinePopulates(c)
  BY <1>30 DEF PipelinePopulates
<1>31. CASE PopulateFails(c)
  BY <1>31 DEF PopulateFails
<1>32. CASE PipelineEnds(c)
  BY <1>32 DEF PipelineEnds
<1> QED
  BY <1>1, <1>2, <1>3, <1>4, <1>5, <1>6, <1>7, <1>8, <1>9, <1>10, <1>11,
     <1>12, <1>13, <1>14, <1>15, <1>16, <1>17, <1>18, <1>19, <1>20, <1>21, <1>22,
     <1>23, <1>24, <1>25, <1>26, <1>27, <1>28, <1>29, <1>30, <1>31, <1>32
  DEF Handler, BlockingPool, Upload, Delete, Get, Scan, RunSync, Run, Pipeline

(* Every step keeps what names and open files refer to whole. *)
LEMMA NamedStep ==
    ASSUME WorkspaceInv, NEW c \in Calls,
           Handler(c) \/ ClientLeaves(c) \/ BlockingPool(c)
    PROVE  NamedInv'
<1> USE Distinct DEF WorkspaceInv, TypeOK, LockInv, RoleInv, FilesInv, NamedInv, TempInv,
      TornInv, Whole, Unpublished, RunTouched, Reading, Writing, Entries, Inodes,
      Rpc, Name, lock, files, Queued, Goto, ReleaseRead, ReleaseWrite, TryWrite
<1>1. CASE ArriveReader(c)
  BY <1>1 DEF ArriveReader
<1>2. CASE Refused(c)
  BY <1>2 DEF Refused
<1>3. CASE ClientLeaves(c)
  BY <1>3 DEF ClientLeaves
<1>4. CASE PoolReturns(c)
  BY <1>4 DEF PoolReturns
<1>5. CASE PoolCreates(c)
  BY <1>5 DEF PoolCreates
<1>6. CASE PoolRenames(c)
  BY <1>6 DEF PoolRenames
<1>7. CASE PoolRemoves(c)
  BY <1>7 DEF PoolRemoves
<1>8. CASE UploadBegins(c)
  BY <1>8 DEF UploadBegins
<1>9. CASE UploadWrites(c)
  BY <1>9 DEF UploadWrites
<1>10. CASE UploadFails(c)
  BY <1>10 DEF UploadFails
<1>11. CASE UploadPublishes(c)
  BY <1>11 DEF UploadPublishes
<1>12. CASE DeleteFindsNothing(c)
  BY <1>12 DEF DeleteFindsNothing
<1>13. CASE DeleteRemoves(c)
  BY <1>13 DEF DeleteRemoves
<1>14. CASE GetFindsNothing(c)
  BY <1>14 DEF GetFindsNothing
<1>15. CASE GetReplies(c)
  BY <1>15 DEF GetReplies
<1>16. CASE GetOpens(c)
  BY <1>16 DEF GetOpens
<1>17. CASE GetReads(c)
  BY <1>17 DEF GetReads
<1>18. CASE ScanStarts(c)
  BY <1>18 DEF ScanStarts
<1>19. CASE ScanTakes(c)
  BY <1>19 DEF ScanTakes
<1>20. CASE ScanFails(c)
  BY <1>20 DEF ScanFails
<1>21. CASE ListReturns(c)
  BY <1>21 DEF ListReturns
<1>22. CASE RunSyncExecutes(c)
  BY <1>22 DEF RunSyncExecutes
<1>23. CASE RunSyncReturns(c)
  BY <1>23 DEF RunSyncReturns
<1>24. CASE RunStarts(c)
  BY <1>24 DEF RunStarts
<1>25. CASE RunModifies(c)
  BY <1>25 DEF RunModifies
<1>26. CASE RunCompletesFile(c)
  BY <1>26 DEF RunCompletesFile
<1>27. CASE RunEnds(c)
  BY <1>27 DEF RunEnds
<1>28. CASE PipelineStarts(c)
  BY <1>28 DEF PipelineStarts
<1>29. CASE PipelineRefused(c)
  BY <1>29 DEF PipelineRefused
<1>30. CASE PipelinePopulates(c)
  BY <1>30 DEF PipelinePopulates
<1>31. CASE PopulateFails(c)
  BY <1>31 DEF PopulateFails
<1>32. CASE PipelineEnds(c)
  BY <1>32 DEF PipelineEnds
<1> QED
  BY <1>1, <1>2, <1>3, <1>4, <1>5, <1>6, <1>7, <1>8, <1>9, <1>10, <1>11,
     <1>12, <1>13, <1>14, <1>15, <1>16, <1>17, <1>18, <1>19, <1>20, <1>21, <1>22,
     <1>23, <1>24, <1>25, <1>26, <1>27, <1>28, <1>29, <1>30, <1>31, <1>32
  DEF Handler, BlockingPool, Upload, Delete, Get, Scan, RunSync, Run, Pipeline

(* Every step keeps unpublished uploads to themselves, and published ones
   without a temporary name. *)
LEMMA TempStep ==
    ASSUME WorkspaceInv, NEW c \in Calls,
           Handler(c) \/ ClientLeaves(c) \/ BlockingPool(c)
    PROVE  TempInv'
<1> USE Distinct DEF WorkspaceInv, TypeOK, LockInv, RoleInv, FilesInv, NamedInv, TempInv,
      TornInv, Whole, Unpublished, RunTouched, Reading, Writing, Entries, Inodes,
      Rpc, Name, lock, files, Queued, Goto, ReleaseRead, ReleaseWrite, TryWrite
<1>1. CASE ArriveReader(c)
  BY <1>1 DEF ArriveReader
<1>2. CASE Refused(c)
  BY <1>2 DEF Refused
<1>3. CASE ClientLeaves(c)
  BY <1>3 DEF ClientLeaves
<1>4. CASE PoolReturns(c)
  BY <1>4 DEF PoolReturns
<1>5. CASE PoolCreates(c)
  BY <1>5 DEF PoolCreates
<1>6. CASE PoolRenames(c)
  BY <1>6 DEF PoolRenames
<1>7. CASE PoolRemoves(c)
  BY <1>7 DEF PoolRemoves
<1>8. CASE UploadBegins(c)
  BY <1>8 DEF UploadBegins
<1>9. CASE UploadWrites(c)
  BY <1>9 DEF UploadWrites
<1>10. CASE UploadFails(c)
  BY <1>10 DEF UploadFails
<1>11. CASE UploadPublishes(c)
  BY <1>11 DEF UploadPublishes
<1>12. CASE DeleteFindsNothing(c)
  BY <1>12 DEF DeleteFindsNothing
<1>13. CASE DeleteRemoves(c)
  BY <1>13 DEF DeleteRemoves
<1>14. CASE GetFindsNothing(c)
  BY <1>14 DEF GetFindsNothing
<1>15. CASE GetReplies(c)
  BY <1>15 DEF GetReplies
<1>16. CASE GetOpens(c)
  BY <1>16 DEF GetOpens
<1>17. CASE GetReads(c)
  BY <1>17 DEF GetReads
<1>18. CASE ScanStarts(c)
  BY <1>18 DEF ScanStarts
<1>19. CASE ScanTakes(c)
  BY <1>19 DEF ScanTakes
<1>20. CASE ScanFails(c)
  BY <1>20 DEF ScanFails
<1>21. CASE ListReturns(c)
  BY <1>21 DEF ListReturns
<1>22. CASE RunSyncExecutes(c)
  BY <1>22 DEF RunSyncExecutes
<1>23. CASE RunSyncReturns(c)
  BY <1>23 DEF RunSyncReturns
<1>24. CASE RunStarts(c)
  BY <1>24 DEF RunStarts
<1>25. CASE RunModifies(c)
  BY <1>25 DEF RunModifies
<1>26. CASE RunCompletesFile(c)
  BY <1>26 DEF RunCompletesFile
<1>27. CASE RunEnds(c)
  BY <1>27 DEF RunEnds
<1>28. CASE PipelineStarts(c)
  BY <1>28 DEF PipelineStarts
<1>29. CASE PipelineRefused(c)
  BY <1>29 DEF PipelineRefused
<1>30. CASE PipelinePopulates(c)
  BY <1>30 DEF PipelinePopulates
<1>31. CASE PopulateFails(c)
  BY <1>31 DEF PopulateFails
<1>32. CASE PipelineEnds(c)
  BY <1>32 DEF PipelineEnds
<1> QED
  BY <1>1, <1>2, <1>3, <1>4, <1>5, <1>6, <1>7, <1>8, <1>9, <1>10, <1>11,
     <1>12, <1>13, <1>14, <1>15, <1>16, <1>17, <1>18, <1>19, <1>20, <1>21, <1>22,
     <1>23, <1>24, <1>25, <1>26, <1>27, <1>28, <1>29, <1>30, <1>31, <1>32
  DEF Handler, BlockingPool, Upload, Delete, Get, Scan, RunSync, Run, Pipeline

(* Every step keeps untouched files the same for those who read them. *)
LEMMA TornStep ==
    ASSUME WorkspaceInv, NEW c \in Calls,
           Handler(c) \/ ClientLeaves(c) \/ BlockingPool(c)
    PROVE  TornInv'
<1> USE Distinct DEF WorkspaceInv, TypeOK, LockInv, RoleInv, FilesInv, NamedInv, TempInv,
      TornInv, Whole, Unpublished, RunTouched, Reading, Writing, Entries, Inodes,
      Rpc, Name, lock, files, Queued, Goto, ReleaseRead, ReleaseWrite, TryWrite
<1>1. CASE ArriveReader(c)
  BY <1>1 DEF ArriveReader
<1>2. CASE Refused(c)
  BY <1>2 DEF Refused
<1>3. CASE ClientLeaves(c)
  BY <1>3 DEF ClientLeaves
<1>4. CASE PoolReturns(c)
  BY <1>4 DEF PoolReturns
<1>5. CASE PoolCreates(c)
  BY <1>5 DEF PoolCreates
<1>6. CASE PoolRenames(c)
  BY <1>6 DEF PoolRenames
<1>7. CASE PoolRemoves(c)
  BY <1>7 DEF PoolRemoves
<1>8. CASE UploadBegins(c)
  BY <1>8 DEF UploadBegins
<1>9. CASE UploadWrites(c)
  BY <1>9 DEF UploadWrites
<1>10. CASE UploadFails(c)
  BY <1>10 DEF UploadFails
<1>11. CASE UploadPublishes(c)
  BY <1>11 DEF UploadPublishes
<1>12. CASE DeleteFindsNothing(c)
  BY <1>12 DEF DeleteFindsNothing
<1>13. CASE DeleteRemoves(c)
  BY <1>13 DEF DeleteRemoves
<1>14. CASE GetFindsNothing(c)
  BY <1>14 DEF GetFindsNothing
<1>15. CASE GetReplies(c)
  BY <1>15 DEF GetReplies
<1>16. CASE GetOpens(c)
  BY <1>16 DEF GetOpens
<1>17. CASE GetReads(c)
  BY <1>17 DEF GetReads
<1>18. CASE ScanStarts(c)
  BY <1>18 DEF ScanStarts
<1>19. CASE ScanTakes(c)
  BY <1>19 DEF ScanTakes
<1>20. CASE ScanFails(c)
  BY <1>20 DEF ScanFails
<1>21. CASE ListReturns(c)
  BY <1>21 DEF ListReturns
<1>22. CASE RunSyncExecutes(c)
  BY <1>22 DEF RunSyncExecutes
<1>23. CASE RunSyncReturns(c)
  BY <1>23 DEF RunSyncReturns
<1>24. CASE RunStarts(c)
  BY <1>24 DEF RunStarts
<1>25. CASE RunModifies(c)
  BY <1>25 DEF RunModifies
<1>26. CASE RunCompletesFile(c)
  BY <1>26 DEF RunCompletesFile
<1>27. CASE RunEnds(c)
  BY <1>27 DEF RunEnds
<1>28. CASE PipelineStarts(c)
  BY <1>28 DEF PipelineStarts
<1>29. CASE PipelineRefused(c)
  BY <1>29 DEF PipelineRefused
<1>30. CASE PipelinePopulates(c)
  BY <1>30 DEF PipelinePopulates
<1>31. CASE PopulateFails(c)
  BY <1>31 DEF PopulateFails
<1>32. CASE PipelineEnds(c)
  BY <1>32 DEF PipelineEnds
<1> QED
  BY <1>1, <1>2, <1>3, <1>4, <1>5, <1>6, <1>7, <1>8, <1>9, <1>10, <1>11,
     <1>12, <1>13, <1>14, <1>15, <1>16, <1>17, <1>18, <1>19, <1>20, <1>21, <1>22,
     <1>23, <1>24, <1>25, <1>26, <1>27, <1>28, <1>29, <1>30, <1>31, <1>32
  DEF Handler, BlockingPool, Upload, Delete, Get, Scan, RunSync, Run, Pipeline

-----------------------------------------------------------------------------
(* Handlers, departing clients and the blocking pool keep the invariant. *)
LEMMA InvStep == WorkspaceInv /\ [Next]_vars => WorkspaceInv'
<1> SUFFICES ASSUME WorkspaceInv, [Next]_vars PROVE WorkspaceInv'
  OBVIOUS
<1>1. ASSUME NEW c \in Calls, Handler(c) \/ ClientLeaves(c) \/ BlockingPool(c)
      PROVE  WorkspaceInv'
  <2>1. TypeOK' /\ LockInv' /\ RoleInv'
    BY <1>1, TypeStep, LockStep, RoleStep DEF WorkspaceInv
  <2>2. NamedInv' /\ TempInv' /\ TornInv'
    BY <1>1, NamedStep, TempStep, TornStep
  <2> QED
    BY <2>1, <2>2 DEF WorkspaceInv, FilesInv
<1>2. CASE UNCHANGED vars
  BY <1>2 DEF WorkspaceInv, TypeOK, LockInv, RoleInv, FilesInv, NamedInv, TempInv,
              TornInv, Whole, Unpublished, RunTouched, Rpc, vars, lock, files
<1> QED
  BY <1>1, <1>2 DEF Next, AllOver

(* The inductive invariant holds in every behaviour of the service. *)
THEOREM WorkspaceInvariant == Spec => []WorkspaceInv
  BY InitWorkspace, InvStep, PTL DEF Spec

(* Every variable of the lock, the pool and the directory keeps its type,  *)
(* and whoever reads or writes a file has opened one.                      *)
THEOREM WorkspaceTypes == Spec => []TypeOK
  BY WorkspaceInvariant, PTL DEF WorkspaceInv

(* A Run or RunPipeline that holds the lock is alone: no other one, and no *)
(* handler of a workspace RPC or of RunSync, is at work beside it; and     *)
(* nobody waits for a lock that no writer holds.                           *)
THEOREM RunsAreExclusive == Spec => []ExclusiveRuns
<1>1. LockInv /\ TypeOK => ExclusiveRuns
  BY Distinct DEF LockInv, TypeOK, ExclusiveRuns, Queued
<1> QED
  BY <1>1, WorkspaceInvariant, PTL DEF WorkspaceInv

(* What an upload has put under its final name is complete. *)
THEOREM UploadsAreAtomic == Spec => []UploadsPublishedWhole
<1>1. WorkspaceInv => UploadsPublishedWhole
  BY Distinct DEF WorkspaceInv, TypeOK, FilesInv, NamedInv, Whole,
                  UploadsPublishedWhole, Inodes, Rpc
<1> QED
  BY <1>1, WorkspaceInvariant, PTL

(* A file that GetFile streams, without the lock, and that no Run has      *)
(* touched is served in one version.                                       *)
THEOREM OnlyRunsTear == Spec => []TornOnlyByRun
<1>1. WorkspaceInv => TornOnlyByRun
  BY DEF WorkspaceInv, FilesInv, TornInv, TornOnlyByRun
<1> QED
  BY <1>1, WorkspaceInvariant, PTL

(* Acknowledged uploads leave no temporary file. *)
THEOREM NoTempAfterSuccess == Spec => []OnlyFailedUploadsLeaveTemp
<1>1. WorkspaceInv => OnlyFailedUploadsLeaveTemp
  BY DEF WorkspaceInv, FilesInv, TempInv, OnlyFailedUploadsLeaveTemp
<1> QED
  BY <1>1, WorkspaceInvariant, PTL

(* While a Run or RunPipeline is active, only the Run's process and        *)
(* operations that departed clients left on the blocking pool change the   *)
(* workspace.                                                              *)
THEOREM WorkspaceProtected == Spec => OnlyRunChangesWorkspace
<1> DEFINE Allowed ==
      \/ Rpc(writer) = "Run" /\ pc[writer] \in {"launched", "modifying"}
      \/ \E c \in Calls : pc[c] = "gone" /\ pool[c] # pool'[c]
<1>1. ASSUME WorkspaceInv, [Next]_vars, writer # NoCall, files' # files
      PROVE  Allowed
  <2>1. PICK c \in Calls : Handler(c) \/ ClientLeaves(c) \/ BlockingPool(c)
    BY <1>1 DEF Next, AllOver, vars, files
  <2>2. pc[c] \notin Reading
    BY <1>1 DEF WorkspaceInv, LockInv
  <2>3. CASE BlockingPool(c)
    BY <1>1, <2>2, <2>3 DEF BlockingPool, PoolCreates, PoolRenames, PoolRemoves,
       WorkspaceInv, TypeOK, RoleInv, Reading
  <2>4. CASE RunModifies(c) \/ RunCompletesFile(c)
    BY <1>1, <2>4 DEF RunModifies, RunCompletesFile, WorkspaceInv, LockInv, RoleInv, Writing
  <2>5. CASE UploadPublishes(c)
    BY <2>2, <2>5 DEF UploadPublishes, Reading
  <2> QED
    BY <1>1, <2>1, <2>3, <2>4, <2>5
    DEF Handler, Upload, Delete, Get, Scan, RunSync, Run, Pipeline, ArriveReader,
        Refused, ClientLeaves, PoolReturns, UploadBegins, UploadWrites, UploadFails,
        DeleteFindsNothing, DeleteRemoves, GetFindsNothing, GetReplies, GetOpens,
        GetReads, ScanStarts, ScanTakes, ScanFails, ListReturns, RunSyncExecutes,
        RunSyncReturns, RunStarts, RunEnds, PipelineStarts, PipelineRefused,
        PipelinePopulates, PopulateFails, PipelineEnds, files
<1> QED
  BY <1>1, WorkspaceInvariant, PTL DEF Spec, OnlyRunChangesWorkspace
==============================================================================
