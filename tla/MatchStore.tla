----------------------------- MODULE MatchStore -----------------------------
(***************************************************************************)
(* The match store (main/matchStore.ts, shared/atomicWrite.ts), one system *)
(* call per step: stageMatch in the worker, and store, commitStaged and    *)
(* init in main, against each other and against crashes between any two    *)
(* calls, calls that fail, and files damaged from outside.                 *)
(*                                                                         *)
(* A match directory holds meta.json, match.json ("doc") and raw.txt. A    *)
(* file is missing, torn, whole, or (meta.json) "other": JSON without an   *)
(* id. All copies of one match have the same contents.     *)
(***************************************************************************)
EXTENDS Naturals, Sequences, Functions

CONSTANTS Ids,          \* matches
          MaxStages,    \* matches the worker finds
          MaxImports,   \* calls of store by the log import
          MaxCrashes, MaxFaults, MaxDamages

ASSUME MatchStoreAssumption ==
  /\ MaxStages \in Nat /\ MaxImports \in Nat
  /\ MaxCrashes \in Nat /\ MaxFaults \in Nat /\ MaxDamages \in Nat

VARIABLES dirs,       \* <root>/<id>: the match directories
          stages,     \* .stage-<id>-<pid>-<seq> and .tmp-<id>
          indexFile,  \* _index.ndjson
          index,      \* main: MatchStore.index
          main,       \* main: the operation in progress
          worker,     \* the log worker: the stageMatch in progress
          queue,      \* messages from the worker to main
          spent       \* how much of each bound is used

vars == <<dirs, stages, indexFile, index, main, worker, queue, spent>>

State == {"none", "torn", "other", "whole"}
FileNames == {"meta", "doc", "raw"}
Dir == [FileNames -> State]
EmptyDir == [f \in FileNames |-> "none"]
WholeDir == [f \in FileNames |-> "whole"]

(* Names of staging directories: <<id, 0>> is main's .tmp-<id>, <<id, n>>  *)
(* a .stage- of the worker, which uses a pid and a number only once.       *)
Paths == Ids \X Nat
TmpOf(id) == <<id, 0>>
IdOf(path) == path[1]

With(f, x, y) == [z \in DOMAIN f \cup {x} |-> IF z = x THEN y ELSE f[z]]
Without(f, x) == Restrict(f, DOMAIN f \ {x})

(* The index file: the ids of its lines, whether it ends with a line feed, *)
(* and if not, the id in what follows the last one, if that parses.        *)
IndexFile == [exists : BOOLEAN, ids : SUBSET Ids, ended : BOOLEAN, last : SUBSET Ids]
NoIndexFile == [exists |-> FALSE, ids |-> {}, ended |-> TRUE, last |-> {}]
IndexFileOf(ids) == [exists |-> TRUE, ids |-> ids, ended |-> TRUE, last |-> {}]
Parsed(file) == file.ids \cup file.last

(* appendIndexLine; a line that follows an unfinished one is lost in it.   *)
AppendIndexLine(file, id) ==
  IndexFileOf(IF file.ended THEN file.ids \cup {id} ELSE file.ids)

(* What a crash in the middle of it leaves. *)
TornAppends(file, id) ==
  {[exists |-> TRUE, ids |-> file.ids, ended |-> FALSE, last |-> l] :
     l \in IF file.ended THEN {{}, {id}} ELSE {{}}}

Bound == [stage |-> MaxStages, import |-> MaxImports, crash |-> MaxCrashes,
          fault |-> MaxFaults, damage |-> MaxDamages]
Spend(what) == /\ spent[what] < Bound[what]
               /\ spent' = [spent EXCEPT ![what] = @ + 1]

Down == [pc |-> "down"]
Idle == [pc |-> "idle"]
Recovering(repaired) == [pc |-> "recover", repaired |-> repaired]
Working(pc, path) == [pc |-> pc, path |-> path]

Message == [type : {"staged"}, path : Paths] \cup [type : {"full"}, id : Ids]

TypeOK ==
  /\ DOMAIN dirs \subseteq Ids /\ dirs \in [DOMAIN dirs -> Dir]
  /\ DOMAIN stages \subseteq Paths /\ stages \in [DOMAIN stages -> Dir]
  /\ indexFile \in IndexFile
  /\ index \subseteq Ids
  /\ main \in [pc : {"down", "sweep", "idle"}]
           \cup [pc : {"recover"}, repaired : BOOLEAN]
           \cup [pc : {"write", "commit", "replace", "list"}, path : Paths]
  /\ worker \in [pc : {"down", "idle"}] \cup [pc : {"write"}, path : Paths]
  /\ queue \in Seq(Message)
  /\ spent \in [{"stage", "import", "crash", "fault", "damage"} -> Nat]

Init == /\ dirs = <<>> /\ stages = <<>> /\ indexFile = NoIndexFile
        /\ index = {} /\ main = Down /\ worker = Down /\ queue = <<>>
        /\ spent = [what \in DOMAIN Bound |-> 0]
-----------------------------------------------------------------------------
MetaOf(id) == IF id \in DOMAIN dirs THEN dirs[id]["meta"] ELSE "none"
StoredMetaIntact(id) == MetaOf(id) \in {"other", "whole"}
StoredMetaNamesId(id) == MetaOf(id) = "whole"
Held(id) == id \in index /\ StoredMetaIntact(id)

(* writeStagedFiles: meta.json, match.json, raw.txt; a file being written  *)
(* is torn.                                                                *)
Written(dir) ==
  LET f == IF dir["meta"] # "whole" THEN "meta"
           ELSE IF dir["doc"] # "whole" THEN "doc" ELSE "raw"
  IN  [dir EXCEPT ![f] = IF @ = "none" THEN "torn" ELSE "whole"]
-----------------------------------------------------------------------------
(* init: reading the index file *)
InitRead == /\ main = Down
            /\ index' = Parsed(indexFile)
            /\ main' = [pc |-> "sweep"]
            /\ UNCHANGED <<dirs, stages, indexFile, worker, queue, spent>>

(* init: the staging directories of earlier runs; one that the system      *)
(* holds open stays.                                                       *)
InitSweep == /\ main.pc = "sweep"
             /\ \/ stages' = <<>> /\ UNCHANGED spent
                \/ \E kept \in (SUBSET DOMAIN stages) \ {{}} :
                     stages' = Restrict(stages, kept) /\ Spend("fault")
             /\ main' = Recovering(FALSE)
             /\ UNCHANGED <<dirs, indexFile, index, worker, queue>>

(* init: the directories that the index does not have; a failed append is  *)
(* swallowed.                                                              *)
Recoverable == {id \in DOMAIN dirs \ index : StoredMetaNamesId(id)}
InitRecover(id) ==
  /\ main.pc = "recover" /\ id \in Recoverable
  /\ index' = index \cup {id}
  /\ \/ /\ indexFile' = AppendIndexLine(indexFile, id)
        /\ main' = Recovering(TRUE)
        /\ UNCHANGED spent
     \/ Spend("fault") /\ UNCHANGED <<indexFile, main>>
  /\ UNCHANGED <<dirs, stages, worker, queue>>

(* The file is rewritten when something was repaired or there is none.     *)
MustRewrite == main.repaired \/ ~indexFile.exists \/ ~(index \subseteq DOMAIN dirs)

(* Mutant of InitFinish: some of the directories are not looked at.        *)
InitFinishEarly ==
  /\ main.pc = "recover"
  /\ index' = index \cap DOMAIN dirs
  /\ indexFile' = IF MustRewrite THEN IndexFileOf(index') ELSE indexFile
  /\ main' = Idle
  /\ UNCHANGED <<dirs, stages, worker, queue, spent>>

(* init: entries without a directory are dropped.                          *)
InitFinish == /\ main.pc = "recover" /\ Recoverable = {}
              /\ index' = index \cap DOMAIN dirs
              /\ indexFile' = IF MustRewrite THEN IndexFileOf(index') ELSE indexFile
              /\ main' = Idle
              /\ UNCHANGED <<dirs, stages, worker, queue, spent>>

(* atomicWriteFileSync: the rename fails, the old file is removed before   *)
(* the second try.                                                         *)
RewriteRetries == /\ main.pc = "recover" /\ Recoverable = {} /\ MustRewrite
                  /\ indexFile' = NoIndexFile
                  /\ Spend("fault")
                  /\ UNCHANGED <<dirs, stages, index, main, worker, queue>>
-----------------------------------------------------------------------------
(* store(), called by the import or for a full document from the worker.   *)
StoreBegin(id) ==
  IF Held(id) THEN UNCHANGED <<stages, main>>
  ELSE /\ stages' = With(stages, TmpOf(id), EmptyDir)
       /\ main' = Working("write", TmpOf(id))

Import(id) == /\ main = Idle /\ Spend("import") /\ StoreBegin(id)
              /\ UNCHANGED <<dirs, indexFile, index, worker, queue>>

Receive == /\ main = Idle /\ queue # <<>>
           /\ queue' = Tail(queue)
           /\ LET m == Head(queue) IN
              \/ /\ m.type = "staged"
                 /\ main' = Working("commit", m.path) /\ UNCHANGED stages
              \/ m.type = "full" /\ StoreBegin(m.id)
           /\ UNCHANGED <<dirs, indexFile, index, worker, spent>>

StoreWrite ==
  /\ main.pc = "write"
  /\ stages' = [stages EXCEPT ![main.path] = Written(@)]
  /\ main' = IF stages'[main.path] = WholeDir THEN Working("commit", main.path) ELSE main
  /\ UNCHANGED <<dirs, indexFile, index, worker, queue, spent>>

StoreWriteFails == /\ main.pc = "write" /\ Spend("fault") /\ main' = Idle
                   /\ UNCHANGED <<dirs, stages, indexFile, index, worker, queue>>

(* Mutant of CommitBegin: no dedup.                                        *)
CommitBeginAlways ==
  /\ main.pc = "commit"
  /\ main' = Working("replace", main.path)
  /\ UNCHANGED <<dirs, stages, indexFile, index, worker, queue, spent>>

(* commitStaged: dedup, or make room, *)
CommitBegin ==
  /\ main.pc = "commit"
  /\ IF Held(IdOf(main.path))
     THEN stages' = Without(stages, main.path) /\ main' = Idle
     ELSE main' = Working("replace", main.path) /\ UNCHANGED stages
  /\ UNCHANGED <<dirs, indexFile, index, worker, queue, spent>>

(* rmSync of the old directory, file by file, in any order, *)
CommitRemove ==
  /\ main.pc = "replace"
  /\ LET id == IdOf(main.path) IN
     /\ id \in DOMAIN dirs
     /\ \/ dirs[id] = EmptyDir /\ dirs' = Without(dirs, id)
        \/ \E f \in FileNames : /\ dirs[id][f] # "none"
                                /\ dirs' = [dirs EXCEPT ![id][f] = "none"]
  /\ UNCHANGED <<stages, indexFile, index, main, worker, queue, spent>>

(* the rename, *)
CommitRename ==
  /\ main.pc = "replace" /\ IdOf(main.path) \notin DOMAIN dirs
  /\ dirs' = With(dirs, IdOf(main.path), stages[main.path])
  /\ stages' = Without(stages, main.path)
  /\ main' = Working("list", main.path)
  /\ UNCHANGED <<indexFile, index, worker, queue, spent>>

(* and the index. The append may throw, after the entry was set.           *)
CommitList ==
  /\ main.pc = "list"
  /\ index' = index \cup {IdOf(main.path)}
  /\ \/ indexFile' = AppendIndexLine(indexFile, IdOf(main.path)) /\ UNCHANGED spent
     \/ Spend("fault") /\ UNCHANGED indexFile
  /\ main' = Idle
  /\ UNCHANGED <<dirs, stages, worker, queue>>

(* rmSync or renameSync throws; the staging directory stays.               *)
CommitFails == /\ main.pc \in {"commit", "replace"} /\ Spend("fault") /\ main' = Idle
               /\ UNCHANGED <<dirs, stages, indexFile, index, worker, queue>>
-----------------------------------------------------------------------------
(* stageMatch, in the worker *)
Stage(id) == /\ worker = Idle /\ ~StoredMetaNamesId(id) /\ Spend("stage")
             /\ LET path == <<id, spent'["stage"]>> IN
                /\ stages' = With(stages, path, EmptyDir)
                /\ worker' = Working("write", path)
             /\ UNCHANGED <<dirs, indexFile, index, main, queue>>

StageWrite == /\ worker.pc = "write" /\ stages[worker.path] # WholeDir
              /\ stages' = [stages EXCEPT ![worker.path] = Written(@)]
              /\ UNCHANGED <<dirs, indexFile, index, main, worker, queue, spent>>

(* Mutant of StagePost: the message goes out before the files are written. *)
StagePostEarly ==
  /\ worker.pc = "write"
  /\ queue' = Append(queue, [type |-> "staged", path |-> worker.path])
  /\ worker' = Idle
  /\ UNCHANGED <<dirs, stages, indexFile, index, main, spent>>

(* The complete copy is posted. *)
StagePost == /\ worker.pc = "write" /\ stages[worker.path] = WholeDir
             /\ queue' = Append(queue, [type |-> "staged", path |-> worker.path])
             /\ worker' = Idle
             /\ UNCHANGED <<dirs, stages, indexFile, index, main, spent>>

(* A write throws: the copy is removed and the document posted instead.    *)
StageFails == /\ worker.pc = "write" /\ stages[worker.path] # WholeDir
              /\ Spend("fault")
              /\ stages' = Without(stages, worker.path)
              /\ queue' = Append(queue, [type |-> "full", id |-> IdOf(worker.path)])
              /\ worker' = Idle
              /\ UNCHANGED <<dirs, indexFile, index, main>>

(* Main starts a worker when it has nothing else to do. *)
WorkerStart == /\ worker = Down /\ main = Idle
               /\ worker' = Idle
               /\ UNCHANGED <<dirs, stages, indexFile, index, main, queue, spent>>

WorkerCrash == /\ worker # Down /\ Spend("crash")
               /\ worker' = Down
               /\ UNCHANGED <<dirs, stages, indexFile, index, main, queue>>

(* The application ends, between any two system calls or in an append; the *)
(* worker ends with it.                                                    *)
Appending == IF main.pc = "list" THEN {IdOf(main.path)}
             ELSE IF main.pc = "recover" THEN Recoverable ELSE {}
MainCrash ==
  /\ main # Down /\ Spend("crash")
  /\ main' = Down /\ worker' = Down /\ queue' = <<>> /\ index' = {}
  /\ indexFile' \in {indexFile} \cup UNION {TornAppends(indexFile, id) : id \in Appending}
  /\ UNCHANGED <<dirs, stages>>

(* Something outside the program destroys a meta.json. *)
Damage(id) == /\ id \in DOMAIN dirs /\ dirs[id] = WholeDir /\ Spend("damage")
              /\ \E s \in State \ {"whole"} : dirs' = [dirs EXCEPT ![id]["meta"] = s]
              /\ UNCHANGED <<stages, indexFile, index, main, worker, queue>>

MainNext == \/ InitRead \/ InitSweep \/ (\E id \in Ids : InitRecover(id)) \/ InitFinish
            \/ RewriteRetries \/ (\E id \in Ids : Import(id)) \/ Receive
            \/ StoreWrite \/ StoreWriteFails \/ CommitBegin \/ CommitRemove
            \/ CommitRename \/ CommitList \/ CommitFails \/ MainCrash
WorkerNext == \/ (\E id \in Ids : Stage(id)) \/ StageWrite \/ StagePost \/ StageFails
              \/ WorkerStart \/ WorkerCrash
Next == MainNext \/ WorkerNext \/ \E id \in Ids : Damage(id)

Spec == Init /\ [][Next]_vars
-----------------------------------------------------------------------------
(* A meta.json that names its match stands for the whole directory: both   *)
(* dedups look at nothing else (matchStore.ts storedMetaIntact,            *)
(* storedMetaNamesId), and init indexes by it.                             *)
MetaImpliesWhole ==
  \A id \in DOMAIN dirs : dirs[id]["meta"] = "whole" => dirs[id] = WholeDir

(* Outside init, main's index has every match that is whole on disk, but   *)
(* for the one it is about to enter. The worker relies on it when it skips *)
(* a match it finds on disk ("so main holds it", stageMatch).              *)
Running == main.pc \notin {"down", "sweep", "recover"}
WholeIsListed ==
  Running => \A id \in DOMAIN dirs :
    dirs[id] = WholeDir => id \in index \/ (main.pc = "list" /\ IdOf(main.path) = id)

(* What a message in the channel, or the commit in progress, names is a    *)
(* complete staging directory, whatever was staged, committed, crashed or  *)
(* swept since it was posted.                                              *)
Awaiting == {queue[i].path : i \in {j \in DOMAIN queue : queue[j].type = "staged"}}
         \cup (IF main.pc \in {"commit", "replace"} THEN {main.path} ELSE {})
QueuedIsWhole == \A path \in Awaiting : path \in DOMAIN stages /\ stages[path] = WholeDir

(* Seen from its users the store is atomic.                                *)
StatusOf(id) == IF id \notin DOMAIN dirs THEN "absent"
                ELSE IF dirs[id] = WholeDir THEN "stored" ELSE "damaged"
Atomic == INSTANCE AtomicStore WITH
  disk <- [id \in Ids |-> StatusOf(id)],
  library <- IF Running THEN index ELSE {},
  damages <- spent["damage"]
StoreIsAtomic == Atomic!Spec
=============================================================================
