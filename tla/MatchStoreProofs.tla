-------------------------- MODULE MatchStoreProofs --------------------------
(***************************************************************************)
(* Proofs about MatchStore, for any set of matches and any number of       *)
(* stagings, imports, crashes, failures and damages: its invariants, and   *)
(* that it implements AtomicStore.                                         *)
(***************************************************************************)
EXTENDS MatchStore, TLAPS

(* The staging directories on their way to main: complete, numbered, and   *)
(* each in one place only.                                                 *)
Numbered(path) == path[2] \in 1..spent["stage"]
Secured(path) == path \in DOMAIN stages /\ stages[path] = WholeDir
QueueOK ==
  \A i \in 1..Len(queue) : queue[i].type = "staged" =>
    /\ Secured(queue[i].path) /\ Numbered(queue[i].path)
    /\ \A j \in 1..Len(queue) :
         queue[j].type = "staged" /\ queue[j].path = queue[i].path => i = j
    /\ main.pc \in {"commit", "replace"} => main.path # queue[i].path
    /\ worker.pc = "write" => worker.path # queue[i].path

MainOK ==
  /\ main.pc = "write" => main.path \in DOMAIN stages /\ main.path[2] = 0
  /\ main.pc \in {"commit", "replace"} =>
       /\ Secured(main.path) /\ main.path[2] <= spent["stage"]
       /\ worker.pc = "write" => worker.path # main.path
  /\ main.pc = "replace" => ~StoredMetaNamesId(IdOf(main.path))
  /\ main.pc \in {"down", "sweep", "recover"} => worker = Down /\ queue = <<>>

WorkerOK == worker.pc = "write" => worker.path \in DOMAIN stages /\ Numbered(worker.path)

(* What is about to be entered is on disk. *)
ListOK == main.pc = "list" => IdOf(main.path) \in DOMAIN dirs

IInv == TypeOK /\ MetaImpliesWhole /\ WholeIsListed /\ QueueOK /\ MainOK /\ WorkerOK /\ ListOK
-----------------------------------------------------------------------------
(* A function with one value less. *)
LEMMA WithoutIs ==
  ASSUME NEW f, NEW x
  PROVE  LET g == Without(f, x)
         IN  /\ DOMAIN g = DOMAIN f \ {x}
             /\ \A z \in DOMAIN g : g[z] = f[z]
BY DEF Without, Restrict

(* The directory functions stay typed. *)
LEMMA WithTyped ==
  ASSUME NEW S, NEW f, DOMAIN f \subseteq S, f \in [DOMAIN f -> Dir],
         NEW x \in S, NEW y \in Dir
  PROVE  LET g == With(f, x, y)
         IN  DOMAIN g \subseteq S /\ g \in [DOMAIN g -> Dir]
BY DEF With

(* The same for the function without it. *)
LEMMA WithoutTyped ==
  ASSUME NEW S, NEW f, DOMAIN f \subseteq S, f \in [DOMAIN f -> Dir], NEW x
  PROVE  LET g == Without(f, x)
         IN  DOMAIN g \subseteq S /\ g \in [DOMAIN g -> Dir]
BY DEF Without, Restrict

(* The directories the operations write. *)
LEMMA DirsTyped == EmptyDir \in Dir /\ WholeDir \in Dir
BY DEF Dir, EmptyDir, WholeDir, FileNames, State

(* A write leaves a directory. *)
LEMMA WrittenTyped == ASSUME NEW d \in Dir PROVE Written(d) \in Dir
BY DEF Written, Dir, FileNames, State

(* What an append leaves is an index file, torn or not. *)
LEMMA AppendTyped ==
  ASSUME NEW file \in IndexFile, NEW id \in Ids
  PROVE  AppendIndexLine(file, id) \in IndexFile /\ TornAppends(file, id) \subseteq IndexFile
<1>1. file.ids \subseteq Ids
  BY DEF IndexFile
<1>2. \A ids \in SUBSET Ids : IndexFileOf(ids) \in IndexFile
  BY DEF IndexFile, IndexFileOf
<1>3. AppendIndexLine(file, id) \in IndexFile
  BY <1>1, <1>2 DEF AppendIndexLine
<1>4. \A l \in SUBSET Ids :
        [exists |-> TRUE, ids |-> file.ids, ended |-> FALSE, last |-> l] \in IndexFile
  BY <1>1 DEF IndexFile
<1>5. TornAppends(file, id) \subseteq IndexFile
  BY <1>4 DEF TornAppends
<1> QED BY <1>3, <1>5

(* What is read from the index file is matches. *)
LEMMA ParsedTyped == ASSUME NEW file \in IndexFile PROVE Parsed(file) \subseteq Ids
BY DEF Parsed, IndexFile

(* Only a new staging directory changes how many there were. *)
LEMMA SpendOK ==
  ASSUME spent \in [DOMAIN Bound -> Nat], NEW what \in DOMAIN Bound, Spend(what)
  PROVE  /\ spent' \in [DOMAIN Bound -> Nat]
         /\ what = "stage" => spent'["stage"] = spent["stage"] + 1
         /\ what # "stage" => spent'["stage"] = spent["stage"]
BY DEF Spend, Bound
-----------------------------------------------------------------------------

(* A path on its way to main is typed. *)
LEMMA MainPath ==
  ASSUME TypeOK, main.pc \in {"write", "commit", "replace", "list"}
  PROVE  main.path \in Paths /\ IdOf(main.path) \in Ids /\ main.path[2] \in Nat
BY DEF TypeOK, Paths, IdOf

(* And so is the one the worker writes. *)
LEMMA WorkerPath ==
  ASSUME TypeOK, worker.pc = "write"
  PROVE  worker.path \in Paths /\ IdOf(worker.path) \in Ids /\ worker.path[2] \in Nat
BY DEF TypeOK, Paths, IdOf

(* commitStaged finds the match held, or does not. *)
LEMMA CommitBeginStep == ASSUME IInv, CommitBegin PROVE IInv'
<1> USE DEF IInv
<1>1. main.path \in Paths /\ main.path \in DOMAIN stages
  BY MainPath DEF CommitBegin, MainOK, Secured
<1>2. CASE Held(IdOf(main.path))
  <2>1. stages' = Without(stages, main.path) /\ main' = Idle
    BY <1>2 DEF CommitBegin
  <2>2. /\ DOMAIN stages' = DOMAIN stages \ {main.path}
        /\ \A p \in DOMAIN stages' : stages'[p] = stages[p]
    BY <2>1, WithoutIs
  <2>3. TypeOK'
    BY <2>1, WithoutTyped DEF CommitBegin, TypeOK, Idle
  <2>4. QueueOK'
    BY <2>1, <2>2 DEF CommitBegin, QueueOK, Secured, Numbered, Idle
  <2>5. MainOK'
    BY <2>1 DEF MainOK, Idle
  <2>6. WorkerOK'
    BY <2>2 DEF CommitBegin, WorkerOK, MainOK, Numbered
  <2>7. MetaImpliesWhole' /\ WholeIsListed'
    BY <2>1 DEF CommitBegin, MetaImpliesWhole, WholeIsListed, Running, Idle
  <2> QED BY <2>1, <2>3, <2>4, <2>5, <2>6, <2>7 DEF ListOK, Idle
<1>3. CASE ~Held(IdOf(main.path))
  <2>1. main' = Working("replace", main.path) /\ UNCHANGED stages
    BY <1>3 DEF CommitBegin
  <2>2. ~StoredMetaNamesId(IdOf(main.path))
    BY <1>1, <1>3 DEF CommitBegin, Held, StoredMetaIntact, StoredMetaNamesId, MetaOf,
       MetaImpliesWhole, WholeIsListed, Running
  <2>3. TypeOK'
    BY <1>1, <2>1 DEF CommitBegin, TypeOK, Working
  <2>4. QueueOK'
    BY <2>1 DEF CommitBegin, QueueOK, Secured, Numbered, Working
  <2>5. MainOK'
    BY <2>1, <2>2 DEF CommitBegin, MainOK, Working, Secured, StoredMetaNamesId, MetaOf
  <2>6. WorkerOK'
    BY <2>1 DEF CommitBegin, WorkerOK, Numbered
  <2>7. MetaImpliesWhole' /\ WholeIsListed'
    BY <2>1 DEF CommitBegin, MetaImpliesWhole, WholeIsListed, Running, Working
  <2> QED BY <2>1, <2>3, <2>4, <2>5, <2>6, <2>7 DEF ListOK, Working
<1> QED BY <1>2, <1>3

(* A step of the removal of the old directory. *)
LEMMA CommitRemoveStep == ASSUME IInv, CommitRemove PROVE IInv'
<1> USE DEF IInv
<1> DEFINE id == IdOf(main.path)
<1>1. id \in DOMAIN dirs /\ dirs[id]["meta"] # "whole" /\ dirs[id] # WholeDir /\ dirs[id] \in Dir
  BY DEF CommitRemove, MainOK, StoredMetaNamesId, MetaOf, WholeDir, FileNames, TypeOK
<1>2. /\ DOMAIN dirs' \subseteq DOMAIN dirs
      /\ \A d \in DOMAIN dirs' \ {id} : dirs'[d] = dirs[d]
      /\ id \in DOMAIN dirs' => /\ dirs'[id] \in Dir
                                /\ dirs'[id]["meta"] # "whole" /\ dirs'[id] # WholeDir
      /\ dirs' \in [DOMAIN dirs' -> Dir]
  <2>1. CASE dirs' = Without(dirs, id)
    <3>1. dirs' \in [DOMAIN dirs' -> Dir]
      BY <2>1, WithoutTyped DEF TypeOK
    <3> QED BY <2>1, <3>1, WithoutIs
  <2>2. CASE dirs' # Without(dirs, id)
    <3>1. PICK f \in FileNames : dirs' = [dirs EXCEPT ![id][f] = "none"]
      BY <2>2 DEF CommitRemove
    <3> DEFINE d2 == [dirs[id] EXCEPT ![f] = "none"]
    <3>2. DOMAIN dirs' = DOMAIN dirs /\ dirs'[id] = d2 /\ \A d \in DOMAIN dirs \ {id} : dirs'[d] = dirs[d]
      BY <1>1, <3>1 DEF TypeOK
    <3>3. d2 \in Dir /\ d2["meta"] # "whole"
      BY <1>1, <3>1 DEF Dir, State, FileNames
    <3>4. d2 # WholeDir
      BY <3>3 DEF WholeDir, FileNames
    <3>5. dirs' = [dirs EXCEPT ![id] = d2]
      BY <3>1
    <3>6. dirs' \in [DOMAIN dirs' -> Dir]
      BY <3>2, <3>3, <3>5 DEF TypeOK
    <3> QED BY <3>2, <3>3, <3>4, <3>6
  <2> QED BY <2>1, <2>2
<1>4. TypeOK'
  BY <1>2 DEF CommitRemove, TypeOK
<1>5. MetaImpliesWhole'
  BY <1>2 DEF MetaImpliesWhole
<1>6. WholeIsListed'
  BY <1>2 DEF CommitRemove, WholeIsListed, Running
<1>7. QueueOK'
  BY DEF CommitRemove, QueueOK, Secured, Numbered
<1>8. MainOK'
  BY <1>2 DEF CommitRemove, MainOK, Secured, StoredMetaNamesId, MetaOf
<1>9. WorkerOK'
  BY DEF CommitRemove, WorkerOK, Numbered
<1>10. ListOK'
  BY DEF CommitRemove, ListOK
<1> QED BY <1>4, <1>5, <1>6, <1>7, <1>8, <1>9, <1>10

(* A complete staging directory becomes the match directory. *)
LEMMA CommitRenameStep == ASSUME IInv, CommitRename PROVE IInv'
<1> USE DEF IInv
<1> DEFINE id == IdOf(main.path)
<1>1. /\ main.path \in Paths /\ id \in Ids /\ id \notin DOMAIN dirs
      /\ main.path \in DOMAIN stages /\ stages[main.path] = WholeDir
      /\ main' = Working("list", main.path)
      /\ dirs' = With(dirs, id, WholeDir)
      /\ stages' = Without(stages, main.path)
  <2>1. main.path \in Paths /\ id \in Ids
    BY MainPath DEF CommitRename
  <2>2. main.path \in DOMAIN stages /\ stages[main.path] = WholeDir
    BY DEF CommitRename, MainOK, Secured
  <2> QED BY <2>1, <2>2 DEF CommitRename
<1>2. /\ DOMAIN dirs' = DOMAIN dirs \cup {id} /\ dirs'[id] = WholeDir
      /\ \A d \in DOMAIN dirs : dirs'[d] = dirs[d]
  BY <1>1 DEF With
<1>3. /\ DOMAIN stages' = DOMAIN stages \ {main.path}
      /\ \A p \in DOMAIN stages' : stages'[p] = stages[p]
  BY <1>1, WithoutIs
<1>4. TypeOK'
  <2>1. DOMAIN dirs' \subseteq Ids /\ dirs' \in [DOMAIN dirs' -> Dir]
    BY <1>1, WithTyped, DirsTyped DEF TypeOK
  <2>2. DOMAIN stages' \subseteq Paths /\ stages' \in [DOMAIN stages' -> Dir]
    BY <1>1, WithoutTyped DEF TypeOK
  <2> QED BY <1>1, <2>1, <2>2 DEF CommitRename, TypeOK, Working
<1>5. MetaImpliesWhole'
  BY <1>2 DEF MetaImpliesWhole
<1>6. WholeIsListed'
  BY <1>1, <1>2 DEF CommitRename, WholeIsListed, Running, Working
<1>7. QueueOK'
  BY <1>1, <1>3 DEF CommitRename, QueueOK, Secured, Numbered, Working
<1>8. MainOK'
  BY <1>1 DEF MainOK, Working
<1>9. WorkerOK'
  BY <1>3 DEF CommitRename, WorkerOK, MainOK, Numbered
<1>10. ListOK'
  BY <1>1, <1>2 DEF ListOK, Working
<1> QED BY <1>4, <1>5, <1>6, <1>7, <1>8, <1>9, <1>10

(* A write of store() is to a directory that is not the worker's. *)
LEMMA StoreWriteMain == ASSUME IInv, StoreWrite PROVE MainOK'
<1> USE DEF IInv
<1>1. /\ main.path \in DOMAIN stages /\ main.path[2] = 0
      /\ DOMAIN stages' = DOMAIN stages
      /\ main' = IF stages'[main.path] = WholeDir THEN Working("commit", main.path) ELSE main
  BY DEF StoreWrite, MainOK, TypeOK
<1>2. worker.pc = "write" => worker.path # main.path
  BY <1>1 DEF WorkerOK, Numbered
<1> QED BY <1>1, <1>2 DEF StoreWrite, MainOK, Working, Secured, TypeOK

(* A write of stageMatch that throws: the copy goes, the document is posted. *)
LEMMA StageFailsStep == ASSUME IInv, StageFails PROVE IInv'
<1> USE DEF IInv
<1> DEFINE m == [type |-> "full", id |-> IdOf(worker.path)]
<1>1. /\ worker.path \in Paths /\ IdOf(worker.path) \in Ids
      /\ stages' = Without(stages, worker.path)
      /\ queue' = Append(queue, m) /\ worker' = Idle
      /\ UNCHANGED <<dirs, indexFile, index, main>>
  BY WorkerPath DEF StageFails
<1>2. /\ spent' \in [DOMAIN Bound -> Nat] /\ spent'["stage"] = spent["stage"]
  BY SpendOK DEF StageFails, TypeOK, Bound
<1>3. /\ DOMAIN stages' = DOMAIN stages \ {worker.path}
      /\ \A p \in DOMAIN stages' : stages'[p] = stages[p]
  BY <1>1, WithoutIs
<1>4. m \in Message
  BY <1>1 DEF Message
<1>5. /\ queue' \in Seq(Message) /\ Len(queue') = Len(queue) + 1 /\ Len(queue) \in Nat
      /\ \A i \in 1..Len(queue) : queue'[i] = queue[i]
      /\ queue'[Len(queue) + 1] = m
  BY <1>1, <1>4 DEF TypeOK
<1>6. TypeOK'
  <2>1. DOMAIN stages' \subseteq Paths /\ stages' \in [DOMAIN stages' -> Dir]
    BY <1>1, WithoutTyped DEF TypeOK
  <2> QED BY <1>1, <1>2, <1>5, <2>1 DEF TypeOK, Idle, Bound
<1>7. MetaImpliesWhole' /\ WholeIsListed'
  BY <1>1 DEF MetaImpliesWhole, WholeIsListed, Running
<1>8. QueueOK'
  <2>1. m.type = "full"
    OBVIOUS
  <2>2. \A i \in 1..Len(queue') : queue'[i].type = "staged" => i \in 1..Len(queue)
    BY <1>5, <2>1
  <2>3. \A i \in 1..Len(queue) : queue[i].type = "staged" => Secured(queue[i].path)'
    BY <1>3 DEF QueueOK, Secured, StageFails
  <2> QED BY <1>1, <1>2, <1>5, <2>2, <2>3 DEF QueueOK, Numbered, Idle
<1>9. MainOK'
  <2>1. main.pc \in {"commit", "replace"} => Secured(main.path)'
    BY <1>1, <1>3 DEF MainOK, Secured, StageFails
  <2>2. main.pc = "write" => main.path \in DOMAIN stages'
    BY <1>3 DEF MainOK, WorkerOK, Numbered, StageFails
  <2>3. main.pc \notin {"down", "sweep", "recover"}
    BY DEF StageFails, MainOK, Down
  <2> QED BY <1>1, <1>2, <2>1, <2>2, <2>3 DEF MainOK, Idle, StoredMetaNamesId, MetaOf
<1>10. WorkerOK'
  BY <1>1 DEF WorkerOK, Idle
<1>11. ListOK'
  BY <1>1 DEF ListOK
<1> QED BY <1>6, <1>7, <1>8, <1>9, <1>10, <1>11

(* store() makes its staging directory, or finds the match held. *)
LEMMA StoreBeginIs ==
  ASSUME TypeOK, NEW id \in Ids, StoreBegin(id), main = Idle
  PROVE  /\ main'.pc \in {"idle", "write"}
         /\ main'.pc = "write" => main'.path = TmpOf(id) /\ TmpOf(id) \in DOMAIN stages'
         /\ DOMAIN stages \subseteq DOMAIN stages'
         /\ \A p \in DOMAIN stages : p[2] # 0 => stages'[p] = stages[p]
<1>1. CASE UNCHANGED <<stages, main>>
  BY <1>1 DEF Idle
<1>2. CASE stages' = With(stages, TmpOf(id), EmptyDir) /\ main' = Working("write", TmpOf(id))
  <2>1. TmpOf(id)[2] = 0
    BY DEF TmpOf
  <2>2. /\ DOMAIN stages' = DOMAIN stages \cup {TmpOf(id)}
        /\ \A p \in DOMAIN stages : p # TmpOf(id) => stages'[p] = stages[p]
    BY <1>2 DEF With
  <2> QED BY <1>2, <2>1, <2>2 DEF Working
<1> QED BY <1>1, <1>2 DEF StoreBegin

(* The directory store() makes is typed, and so is what it does next. *)
LEMMA StoreBeginTyped ==
  ASSUME TypeOK, NEW id \in Ids, StoreBegin(id), main = Idle
  PROVE  /\ main' = Idle \/ main' = Working("write", TmpOf(id))
         /\ DOMAIN stages' \subseteq Paths /\ stages' \in [DOMAIN stages' -> Dir]
<1>1. CASE UNCHANGED <<stages, main>>
  BY <1>1 DEF TypeOK
<1>2. CASE stages' = With(stages, TmpOf(id), EmptyDir) /\ main' = Working("write", TmpOf(id))
  <2>1. TmpOf(id) \in Paths
    BY DEF TmpOf, Paths
  <2> QED BY <1>2, <2>1, WithTyped, DirsTyped DEF TypeOK
<1> QED BY <1>1, <1>2 DEF StoreBegin

(* A message names a path or a match that exists. *)
LEMMA ReceiveTyped == ASSUME IInv, Receive PROVE TypeOK'
<1> USE DEF IInv
<1> DEFINE m == Head(queue)
<1>1. /\ main = Idle /\ UNCHANGED <<dirs, indexFile, index, worker, spent>>
      /\ m \in Message /\ queue' \in Seq(Message)
  BY DEF Receive, TypeOK
<1> HIDE DEF m
<1>2. CASE m.type = "staged" /\ main' = Working("commit", m.path) /\ UNCHANGED stages
  <2>1. m.path \in Paths
    BY <1>1, <1>2 DEF Message
  <2> QED BY <1>1, <1>2, <2>1 DEF TypeOK, Working
<1>3. CASE m.type = "full" /\ StoreBegin(m.id)
  <2>1. m.id \in Ids
    BY <1>1, <1>3 DEF Message
  <2>2. TmpOf(m.id) \in Paths
    BY <2>1 DEF TmpOf, Paths
  <2>3. /\ main' = Idle \/ main' = Working("write", TmpOf(m.id))
        /\ DOMAIN stages' \subseteq Paths /\ stages' \in [DOMAIN stages' -> Dir]
    BY <1>1, <1>3, <2>1, StoreBeginTyped
  <2> QED BY <1>1, <2>2, <2>3 DEF TypeOK, Working, Idle
<1> QED BY <1>2, <1>3 DEF Receive, m

(* The head of the queue is taken; what is left of it is as it was. *)
LEMMA ReceiveOK == ASSUME IInv, Receive PROVE QueueOK' /\ MainOK'
<1> USE DEF IInv
<1> DEFINE m == Head(queue)
<1>1. /\ main = Idle /\ UNCHANGED <<dirs, indexFile, index, worker, spent>>
      /\ m \in Message /\ m = queue[1] /\ 1 \in 1..Len(queue)
      /\ Len(queue') = Len(queue) - 1 /\ Len(queue) \in Nat
      /\ \A i \in 1..Len(queue') : queue'[i] = queue[i + 1] /\ i + 1 \in 1..Len(queue)
  BY DEF Receive, TypeOK
<1> DEFINE Staged(i) == queue'[i].type = "staged"
<1>2. \A i \in 1..Len(queue') : Staged(i) =>
        /\ Secured(queue'[i].path) /\ Numbered(queue'[i].path)
        /\ worker.pc = "write" => worker.path # queue'[i].path
        /\ m.type = "staged" => m.path # queue'[i].path
  <2> SUFFICES ASSUME NEW i \in 1..Len(queue'), Staged(i)
               PROVE  /\ Secured(queue'[i].path) /\ Numbered(queue'[i].path)
                      /\ worker.pc = "write" => worker.path # queue'[i].path
                      /\ m.type = "staged" => m.path # queue'[i].path
    OBVIOUS
  <2>1. i + 1 \in 1..Len(queue) /\ queue'[i] = queue[i + 1] /\ i + 1 # 1
    BY <1>1
  <2> HIDE DEF m
  <2> QED BY <1>1, <2>1 DEF QueueOK
<1>3. \A i, j \in 1..Len(queue') :
        Staged(i) /\ Staged(j) /\ queue'[j].path = queue'[i].path => i = j
  <2> SUFFICES ASSUME NEW i \in 1..Len(queue'), NEW j \in 1..Len(queue'),
                      Staged(i), Staged(j), queue'[j].path = queue'[i].path
               PROVE  i = j
    OBVIOUS
  <2>1. /\ i + 1 \in 1..Len(queue) /\ queue'[i] = queue[i + 1]
        /\ j + 1 \in 1..Len(queue) /\ queue'[j] = queue[j + 1]
    BY <1>1
  <2>2. i + 1 = j + 1
    BY <2>1 DEF QueueOK
  <2> QED BY <2>2
<1>4. CASE m.type = "staged" /\ main' = Working("commit", m.path) /\ UNCHANGED stages
  <2>1. /\ Secured(m.path) /\ Numbered(m.path)
        /\ worker.pc = "write" => worker.path # m.path
    BY <1>1, <1>4 DEF QueueOK
  <2>2. main'.pc = "commit" /\ main'.path = m.path
    BY <1>4 DEF Working
  <2> HIDE DEF m
  <2>3. QueueOK'
    BY <1>1, <1>2, <1>3, <1>4, <2>2 DEF QueueOK, Secured, Numbered
  <2>4. MainOK'
    BY <1>1, <1>4, <2>1, <2>2 DEF MainOK, Secured, Numbered, TypeOK
  <2> QED BY <2>3, <2>4
<1>5. CASE m.type = "full" /\ StoreBegin(m.id)
  <2>1. m.id \in Ids
    BY <1>1, <1>5 DEF Message
  <2>2. /\ main'.pc \in {"idle", "write"}
        /\ main'.pc = "write" => main'.path = TmpOf(m.id) /\ TmpOf(m.id) \in DOMAIN stages'
        /\ DOMAIN stages \subseteq DOMAIN stages'
        /\ \A p \in DOMAIN stages : p[2] # 0 => stages'[p] = stages[p]
    BY <1>1, <1>5, <2>1, StoreBeginIs
  <2>3. TmpOf(m.id)[2] = 0
    BY DEF TmpOf
  <2> HIDE DEF m
  <2>4. \A p : Secured(p) /\ Numbered(p) => Secured(p)' /\ Numbered(p)'
    BY <1>1, <2>2 DEF Secured, Numbered
  <2>5. QueueOK'
    BY <1>1, <1>2, <1>3, <2>2, <2>4 DEF QueueOK
  <2>6. MainOK'
    BY <2>2, <2>3 DEF MainOK
  <2> QED BY <2>5, <2>6
<1> QED BY <1>4, <1>5 DEF Receive

(* The staging directories of earlier runs, with no worker. *)
LEMMA SweepOK == ASSUME IInv, InitSweep PROVE TypeOK' /\ WorkerOK'
<1> USE DEF IInv
<1>1. /\ worker = Down /\ queue = <<>> /\ main' = Recovering(FALSE)
      /\ UNCHANGED <<dirs, indexFile, index, worker, queue>>
  BY DEF InitSweep, MainOK
<1>2. DOMAIN stages' \subseteq Paths /\ stages' \in [DOMAIN stages' -> Dir]
  <2>1. CASE stages' = <<>>
    <3>1. DOMAIN stages' = {} /\ stages' \in [{} -> Dir]
      BY <2>1
    <3> QED BY <3>1
  <2>2. CASE \E kept \in SUBSET DOMAIN stages : stages' = Restrict(stages, kept)
    BY <2>2 DEF Restrict, TypeOK
  <2> QED BY <2>1, <2>2 DEF InitSweep
<1>3. spent' \in [DOMAIN Bound -> Nat]
  <2>1. CASE UNCHANGED spent
    BY <2>1 DEF TypeOK, Bound
  <2>2. CASE Spend("fault")
    BY <2>2, SpendOK DEF TypeOK, Bound
  <2> QED BY <2>1, <2>2 DEF InitSweep
<1>4. TypeOK'
  BY <1>1, <1>2, <1>3 DEF TypeOK, Recovering, Bound
<1>5. WorkerOK'
  BY <1>1 DEF WorkerOK, Down
<1> QED BY <1>4, <1>5

(* The entry init makes is typed, appended or not. *)
LEMMA RecoverTyped == ASSUME IInv, NEW id \in Ids, InitRecover(id) PROVE TypeOK'
<1> USE DEF IInv
<1>1. UNCHANGED <<dirs, stages, worker, queue>> /\ index' \subseteq Ids
  BY DEF InitRecover, TypeOK
<1>2. CASE /\ indexFile' = AppendIndexLine(indexFile, id)
           /\ main' = Recovering(TRUE) /\ UNCHANGED spent
  <2>1. indexFile' \in IndexFile
    BY <1>2, AppendTyped DEF TypeOK
  <2> QED BY <1>1, <1>2, <2>1 DEF TypeOK, Recovering
<1>3. CASE Spend("fault") /\ UNCHANGED <<indexFile, main>>
  <2>1. spent' \in [DOMAIN Bound -> Nat]
    BY <1>3, SpendOK DEF TypeOK, Bound
  <2> QED BY <1>1, <1>3, <2>1 DEF TypeOK, Bound
<1> QED BY <1>2, <1>3 DEF InitRecover

(* A new staging directory is none of those main has in hand. *)
LEMMA StageMain == ASSUME IInv, NEW id \in Ids, Stage(id) PROVE MainOK'
<1> USE DEF IInv
<1> DEFINE path == <<id, spent'["stage"]>>
<1>1. /\ stages' = With(stages, path, EmptyDir) /\ worker' = Working("write", path)
      /\ UNCHANGED <<dirs, indexFile, index, main, queue>> /\ worker = Idle
  BY DEF Stage
<1>2. path[2] = spent'["stage"] /\ spent'["stage"] = spent["stage"] + 1 /\ spent["stage"] \in Nat
  BY SpendOK DEF Stage, TypeOK, Bound
<1> HIDE DEF path
<1>3. /\ DOMAIN stages' = DOMAIN stages \cup {path}
      /\ \A p \in DOMAIN stages : p # path => stages'[p] = stages[p]
  BY <1>1 DEF With
<1>4. main.pc \notin {"down", "sweep", "recover"}
  BY <1>1 DEF MainOK, Idle, Down
<1>5. main.pc \in {"commit", "replace"} => main.path # path /\ main.path[2] \in Nat
  BY <1>2, MainPath DEF MainOK
<1> QED BY <1>1, <1>2, <1>3, <1>4, <1>5 DEF MainOK, Secured, Working, StoredMetaNamesId, MetaOf
-----------------------------------------------------------------------------
(* Reading the index at the start. *)
LEMMA InitReadStep == ASSUME IInv, InitRead PROVE IInv'
<1> USE DEF IInv
<1>1. TypeOK'
  BY ParsedTyped DEF InitRead, TypeOK
<1>2. MetaImpliesWhole'
  BY DEF InitRead, MetaImpliesWhole
<1>3. WholeIsListed'
  BY DEF InitRead, WholeIsListed, Running
<1>4. QueueOK'
  BY DEF InitRead, QueueOK, Numbered, Secured
<1>5. MainOK'
  BY DEF InitRead, MainOK, Down
<1>6. WorkerOK'
  BY DEF InitRead, WorkerOK, Numbered
<1>7. ListOK'
  BY DEF InitRead, ListOK
<1> QED BY <1>1, <1>2, <1>3, <1>4, <1>5, <1>6, <1>7

(* Removing the staging directories of earlier runs. *)
LEMMA InitSweepStep == ASSUME IInv, InitSweep PROVE IInv'
<1> USE DEF IInv
<1>1. TypeOK'
  BY SweepOK
<1>2. MetaImpliesWhole'
  BY DEF InitSweep, MetaImpliesWhole
<1>3. WholeIsListed'
  BY DEF InitSweep, WholeIsListed, Recovering, Running
<1>4. QueueOK'
  BY DEF InitSweep, QueueOK, MainOK
<1>5. MainOK'
  BY DEF InitSweep, MainOK, Recovering
<1>6. WorkerOK'
  BY SweepOK
<1>7. ListOK'
  BY DEF InitSweep, ListOK, Recovering
<1> QED BY <1>1, <1>2, <1>3, <1>4, <1>5, <1>6, <1>7

(* Indexing a directory that the index file does not have. *)
LEMMA InitRecoverStep == ASSUME IInv, NEW id \in Ids, InitRecover(id) PROVE IInv'
<1> USE DEF IInv
<1>1. TypeOK'
  BY RecoverTyped
<1>2. MetaImpliesWhole'
  BY DEF InitRecover, MetaImpliesWhole
<1>3. WholeIsListed'
  BY DEF InitRecover, WholeIsListed, Recovering, Running
<1>4. QueueOK'
  BY DEF InitRecover, QueueOK, MainOK
<1>5. MainOK'
  BY DEF InitRecover, MainOK, Recovering
<1>6. WorkerOK'
  BY DEF InitRecover, WorkerOK, Spend, Numbered, TypeOK
<1>7. ListOK'
  BY DEF InitRecover, ListOK, Recovering
<1> QED BY <1>1, <1>2, <1>3, <1>4, <1>5, <1>6, <1>7

(* The end of init: every directory that names its match is in the index. *)
LEMMA InitFinishStep == ASSUME IInv, InitFinish PROVE IInv'
<1> USE DEF IInv
<1>1. TypeOK'
  BY DEF InitFinish, TypeOK, Idle, IndexFile, IndexFileOf
<1>2. MetaImpliesWhole'
  BY DEF InitFinish, MetaImpliesWhole
<1>3. WholeIsListed'
  BY DEF InitFinish, WholeIsListed, FileNames, WholeDir, Recoverable,
    StoredMetaNamesId, MetaOf
<1>4. QueueOK'
  BY DEF InitFinish, QueueOK, Idle, Numbered, Secured
<1>5. MainOK'
  BY DEF InitFinish, MainOK, Idle
<1>6. WorkerOK'
  BY DEF InitFinish, WorkerOK, Numbered
<1>7. ListOK'
  BY DEF InitFinish, ListOK, Idle
<1> QED BY <1>1, <1>2, <1>3, <1>4, <1>5, <1>6, <1>7

(* The index file removed for a second rename. *)
LEMMA RewriteRetriesStep == ASSUME IInv, RewriteRetries PROVE IInv'
<1> USE DEF IInv
<1>1. TypeOK'
  BY DEF RewriteRetries, TypeOK, Spend, IndexFile, NoIndexFile
<1>2. MetaImpliesWhole'
  BY DEF RewriteRetries, MetaImpliesWhole
<1>3. WholeIsListed'
  BY DEF RewriteRetries, WholeIsListed, Running
<1>4. QueueOK'
  BY DEF RewriteRetries, QueueOK, Spend, Numbered, Secured
<1>5. MainOK'
  BY DEF RewriteRetries, MainOK
<1>6. WorkerOK'
  BY DEF RewriteRetries, WorkerOK, Spend, Numbered
<1>7. ListOK'
  BY DEF RewriteRetries, ListOK
<1> QED BY <1>1, <1>2, <1>3, <1>4, <1>5, <1>6, <1>7

(* store() for an imported match. *)
LEMMA ImportStep == ASSUME IInv, NEW id \in Ids, Import(id) PROVE IInv'
<1> USE DEF IInv
<1>1. TypeOK'
  BY DEF Import, TypeOK, Dir, State, FileNames, EmptyDir, Paths, TmpOf, Working,
    Spend, StoreBegin, With
<1>2. MetaImpliesWhole'
  BY DEF Import, MetaImpliesWhole
<1>3. WholeIsListed'
  BY DEF Import, WholeIsListed, Idle, Running
<1>4. QueueOK'
  BY DEF Import, QueueOK, TmpOf, Working, Spend, StoreBegin, With, Numbered,
    Secured
<1>5. MainOK'
  BY DEF Import, MainOK, TmpOf, Working, Spend, StoreBegin, StoredMetaNamesId,
    MetaOf, With, Secured
<1>6. WorkerOK'
  BY DEF Import, WorkerOK, Spend, StoreBegin, With, Numbered
<1>7. ListOK'
  BY DEF Import, ListOK, StoreBegin, Working
<1> QED BY <1>1, <1>2, <1>3, <1>4, <1>5, <1>6, <1>7

(* A message from the worker. *)
LEMMA ReceiveStep == ASSUME IInv, Receive PROVE IInv'
<1> USE DEF IInv
<1>1. TypeOK'
  BY ReceiveTyped
<1>2. MetaImpliesWhole'
  BY DEF Receive, MetaImpliesWhole
<1>3. WholeIsListed'
  BY DEF Receive, WholeIsListed, Idle, Running
<1>4. QueueOK'
  BY ReceiveOK
<1>5. MainOK'
  BY ReceiveOK
<1>6. WorkerOK'
  BY DEF Receive, WorkerOK, StoreBegin, With, Numbered
<1>7. ListOK'
  BY DEF Receive, ListOK, StoreBegin, Working, Idle
<1> QED BY <1>1, <1>2, <1>3, <1>4, <1>5, <1>6, <1>7

(* One write of store(). *)
LEMMA StoreWriteStep == ASSUME IInv, StoreWrite PROVE IInv'
<1> USE DEF IInv
<1>1. TypeOK'
  BY WrittenTyped DEF StoreWrite, TypeOK, Working
<1>2. MetaImpliesWhole'
  BY DEF StoreWrite, MetaImpliesWhole
<1>3. WholeIsListed'
  BY DEF StoreWrite, WholeIsListed, Running
<1>4. QueueOK'
  BY DEF StoreWrite, QueueOK, Working, Numbered, Secured, MainOK
<1>5. MainOK'
  BY StoreWriteMain
<1>6. WorkerOK'
  BY DEF StoreWrite, WorkerOK, Numbered
<1>7. ListOK'
  BY DEF StoreWrite, ListOK, Working
<1> QED BY <1>1, <1>2, <1>3, <1>4, <1>5, <1>6, <1>7

(* A write of store() that throws. *)
LEMMA StoreWriteFailsStep == ASSUME IInv, StoreWriteFails PROVE IInv'
<1> USE DEF IInv
<1>1. TypeOK'
  BY DEF StoreWriteFails, TypeOK, Idle, Spend
<1>2. MetaImpliesWhole'
  BY DEF StoreWriteFails, MetaImpliesWhole
<1>3. WholeIsListed'
  BY DEF StoreWriteFails, WholeIsListed, Running
<1>4. QueueOK'
  BY DEF StoreWriteFails, QueueOK, Idle, Spend, Numbered, Secured
<1>5. MainOK'
  BY DEF StoreWriteFails, MainOK, Idle
<1>6. WorkerOK'
  BY DEF StoreWriteFails, WorkerOK, Spend, Numbered
<1>7. ListOK'
  BY DEF StoreWriteFails, ListOK, Idle
<1> QED BY <1>1, <1>2, <1>3, <1>4, <1>5, <1>6, <1>7

(* The entry in the index. *)
LEMMA CommitListStep == ASSUME IInv, CommitList PROVE IInv'
<1> USE DEF IInv
<1>1. TypeOK'
  BY AppendTyped, SpendOK DEF CommitList, TypeOK, Paths, IdOf, Idle, Bound
<1>2. MetaImpliesWhole'
  BY DEF CommitList, MetaImpliesWhole
<1>3. WholeIsListed'
  BY DEF CommitList, WholeIsListed, Running
<1>4. QueueOK'
  BY DEF CommitList, QueueOK, Idle, Spend, Numbered, Secured, TypeOK
<1>5. MainOK'
  BY DEF CommitList, MainOK, Idle
<1>6. WorkerOK'
  BY DEF CommitList, WorkerOK, Spend, Numbered, TypeOK
<1>7. ListOK'
  BY DEF CommitList, ListOK, Idle
<1> QED BY <1>1, <1>2, <1>3, <1>4, <1>5, <1>6, <1>7

(* A commit that throws. *)
LEMMA CommitFailsStep == ASSUME IInv, CommitFails PROVE IInv'
<1> USE DEF IInv
<1>1. TypeOK'
  BY DEF CommitFails, TypeOK, Idle, Spend
<1>2. MetaImpliesWhole'
  BY DEF CommitFails, MetaImpliesWhole
<1>3. WholeIsListed'
  BY DEF CommitFails, WholeIsListed, Running
<1>4. QueueOK'
  BY DEF CommitFails, QueueOK, Idle, Spend, Numbered, Secured
<1>5. MainOK'
  BY DEF CommitFails, MainOK, Idle
<1>6. WorkerOK'
  BY DEF CommitFails, WorkerOK, Spend, Numbered
<1>7. ListOK'
  BY DEF CommitFails, ListOK, Idle
<1> QED BY <1>1, <1>2, <1>3, <1>4, <1>5, <1>6, <1>7

(* The application ends. *)
LEMMA MainCrashStep == ASSUME IInv, MainCrash PROVE IInv'
<1> USE DEF IInv
<1>1. TypeOK'
  BY AppendTyped DEF MainCrash, TypeOK, Paths, IdOf, Down, Spend, Recoverable,
    Appending
<1>2. MetaImpliesWhole'
  BY DEF MainCrash, MetaImpliesWhole
<1>3. WholeIsListed'
  BY DEF MainCrash, WholeIsListed, Down, Running
<1>4. QueueOK'
  BY DEF MainCrash, QueueOK
<1>5. MainOK'
  BY DEF MainCrash, MainOK, Down
<1>6. WorkerOK'
  BY DEF MainCrash, WorkerOK, Down
<1>7. ListOK'
  BY DEF MainCrash, ListOK, Down
<1> QED BY <1>1, <1>2, <1>3, <1>4, <1>5, <1>6, <1>7

(* stageMatch makes its directory. *)
LEMMA StageStep == ASSUME IInv, NEW id \in Ids, Stage(id) PROVE IInv'
<1> USE DEF IInv
<1>1. TypeOK'
  BY DEF Stage, TypeOK, Dir, State, EmptyDir, Paths, Working, Spend, With
<1>2. MetaImpliesWhole'
  BY DEF Stage, MetaImpliesWhole
<1>3. WholeIsListed'
  BY DEF Stage, WholeIsListed, Running
<1>4. QueueOK'
  BY DEF Stage, QueueOK, Working, Spend, With, Numbered, Secured, TypeOK
<1>5. MainOK'
  BY StageMain
<1>6. WorkerOK'
  BY DEF Stage, WorkerOK, Working, Spend, With, Numbered, TypeOK
<1>7. ListOK'
  BY DEF Stage, ListOK
<1> QED BY <1>1, <1>2, <1>3, <1>4, <1>5, <1>6, <1>7

(* One write of stageMatch. *)
LEMMA StageWriteStep == ASSUME IInv, StageWrite PROVE IInv'
<1> USE DEF IInv
<1>1. TypeOK'
  BY WrittenTyped DEF StageWrite, TypeOK
<1>2. MetaImpliesWhole'
  BY DEF StageWrite, MetaImpliesWhole
<1>3. WholeIsListed'
  BY DEF StageWrite, WholeIsListed, Running
<1>4. QueueOK'
  BY DEF StageWrite, QueueOK, Numbered, Secured
<1>5. MainOK'
  BY DEF StageWrite, MainOK, StoredMetaNamesId, MetaOf, Secured
<1>6. WorkerOK'
  BY DEF StageWrite, WorkerOK, Numbered
<1>7. ListOK'
  BY DEF StageWrite, ListOK
<1> QED BY <1>1, <1>2, <1>3, <1>4, <1>5, <1>6, <1>7

(* stageMatch posts what it wrote. *)
LEMMA StagePostStep == ASSUME IInv, StagePost PROVE IInv'
<1> USE DEF IInv
<1>1. TypeOK'
  BY DEF StagePost, TypeOK, Idle, Message
<1>2. MetaImpliesWhole'
  BY DEF StagePost, MetaImpliesWhole
<1>3. WholeIsListed'
  BY DEF StagePost, WholeIsListed, Running
<1>4. QueueOK'
  BY DEF StagePost, QueueOK, Idle, Numbered, Secured, MainOK, WorkerOK
<1>5. MainOK'
  BY DEF StagePost, MainOK, Down, Idle, StoredMetaNamesId, MetaOf, Secured
<1>6. WorkerOK'
  BY DEF StagePost, WorkerOK, Idle
<1>7. ListOK'
  BY DEF StagePost, ListOK
<1> QED BY <1>1, <1>2, <1>3, <1>4, <1>5, <1>6, <1>7

(* A new worker. *)
LEMMA WorkerStartStep == ASSUME IInv, WorkerStart PROVE IInv'
<1> USE DEF IInv
<1>1. TypeOK'
  BY DEF WorkerStart, TypeOK, Idle
<1>2. MetaImpliesWhole'
  BY DEF WorkerStart, MetaImpliesWhole
<1>3. WholeIsListed'
  BY DEF WorkerStart, WholeIsListed, Running
<1>4. QueueOK'
  BY DEF WorkerStart, QueueOK, Idle, Numbered, Secured
<1>5. MainOK'
  BY DEF WorkerStart, MainOK, Idle
<1>6. WorkerOK'
  BY DEF WorkerStart, WorkerOK, Idle
<1>7. ListOK'
  BY DEF WorkerStart, ListOK
<1> QED BY <1>1, <1>2, <1>3, <1>4, <1>5, <1>6, <1>7

(* The worker dies. *)
LEMMA WorkerCrashStep == ASSUME IInv, WorkerCrash PROVE IInv'
<1> USE DEF IInv
<1>1. TypeOK'
  BY DEF WorkerCrash, TypeOK, Down, Spend
<1>2. MetaImpliesWhole'
  BY DEF WorkerCrash, MetaImpliesWhole
<1>3. WholeIsListed'
  BY DEF WorkerCrash, WholeIsListed, Running
<1>4. QueueOK'
  BY DEF WorkerCrash, QueueOK, Down, Spend, Numbered, Secured
<1>5. MainOK'
  BY DEF WorkerCrash, MainOK, Down, Spend, StoredMetaNamesId, MetaOf, Secured
<1>6. WorkerOK'
  BY DEF WorkerCrash, WorkerOK, Down
<1>7. ListOK'
  BY DEF WorkerCrash, ListOK
<1> QED BY <1>1, <1>2, <1>3, <1>4, <1>5, <1>6, <1>7

(* A meta.json destroyed from outside. *)
LEMMA DamageStep == ASSUME IInv, NEW id \in Ids, Damage(id) PROVE IInv'
<1> USE DEF IInv
<1>1. TypeOK'
  BY DEF Damage, TypeOK, Dir, FileNames, Spend
<1>2. MetaImpliesWhole'
  BY DEF Damage, MetaImpliesWhole, TypeOK, WholeDir, FileNames
<1>3. WholeIsListed'
  BY DEF Damage, WholeIsListed, Running
<1>4. QueueOK'
  BY DEF Damage, QueueOK, Spend, Numbered, Secured
<1>5. MainOK'
  BY DEF Damage, MainOK, Spend, StoredMetaNamesId, MetaOf, Secured
<1>6. WorkerOK'
  BY DEF Damage, WorkerOK, Spend, Numbered
<1>7. ListOK'
  BY DEF Damage, ListOK, TypeOK
<1> QED BY <1>1, <1>2, <1>3, <1>4, <1>5, <1>6, <1>7
-----------------------------------------------------------------------------
(* Nothing is stored, and the application is not running. *)
LEMMA InitInvariant == Init => IInv
<1> SUFFICES ASSUME Init PROVE IInv
  OBVIOUS
<1>1. TypeOK
  BY DEF Init, TypeOK, Bound, NoIndexFile, IndexFile, Down
<1> QED BY <1>1 DEF Init, IInv, MetaImpliesWhole, WholeIsListed, Running, QueueOK, MainOK,
       WorkerOK, ListOK, Down

(* Every step keeps the invariant. *)
LEMMA NextInvariant == IInv /\ [Next]_vars => IInv'
<1> SUFFICES ASSUME IInv, [Next]_vars PROVE IInv'
  OBVIOUS
<1>1. CASE MainNext
  BY <1>1, InitReadStep, InitSweepStep, InitRecoverStep, InitFinishStep, RewriteRetriesStep,
     ImportStep, ReceiveStep, StoreWriteStep, StoreWriteFailsStep, CommitBeginStep,
     CommitRemoveStep, CommitRenameStep, CommitListStep, CommitFailsStep, MainCrashStep
     DEF MainNext
<1>2. CASE WorkerNext
  BY <1>2, StageStep, StageWriteStep, StagePostStep, StageFailsStep, WorkerStartStep,
     WorkerCrashStep DEF WorkerNext
<1>3. CASE \E id \in Ids : Damage(id)
  BY <1>3, DamageStep
<1>4. CASE UNCHANGED vars
  BY <1>4 DEF vars, IInv, TypeOK, MetaImpliesWhole, WholeIsListed, Running, QueueOK, Secured,
     Numbered, MainOK, StoredMetaNamesId, MetaOf, WorkerOK, ListOK
<1> QED BY <1>1, <1>2, <1>3, <1>4 DEF Next

(* The inductive invariant: the staging directories that are posted or     *)
(* being committed are complete, and none of them is named twice or        *)
(* written by anyone.                                                      *)
THEOREM InductiveInvariant == Spec => []IInv
<1> QED BY InitInvariant, NextInvariant, PTL DEF Spec

(* The match directories, the staging directories, the index file and what *)
(* the two processes do stay typed.                                        *)
THEOREM TypeCorrect == Spec => []TypeOK
<1>1. IInv => TypeOK
  BY DEF IInv
<1> QED BY <1>1, InductiveInvariant, PTL

(* A meta.json that names its match stands for a whole match directory,    *)
(* which is what the dedups of store, commitStaged and stageMatch rely on. *)
THEOREM MetaImpliesWholeHolds == Spec => []MetaImpliesWhole
<1>1. IInv => MetaImpliesWhole
  BY DEF IInv
<1> QED BY <1>1, InductiveInvariant, PTL

(* While the application runs, the index of main has every match that is   *)
(* whole on disk, which is what the worker relies on when it skips one.    *)
THEOREM WholeIsListedHolds == Spec => []WholeIsListed
<1>1. IInv => WholeIsListed
  BY DEF IInv
<1> QED BY <1>1, InductiveInvariant, PTL

(* What a queued message, or the commit in progress, names is a complete   *)
(* staging directory.                                                      *)
THEOREM QueuedIsWholeHolds == Spec => []QueuedIsWhole
<1>1. IInv => QueuedIsWhole
  <2> SUFFICES ASSUME IInv, NEW path \in Awaiting
               PROVE  path \in DOMAIN stages /\ stages[path] = WholeDir
    BY DEF QueuedIsWhole
  <2>1. DOMAIN queue = 1..Len(queue)
    BY DEF IInv, TypeOK
  <2> QED BY <2>1 DEF IInv, Awaiting, QueueOK, MainOK, Secured
<1> QED BY <1>1, InductiveInvariant, PTL
-----------------------------------------------------------------------------
(* AtomicStore, seen through the refinement mapping. *)
disk == [id \in Ids |-> StatusOf(id)]
library == IF Running THEN index ELSE {}

(* The disk after a step that changes no match directory, or only one. *)
LEMMA DiskStays ==
  ASSUME \A id \in Ids : StatusOf(id)' = StatusOf(id)
  PROVE  disk' = disk
BY DEF disk

(* One match only, if all others are as they were. *)
LEMMA DiskChanges ==
  ASSUME NEW id \in Ids, \A other \in Ids \ {id} : StatusOf(other)' = StatusOf(other)
  PROVE  disk' = [disk EXCEPT ![id] = StatusOf(id)']
BY DEF disk

(* None, if the directories are as they were. *)
LEMMA DirsStay == ASSUME UNCHANGED dirs PROVE UNCHANGED disk
BY DEF disk, StatusOf

(* Most steps are not seen: they touch neither the match directories nor   *)
(* the index of a running application.                                     *)
LEMMA Unseen ==
  ASSUME UNCHANGED dirs, UNCHANGED library, spent'["damage"] = spent["damage"]
  PROVE  UNCHANGED Atomic!vars
BY DirsStay DEF Atomic!vars, disk, library

(* Only damage counts as damage. *)
LEMMA SpendsNoDamage ==
  ASSUME TypeOK, NEW what \in DOMAIN Bound, what # "damage", Spend(what)
  PROVE  spent'["damage"] = spent["damage"]
BY DEF TypeOK, Spend, Bound

(* Before the end of init the library is not shown. *)
LEMMA InitUnseen ==
  ASSUME IInv, InitRead \/ InitSweep \/ (\E id \in Ids : InitRecover(id)) \/ RewriteRetries
  PROVE  UNCHANGED Atomic!vars
<1>1. UNCHANGED dirs /\ ~Running /\ ~Running'
  BY DEF InitRead, InitSweep, InitRecover, RewriteRetries, Running, Recovering, Down
<1>2. spent'["damage"] = spent["damage"]
  BY SpendsNoDamage DEF IInv, InitRead, InitSweep, InitRecover, RewriteRetries, Bound
<1> QED BY <1>1, <1>2, Unseen DEF library

(* Until the rename, store() and commitStaged change staging directories only. *)
LEMMA StoreUnseen ==
  ASSUME IInv, \/ \E id \in Ids : Import(id)
               \/ Receive \/ StoreWrite \/ StoreWriteFails \/ CommitBegin \/ CommitFails
  PROVE  UNCHANGED Atomic!vars
<1>1. UNCHANGED <<dirs, index>> /\ Running /\ Running'
  BY DEF Import, Receive, StoreBegin, StoreWrite, StoreWriteFails, CommitBegin, CommitFails,
     Running, Idle, Working
<1>2. spent'["damage"] = spent["damage"]
  BY SpendsNoDamage DEF IInv, Import, Receive, StoreWrite, StoreWriteFails, CommitBegin,
     CommitFails, Bound
<1> QED BY <1>1, <1>2, Unseen DEF library

(* The worker never changes the match directories or the index. *)
LEMMA WorkerUnseen == ASSUME IInv, WorkerNext PROVE UNCHANGED Atomic!vars
<1>1. UNCHANGED <<dirs, index, main>>
  BY DEF WorkerNext, Stage, StageWrite, StagePost, StageFails, WorkerStart, WorkerCrash
<1>2. spent'["damage"] = spent["damage"]
  BY SpendsNoDamage DEF IInv, WorkerNext, Stage, StageWrite, StagePost, StageFails,
     WorkerStart, WorkerCrash, Bound
<1> QED BY <1>1, <1>2, Unseen DEF library, Running

(* The end of init shows every match that is whole, and nothing that has   *)
(* no directory.                                                           *)
LEMMA InitFinishIsLoad == ASSUME IInv, InitFinish PROVE Atomic!Load
<1>1. IInv'
  BY InitFinishStep
<1>2. /\ UNCHANGED dirs /\ ~Running /\ Running' /\ spent' = spent
      /\ index' = index \cap DOMAIN dirs /\ main' = Idle
  BY DEF InitFinish, Running, Idle
<1>3. library = {} /\ library' = index'
  BY <1>2 DEF library
<1>4. \A id \in index' : StatusOf(id) # "absent"
  BY <1>2 DEF StatusOf
<1>5. \A id \in Ids : StatusOf(id) = "stored" => id \in index'
  BY <1>1, <1>2 DEF IInv, WholeIsListed, StatusOf, Idle
<1>6. index' \subseteq Ids
  BY <1>1 DEF IInv, TypeOK
<1>7. disk' = disk
  BY <1>2, DirsStay
<1>8. library' \in SUBSET {id \in Ids : disk[id] # "absent"}
  BY <1>3, <1>4, <1>6 DEF disk
<1>9. {id \in Ids : disk[id] = "stored"} \subseteq library'
  BY <1>3, <1>5 DEF disk
<1> QED BY <1>2, <1>3, <1>7, <1>8, <1>9
     DEF Atomic!Load, Atomic!Present, Atomic!Stored, disk, library

(* Only a directory that is not whole loses a file, or goes. *)
LEMMA CommitRemoveIsClear ==
  ASSUME IInv, CommitRemove, NEW id \in Ids, id = IdOf(main.path)
  PROVE  Atomic!Clear(id) \/ UNCHANGED Atomic!vars
<1>1. /\ id \in DOMAIN dirs /\ dirs[id]["meta"] # "whole"
      /\ Running /\ Running' /\ UNCHANGED <<index, spent>>
  BY MainPath DEF CommitRemove, IInv, MainOK, StoredMetaNamesId, MetaOf, Running
<1>2. StatusOf(id) = "damaged"
  BY <1>1 DEF StatusOf, WholeDir, FileNames
<1>3. /\ \A other \in Ids \ {id} : StatusOf(other)' = StatusOf(other)
      /\ StatusOf(id)' \in {"absent", "damaged"}
  <2>1. CASE dirs' = Without(dirs, id)
    <3>1. /\ DOMAIN dirs' = DOMAIN dirs \ {id}
          /\ \A d \in DOMAIN dirs' : dirs'[d] = dirs[d]
      BY <2>1 DEF Without, Restrict
    <3> QED BY <3>1 DEF StatusOf
  <2>2. CASE \E f \in FileNames : dirs' = [dirs EXCEPT ![id][f] = "none"]
    <3>1. PICK f \in FileNames : dirs' = [dirs EXCEPT ![id][f] = "none"]
      BY <2>2
    <3>2. /\ DOMAIN dirs' = DOMAIN dirs
          /\ dirs'[id] = [dirs[id] EXCEPT ![f] = "none"]
          /\ \A d \in DOMAIN dirs \ {id} : dirs'[d] = dirs[d]
      BY <1>1, <3>1 DEF IInv, TypeOK
    <3>3. dirs'[id]["meta"] # "whole"
      BY <1>1, <3>2 DEF IInv, TypeOK, Dir
    <3>4. dirs'[id] # WholeDir
      BY <3>3 DEF WholeDir, FileNames
    <3> QED BY <1>1, <3>2, <3>4 DEF StatusOf
  <2> QED BY <2>1, <2>2 DEF CommitRemove
<1>4. library' = library
  BY <1>1 DEF library
<1>5. disk' = [disk EXCEPT ![id] = StatusOf(id)']
  BY <1>1, <1>3, DiskChanges
<1>6. disk[id] = "damaged" /\ DOMAIN disk = Ids
  BY <1>1, <1>2 DEF disk
<1>7. CASE StatusOf(id)' = "absent"
  <2>1. disk' = [disk EXCEPT ![id] = "absent"]
    BY <1>5, <1>7
  <2> QED BY <1>1, <1>4, <1>6, <2>1 DEF Atomic!Clear, disk, library
<1>8. CASE StatusOf(id)' = "damaged"
  <2>1. \A other \in Ids : StatusOf(other)' = StatusOf(other)
    BY <1>2, <1>3, <1>8
  <2>2. disk' = disk
    BY <2>1, DiskStays
  <2> QED BY <1>1, <1>4, <2>2 DEF Atomic!vars, disk, library
<1> QED BY <1>3, <1>7, <1>8

(* A complete staging directory takes the place of nothing. *)
LEMMA CommitRenameIsPut ==
  ASSUME IInv, CommitRename, NEW id \in Ids, id = IdOf(main.path)
  PROVE  Atomic!Put(id)
<1>1. /\ id \notin DOMAIN dirs /\ Running /\ Running'
      /\ UNCHANGED <<index, spent>>
      /\ dirs' = With(dirs, id, WholeDir)
  BY MainPath DEF CommitRename, IInv, MainOK, Secured, Running, Working
<1>2. /\ DOMAIN dirs' = DOMAIN dirs \cup {id} /\ dirs'[id] = WholeDir
      /\ \A d \in DOMAIN dirs : dirs'[d] = dirs[d]
  BY <1>1 DEF With
<1>3. StatusOf(id) = "absent" /\ StatusOf(id)' = "stored"
  BY <1>1, <1>2 DEF StatusOf
<1>4. \A other \in Ids \ {id} : StatusOf(other)' = StatusOf(other)
  BY <1>2 DEF StatusOf
<1>5. disk' = [disk EXCEPT ![id] = "stored"] /\ disk[id] = "absent"
  <2>1. disk' = [disk EXCEPT ![id] = StatusOf(id)']
    BY <1>1, <1>4, DiskChanges
  <2> QED BY <1>1, <1>3, <2>1 DEF disk
<1>6. library' = library
  BY <1>1 DEF library
<1> QED BY <1>1, <1>5, <1>6 DEF Atomic!Put, disk, library

(* The entry in the index is for a match on disk. *)
LEMMA CommitListIsList ==
  ASSUME IInv, CommitList, NEW id \in Ids, id = IdOf(main.path)
  PROVE  Atomic!List(id)
<1>1. /\ id \in DOMAIN dirs /\ Running /\ Running' /\ UNCHANGED dirs
      /\ index' = index \cup {id}
  BY MainPath DEF CommitList, IInv, ListOK, Running, Idle
<1>2. spent'["damage"] = spent["damage"]
  BY SpendsNoDamage DEF CommitList, IInv, Bound
<1>3. disk[id] # "absent"
  BY <1>1 DEF disk, StatusOf
<1>4. disk' = disk
  BY <1>1, DirsStay
<1>5. library' = library \cup {id}
  BY <1>1 DEF library
<1> QED BY <1>2, <1>3, <1>4, <1>5 DEF Atomic!List, disk, library

(* A crash empties the library and touches no directory. *)
LEMMA MainCrashIsStop == ASSUME IInv, MainCrash PROVE Atomic!Stop
<1>1. UNCHANGED dirs /\ ~Running'
  BY DEF MainCrash, Running, Down
<1>2. spent'["damage"] = spent["damage"]
  BY SpendsNoDamage DEF MainCrash, IInv, Bound
<1>3. library' = {} /\ disk' = disk
  BY <1>1, DirsStay DEF library
<1> QED BY <1>2, <1>3 DEF Atomic!Stop, disk, library

(* Damage from outside is the one step that makes a whole match less. *)
LEMMA DamageIsDamage ==
  ASSUME IInv, NEW id \in Ids, Damage(id) PROVE Atomic!Damage(id)
<1>1. /\ id \in DOMAIN dirs /\ dirs[id] = WholeDir /\ UNCHANGED <<index, main>>
  BY DEF Damage
<1>2. PICK s \in State \ {"whole"} : dirs' = [dirs EXCEPT ![id]["meta"] = s]
  BY DEF Damage
<1>3. /\ DOMAIN dirs' = DOMAIN dirs /\ dirs'[id] = [WholeDir EXCEPT !["meta"] = s]
      /\ \A d \in DOMAIN dirs \ {id} : dirs'[d] = dirs[d]
  BY <1>1, <1>2 DEF IInv, TypeOK
<1>4. dirs'[id] # WholeDir
  <2>1. dirs'[id]["meta"] = s /\ WholeDir["meta"] = "whole" /\ s # "whole"
    BY <1>2, <1>3 DEF WholeDir, FileNames
  <2> QED BY <2>1
<1>5. StatusOf(id) = "stored" /\ StatusOf(id)' = "damaged"
  BY <1>1, <1>3, <1>4 DEF StatusOf
<1>6. \A other \in Ids \ {id} : StatusOf(other)' = StatusOf(other)
  BY <1>3 DEF StatusOf
<1>7. disk' = [disk EXCEPT ![id] = "damaged"] /\ disk[id] = "stored"
  <2>1. disk' = [disk EXCEPT ![id] = StatusOf(id)']
    BY <1>6, DiskChanges
  <2> QED BY <1>5, <2>1 DEF disk
<1>8. library' = library
  BY <1>1 DEF library, Running
<1>9. spent'["damage"] = spent["damage"] + 1
  BY DEF Damage, Spend, IInv, TypeOK
<1> QED BY <1>7, <1>8, <1>9 DEF Atomic!Damage, disk, library

(* At the beginning nothing is on disk. *)
LEMMA InitIsInit == Init => Atomic!Init
<1> SUFFICES ASSUME Init PROVE Atomic!Init
  OBVIOUS
<1>1. \A id \in Ids : StatusOf(id) = "absent"
  BY DEF Init, StatusOf
<1>2. spent["damage"] = 0 /\ ~Running
  BY DEF Init, Running, Down, Bound
<1> QED BY <1>1, <1>2 DEF Atomic!Init

(* Every step is one of the abstract store's, or is not seen. *)
LEMMA NextIsNext == IInv /\ [Next]_vars => [Atomic!Next]_(Atomic!vars)
<1> SUFFICES ASSUME IInv, [Next]_vars PROVE Atomic!Next \/ UNCHANGED Atomic!vars
  OBVIOUS
<1>1. CASE CommitRemove \/ CommitRename \/ CommitList
  <2>1. main.pc \in {"replace", "list"}
    BY <1>1 DEF CommitRemove, CommitRename, CommitList
  <2>2. IdOf(main.path) \in Ids
    BY <2>1, MainPath DEF IInv
  <2> QED BY <1>1, <2>2, CommitRemoveIsClear, CommitRenameIsPut, CommitListIsList
       DEF Atomic!Next
<1>2. CASE InitFinish \/ MainCrash
  BY <1>2, InitFinishIsLoad, MainCrashIsStop DEF Atomic!Next
<1>3. CASE MainNext /\ ~InitFinish /\ ~MainCrash /\ ~CommitRemove /\ ~CommitRename
           /\ ~CommitList
  BY <1>3, InitUnseen, StoreUnseen DEF MainNext
<1>4. CASE WorkerNext
  BY <1>4, WorkerUnseen
<1>5. CASE \E id \in Ids : Damage(id)
  BY <1>5, DamageIsDamage DEF Atomic!Next
<1>6. CASE UNCHANGED vars
  BY <1>6, Unseen DEF vars, library, Running
<1> QED BY <1>1, <1>2, <1>3, <1>4, <1>5, <1>6 DEF Next, MainNext

(* The match store is an atomic store: whatever is interrupted between two *)
(* system calls, a match is there as a whole or not at all, what is whole  *)
(* is never replaced, and what a running application shows stays shown.    *)
THEOREM StoreIsAtomicHolds == Spec => StoreIsAtomic
<1> QED BY InductiveInvariant, InitIsInit, NextIsNext, PTL
     DEF Spec, StoreIsAtomic, Atomic!Spec
=============================================================================
