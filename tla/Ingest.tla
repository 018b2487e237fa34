------------------------------- MODULE Ingest -------------------------------
(***************************************************************************)
(* From a line the game writes to a match in the library: the log worker   *)
(* process (worker/runtime.ts, pipeline.ts, watcher.ts, checkpoints.ts),   *)
(* its message channel to the main process, and the store's staging,       *)
(* commit and start-up reconciliation (main/matchStore.ts).  Either        *)
(* process can die between any two steps.                                  *)
(*                                                                         *)
(* Simplifications: readTail is one step (TailReader has its system        *)
(* calls); offsets count complete lines; a first-line checksum is the      *)
(* generation of the file; the store's single operations are atomic; the   *)
(* open/close signals for the recorder and status messages are left out.   *)
(***************************************************************************)
EXTENDS SegmenterOps, FiniteSets

CONSTANTS
  Files,           \* the combat logs of the watched directory
  LineKinds,       \* the kinds of line the game writes
  MaxLines,        \* bound on the lines of one generation of a file
  MaxGen,          \* bound on the generations of a file (rotations + 1)
  MaxQueue,        \* bound on the messages waiting for main when the worker is configured
  MaxWorkerCrashes, MaxMainCrashes, MaxImports, MaxFailures \* bounds on faults

NoFile == "none"

ASSUME IngestAssumption ==
  /\ NoFile \notin Files
  /\ LineKinds \subseteq Kinds
  /\ MaxLines \in Nat /\ MaxGen \in Nat /\ MaxQueue \in Nat
  /\ MaxWorkerCrashes \in Nat /\ MaxMainCrashes \in Nat
  /\ MaxImports \in Nat /\ MaxFailures \in Nat

VARIABLES
  logs,      \* per file: gen, its lines, and (history) the parser a reader of lines 1..n is in
  pipe,      \* per file: the worker's FilePipeline (parser, tail, checkpoint)
  registry,  \* the worker's checkpoint registry
  saved,     \* checkpoints.json
  wpc,       \* the worker: "down", "blind" (no watcher), "scan" (configuring), "watching", "drain"
  agenda,    \* files still to flush in this round
  batch,     \* files of this round
  reading,   \* the flush in progress
  dirty,     \* the watcher's dirty set
  queue,     \* messages posted by the worker, not yet handled by main
  import,    \* the import in progress in the main process
  mainUp, index,   \* the main process and its in-memory index (ids)
  dirs,      \* match directories on disk
  orphans,   \* staging directories no message refers to any more
  dropped,   \* history: matches whose message a crash took after the saved checkpoint
             \* had passed them, or whose commit failed
  announced, \* history: the ids announced to the renderer as live, in order
  cutShort,  \* history: matches an import delivered from a log that ended inside them
  faults     \* fault counters

worker == <<pipe, registry, wpc, agenda, batch, reading>>
store  == <<index, dirs, orphans>>
history == <<dropped, announced, cutShort>>
vars == <<logs, worker, saved, dirty, queue, import, mainUp, store, history, faults>>

-----------------------------------------------------------------------------
(* Checkpoints: gen 0 stands for a null checksum. *)
Checkpoint == [gen : Nat, offset : Nat]
NoCheckpoint == [gen |-> 0, offset |-> 0]

(* A match as the store keeps it: its id (the hash of the raw lines of its *)
(* first segment) and how many segments it holds.                          *)
MatchOf(f, gen, segments) ==
  [id |-> <<f, gen, segments[1].rawLines[1]>>, rounds |-> Len(segments)]

(* The matches among the callbacks of one parser call (at most one). *)
MatchesIn(f, gen, events) ==
  {MatchOf(f, gen, events[i].segments) :
     i \in {j \in DOMAIN events : events[j].type \in {"match", "shuffle"}}}

(* The parser of whoever has read the first n lines of f. *)
ParserAt(f, n) == IF n = 0 THEN IdleParser ELSE logs[f].parsers[n]

(* The matches line n of f completes, and those f holds up to line n. *)
CompletedBy(f, n) ==
  MatchesIn(f, logs[f].gen, Push(ParserAt(f, n - 1), logs[f].lines[n], n).events)
Completed(f, n) == UNION {CompletedBy(f, i) : i \in 1..n}

ChecksumOf(f) == IF logs[f].lines = <<>> THEN 0 ELSE logs[f].gen

NewPipeline(cp) == [live |-> TRUE, gen |-> cp.gen, offset |-> cp.offset,
                    parser |-> IdleParser, cp |-> cp]
NoPipeline == [NewPipeline(NoCheckpoint) EXCEPT !.live = FALSE]

NotReading == [file |-> NoFile, gen |-> 0, pos |-> 0, todo |-> <<>>]

NotImporting == [file |-> NoFile, gen |-> 0, pos |-> 0, parser |-> IdleParser]

Msg(type, m) == [type |-> type, match |-> m]
Ids(ms) == {m.id : m \in ms}
Queued == {queue[i].match : i \in DOMAIN queue}

-----------------------------------------------------------------------------
Init ==
  /\ logs = [f \in Files |-> [gen |-> 1, lines |-> <<>>, parsers |-> <<>>]]
  /\ pipe = [f \in Files |-> NoPipeline]
  /\ registry = [f \in Files |-> NoCheckpoint]
  /\ saved = [f \in Files |-> NoCheckpoint]
  /\ wpc = "down" /\ agenda = {} /\ batch = {} /\ reading = NotReading
  /\ dirty = {} /\ queue = <<>>
  /\ import = NotImporting /\ mainUp = TRUE /\ index = {} /\ dirs = {} /\ orphans = {}
  /\ dropped = {} /\ announced = <<>> /\ cutShort = {}
  /\ faults = [worker |-> 0, main |-> 0, imports |-> 0, failures |-> 0]

-----------------------------------------------------------------------------
(* The game.  fs.watch reports a write once the watcher runs. *)
Notify(f) == dirty' = IF wpc \in {"watching", "drain"} THEN dirty \cup {f} ELSE dirty

GameWrites(f) ==
  \E k \in LineKinds :
    LET n == Len(logs[f].lines) + 1
    IN  /\ n <= MaxLines
        /\ logs' = [logs EXCEPT ![f].lines = Append(@, k),
                                ![f].parsers = Append(@, Push(ParserAt(f, n - 1), k, n).parser)]
        /\ Notify(f)
        /\ UNCHANGED <<worker, saved, queue, import, mainUp, store, history, faults>>

GameRotates(f) ==
  /\ logs[f].gen < MaxGen
  /\ logs' = [logs EXCEPT ![f] = [gen |-> @.gen + 1, lines |-> <<>>, parsers |-> <<>>]]
  /\ Notify(f)
  /\ UNCHANGED <<worker, saved, queue, import, mainUp, store, history, faults>>

-----------------------------------------------------------------------------
(* The worker.  configure (first message after the process starts, and on  *)
(* every settings change): drop the pipelines, reload the checkpoints,     *)
(* flush every file.  The watcher of before is closed.                     *)
Configure ==
  /\ mainUp /\ wpc \in {"down", "blind", "watching"} /\ Len(queue) <= MaxQueue
  /\ pipe' = [f \in Files |-> NoPipeline]
  /\ registry' = saved
  /\ wpc' = "scan" /\ agenda' = Files /\ batch' = Files /\ dirty' = {}
  /\ UNCHANGED <<reading, logs, saved, queue, import, mainUp, store, history, faults>>

(* configure when the directory cannot be listed: no scan and no watcher,  *)
(* until the next configure.                                               *)
ConfigureBlind ==
  /\ mainUp /\ wpc \in {"down", "blind", "watching"} /\ Len(queue) <= MaxQueue
  /\ faults.failures < MaxFailures
  /\ pipe' = [f \in Files |-> NoPipeline]
  /\ registry' = saved
  /\ wpc' = "blind" /\ dirty' = {}
  /\ faults' = [faults EXCEPT !.failures = @ + 1]
  /\ UNCHANGED <<agenda, batch, reading, logs, saved, queue, import, mainUp, store, history>>

(* drain: the dirty files become this round's batch. *)
Drain ==
  /\ wpc = "watching" /\ dirty # {}
  /\ wpc' = "drain" /\ agenda' = dirty /\ batch' = dirty /\ dirty' = {}
  /\ UNCHANGED <<pipe, registry, reading, logs, saved, queue, import, mainUp, store, history, faults>>

(* Mutant of Emit: a match that cannot be staged is not posted at all. *)
EmitOrDrop(ms) ==
  LET fresh == {m \in ms : m.id \notin Ids(dirs)}
  IN  IF fresh = {} THEN UNCHANGED <<queue, faults>>
      ELSE \E m \in fresh :
             \/ queue' = Append(queue, Msg("staged", m)) /\ UNCHANGED faults
             \/ /\ faults.failures < MaxFailures
                /\ faults' = [faults EXCEPT !.failures = @ + 1]
                /\ UNCHANGED queue

(* emitFromPipeline for the matches of one parser call.  stageMatch skips  *)
(* a match whose directory is on disk; if it throws, the whole document is *)
(* posted instead.                                                         *)
Emit(ms) ==
  LET fresh == {m \in ms : m.id \notin Ids(dirs)}
  IN  IF fresh = {} THEN UNCHANGED <<queue, faults>>
      ELSE \E m \in fresh :
             \/ queue' = Append(queue, Msg("staged", m)) /\ UNCHANGED faults
             \/ /\ faults.failures < MaxFailures
                /\ queue' = Append(queue, Msg("full", m))
                /\ faults' = [faults EXCEPT !.failures = @ + 1]

PipelineFor(f) == IF pipe[f].live THEN pipe[f] ELSE NewPipeline(registry[f])

RotatedSince(p, f) ==
  \/ Len(logs[f].lines) < p.offset
  \/ p.gen # 0 /\ ChecksumOf(f) # 0 /\ p.gen # ChecksumOf(f)

(* Mutant of Restarted: the parser of the old log goes on in the new one. *)
RestartedMidMatch(p, gen) == [p EXCEPT !.gen = gen, !.offset = 0, !.cp = [gen |-> gen, offset |-> 0]]

(* The pipeline p after a rotation: reader and parser start over. *)
Restarted(p, gen) == NewPipeline([gen |-> gen, offset |-> 0])

(* flushFile up to the read: readTail sees the lines present now.  On a    *)
(* rotation the old parser is ended (a shuffle hands over the rounds it    *)
(* has) and a new one starts at the head of the new file.                  *)
StartFlush(f) ==
  LET p == PipelineFor(f)
      rotated == RotatedSince(p, f)
      from == IF rotated THEN 0 ELSE p.offset
      gen == IF rotated \/ p.gen = 0 THEN ChecksumOf(f) ELSE p.gen
  IN  /\ wpc \in {"scan", "drain"} /\ reading = NotReading /\ f \in agenda
      /\ pipe' = [pipe EXCEPT ![f] =
                    IF rotated THEN Restarted(p, gen)
                    ELSE [p EXCEPT !.gen = gen]]
      /\ reading' = [file |-> f, gen |-> gen, pos |-> from,
                     todo |-> SubSeq(logs[f].lines, from + 1, Len(logs[f].lines))]
      /\ Emit(IF rotated THEN MatchesIn(f, p.gen, EndOfInput(p.parser).events) ELSE {})
      /\ UNCHANGED <<registry, wpc, agenda, batch, logs, saved, dirty, import, mainUp, store, history>>

(* One line through the parser; a match it completes is staged and posted. *)
FlushLine ==
  LET f == reading.file
      n == reading.pos + 1
      r == Push(pipe[f].parser, Head(reading.todo), n)
  IN  /\ reading # NotReading /\ reading.todo # <<>>
      /\ pipe' = [pipe EXCEPT ![f].parser = r.parser]
      /\ reading' = [reading EXCEPT !.pos = n, !.todo = Tail(@)]
      /\ Emit(MatchesIn(f, reading.gen, r.events))
      /\ UNCHANGED <<registry, wpc, agenda, batch, logs, saved, dirty, import, mainUp, store, history>>

(* Mutant of EndFlush: the checkpoint moves with every flush. *)
EndFlushAlwaysMoves ==
  LET f == reading.file
      cp == [gen |-> reading.gen, offset |-> reading.pos]
  IN  /\ reading # NotReading /\ reading.todo = <<>>
      /\ pipe' = [pipe EXCEPT ![f].offset = reading.pos, ![f].cp = cp]
      /\ registry' = [registry EXCEPT ![f] = cp]
      /\ agenda' = agenda \ {f} /\ reading' = NotReading
      /\ UNCHANGED <<wpc, batch, logs, saved, dirty, queue, import, mainUp, store, history, faults>>

(* The tail moves; the checkpoint moves with it only outside a match. *)
EndFlush ==
  LET f == reading.file
      cp == IF HasOpenSegment(pipe[f].parser) THEN pipe[f].cp
            ELSE [gen |-> reading.gen, offset |-> reading.pos]
  IN  /\ reading # NotReading /\ reading.todo = <<>>
      /\ pipe' = [pipe EXCEPT ![f].offset = reading.pos, ![f].cp = cp]
      /\ registry' = [registry EXCEPT ![f] = cp]
      /\ agenda' = agenda \ {f} /\ reading' = NotReading
      /\ UNCHANGED <<wpc, batch, logs, saved, dirty, queue, import, mainUp, store, history, faults>>

RoundDone == wpc \in {"scan", "drain"} /\ agenda = {} /\ reading = NotReading

(* Mutant of SaveCheckpoints: dirty is cleared when the flush is over       *)
(* instead of when its batch is taken.                                     *)
SaveAndClearDirty ==
  /\ RoundDone
  /\ saved' = registry
  /\ wpc' = "watching" /\ batch' = {} /\ dirty' = {}
  /\ UNCHANGED <<pipe, registry, agenda, reading, logs, queue, import, mainUp, store, history, faults>>

(* saveCheckpoints, then (after a scan) the watcher starts. *)
SaveCheckpoints ==
  /\ RoundDone
  /\ saved' = registry
  /\ wpc' = "watching" /\ batch' = {}
  /\ UNCHANGED <<pipe, registry, agenda, reading, logs, dirty, queue, import, mainUp, store, history, faults>>

(* The write fails during a drain: the files become dirty again.  The      *)
(* rename retry may already have unlinked the old file.                    *)
SaveFails ==
  /\ RoundDone /\ wpc = "drain" /\ faults.failures < MaxFailures
  /\ saved' \in {saved, [f \in Files |-> NoCheckpoint]}
  /\ wpc' = "watching" /\ dirty' = dirty \cup batch /\ batch' = {}
  /\ faults' = [faults EXCEPT !.failures = @ + 1]
  /\ UNCHANGED <<pipe, registry, agenda, reading, logs, queue, import, mainUp, store, history>>

(* Nobody reads m again: the log on disk holds it before the saved         *)
(* checkpoint, where a worker started now begins.                          *)
Passed(m) ==
  \E f \in Files : /\ saved[f].gen = logs[f].gen
                   /\ m.id \in Ids(Completed(f, saved[f].offset))

(* The messages after the first k are lost: their staging directories      *)
(* belong to nobody.                                                       *)
LostAfter(k) == {queue[i] : i \in (k + 1)..Len(queue)}
StagedIn(msgs) == {msg.match : msg \in {x \in msgs : x.type = "staged"}}
DroppedWith(msgs) ==
  {msg.match : msg \in {x \in msgs : x.match.id \notin Ids(dirs) /\ Passed(x.match)}}

WorkerGone ==
  /\ wpc' = "down" /\ agenda' = {} /\ batch' = {} /\ reading' = NotReading /\ dirty' = {}
  /\ pipe' = [f \in Files |-> NoPipeline]
  /\ registry' = [f \in Files |-> NoCheckpoint]

(* The worker dies.  Its last messages may be lost with it, the channel    *)
(* keeps the k before them.  The staging directory it was still writing    *)
(* belongs to nobody either.                                               *)
WorkerCrash ==
  /\ wpc # "down" /\ faults.worker < MaxWorkerCrashes
  /\ WorkerGone
  /\ faults' = [faults EXCEPT !.worker = @ + 1]
  /\ \E k \in 0..Len(queue) :
       /\ queue' = SubSeq(queue, 1, k)
       /\ dropped' = dropped \cup DroppedWith(LostAfter(k))
       /\ \/ orphans' = orphans \cup StagedIn(LostAfter(k))
          \/ /\ reading # NotReading /\ reading.todo # <<>>
             /\ orphans' = orphans \cup StagedIn(LostAfter(k)) \cup
                  MatchesIn(reading.file, reading.gen,
                    Push(pipe[reading.file].parser, Head(reading.todo), reading.pos + 1).events)
  /\ UNCHANGED <<logs, saved, import, mainUp, index, dirs, announced, cutShort>>

-----------------------------------------------------------------------------
(* Mutant of Commit: no look at the index. *)
CommitAgain ==
  /\ mainUp /\ queue # <<>>
  /\ queue' = Tail(queue)
  /\ LET m == Head(queue).match
     IN  /\ dirs' = {d \in dirs : d.id # m.id} \cup {m}
         /\ index' = index \cup {m.id}
         /\ announced' = Append(announced, m.id)
  /\ UNCHANGED <<logs, worker, saved, dirty, import, mainUp, orphans, dropped, cutShort, faults>>

(* The main process.  commitStaged / store: an indexed match is dropped,   *)
(* any other gets its directory and index row and is announced as live.    *)
Commit ==
  /\ mainUp /\ queue # <<>>
  /\ queue' = Tail(queue)
  /\ LET m == Head(queue).match
     IN  IF m.id \in index THEN UNCHANGED <<index, dirs, announced>>
         ELSE /\ dirs' = {d \in dirs : d.id # m.id} \cup {m}
              /\ index' = index \cup {m.id}
              /\ announced' = Append(announced, m.id)
  /\ UNCHANGED <<logs, worker, saved, dirty, import, mainUp, orphans, dropped, cutShort, faults>>

(* The rename (or the write of a full document) throws: the exception is   *)
(* logged, the message is gone.                                            *)
CommitFails ==
  /\ mainUp /\ queue # <<>> /\ faults.failures < MaxFailures
  /\ LET msg == Head(queue)
     IN  /\ msg.match.id \notin index
         /\ dropped' = dropped \cup {msg.match}
         /\ orphans' = IF msg.type = "staged" THEN orphans \cup {msg.match} ELSE orphans
  /\ queue' = Tail(queue)
  /\ faults' = [faults EXCEPT !.failures = @ + 1]
  /\ UNCHANGED <<logs, worker, saved, dirty, import, mainUp, index, dirs, announced, cutShort>>

(* importLogFiles on a log of the directory: a parser of its own streams   *)
(* the file from the start, with other messages handled between chunks,    *)
(* and stores each match as it is found.  Imports are not announced live.  *)
StoreImported(ms) ==
  LET new == {m \in ms : m.id \notin index}
  IN  dirs' = dirs \cup new /\ index' = index \cup Ids(new)

ImportStart(f) ==
  /\ mainUp /\ import = NotImporting /\ faults.imports < MaxImports
  /\ import' = [file |-> f, gen |-> logs[f].gen, pos |-> 0, parser |-> IdleParser]
  /\ faults' = [faults EXCEPT !.imports = @ + 1]
  /\ UNCHANGED <<logs, worker, saved, dirty, queue, mainUp, store, history>>

(* What the stream can still read: nothing more of a log that was replaced.*)
ImportRest ==
  IF logs[import.file].gen # import.gen THEN <<>>
  ELSE SubSeq(logs[import.file].lines, import.pos + 1, Len(logs[import.file].lines))

ImportLine ==
  /\ import # NotImporting /\ ImportRest # <<>>
  /\ LET n == import.pos + 1
         r == Push(import.parser, Head(ImportRest), n)
     IN  /\ import' = [import EXCEPT !.pos = n, !.parser = r.parser]
         /\ StoreImported(MatchesIn(import.file, import.gen, r.events))
  /\ UNCHANGED <<logs, worker, saved, dirty, queue, mainUp, orphans, history, faults>>

(* End of the stream: parser.end() hands over the rounds so far of a       *)
(* shuffle the log ends in.                                                *)
ImportEnd ==
  /\ import # NotImporting /\ ImportRest = <<>>
  /\ LET ms == MatchesIn(import.file, import.gen, EndOfInput(import.parser).events)
     IN  StoreImported(ms) /\ cutShort' = cutShort \cup ms
  /\ import' = NotImporting
  /\ UNCHANGED <<logs, worker, saved, dirty, queue, mainUp, orphans, dropped, announced, faults>>

(* The app quits or crashes: the worker goes with it, and so does every    *)
(* message in the channel.                                                 *)
MainCrash ==
  /\ mainUp /\ faults.main < MaxMainCrashes
  /\ mainUp' = FALSE /\ import' = NotImporting /\ index' = {} /\ queue' = <<>>
  /\ WorkerGone
  /\ orphans' = orphans \cup StagedIn(LostAfter(0))
  /\ dropped' = dropped \cup DroppedWith(LostAfter(0))
  /\ faults' = [faults EXCEPT !.main = @ + 1]
  /\ UNCHANGED <<logs, saved, dirs, announced, cutShort>>

(* init(): staging directories are removed, the index is what is on disk. *)
MainStart ==
  /\ ~mainUp /\ mainUp' = TRUE
  /\ orphans' = {} /\ index' = Ids(dirs)
  /\ UNCHANGED <<logs, worker, saved, dirty, queue, import, dirs, history, faults>>

-----------------------------------------------------------------------------
Next == \/ \E f \in Files : GameWrites(f) \/ GameRotates(f) \/ StartFlush(f) \/ ImportStart(f)
        \/ Configure \/ ConfigureBlind \/ Drain \/ FlushLine \/ EndFlush \/ SaveCheckpoints \/ SaveFails
        \/ ImportLine \/ ImportEnd
        \/ WorkerCrash \/ Commit \/ CommitFails \/ MainCrash \/ MainStart

Spec == Init /\ [][Next]_vars

(* A dead worker is respawned and configured, the watcher's timers drain   *)
(* what is dirty, a flush runs to its end and main takes its messages.     *)
(* Nothing obliges the game, the user, or a process that is down.          *)
Fairness ==
  /\ WF_vars(wpc = "down" /\ Configure)
  /\ WF_vars(Drain)
  /\ \A f \in Files : WF_vars(StartFlush(f))
  /\ WF_vars(FlushLine) /\ WF_vars(EndFlush)
  /\ WF_vars(SaveCheckpoints)
  /\ WF_vars(Commit)
FairSpec == Spec /\ Fairness

-----------------------------------------------------------------------------
MatchIds == Files \X Nat \X Nat
MatchSet == [id : MatchIds, rounds : Nat]
LogSet == [gen : Nat, lines : Seq(Kinds), parsers : Seq(Parser)]
PipeSet == [live : BOOLEAN, gen : Nat, offset : Nat, parser : Parser, cp : Checkpoint]
ReadingSet == [file : Files \cup {NoFile}, gen : Nat, pos : Nat, todo : Seq(Kinds)]
ImportSet == [file : Files \cup {NoFile}, gen : Nat, pos : Nat, parser : Parser]
FaultSet == [worker : Nat, main : Nat, imports : Nat, failures : Nat]

TypeOK ==
  /\ logs \in [Files -> LogSet]
  /\ pipe \in [Files -> PipeSet]
  /\ registry \in [Files -> Checkpoint] /\ saved \in [Files -> Checkpoint]
  /\ wpc \in {"down", "blind", "scan", "watching", "drain"}
  /\ agenda \subseteq Files /\ batch \subseteq Files /\ dirty \subseteq Files
  /\ reading \in ReadingSet
  /\ queue \in Seq([type : {"staged", "full"}, match : MatchSet])
  /\ import \in ImportSet /\ mainUp \in BOOLEAN /\ index \subseteq MatchIds
  /\ dirs \subseteq MatchSet /\ orphans \subseteq MatchSet /\ dropped \subseteq MatchSet
  /\ announced \in Seq(MatchIds) /\ cutShort \subseteq MatchSet /\ faults \in FaultSet

(* A saved checkpoint of the log on disk lies outside every match, so that *)
(* a parser started there sees every match that is not finished before it. *)
CheckpointOutsideMatch ==
  \A f \in Files : saved[f].gen = logs[f].gen =>
    /\ saved[f].offset <= Len(logs[f].lines)
    /\ ParserAt(f, saved[f].offset) = IdleParser

(* Every match finished before a saved checkpoint is in the library or in  *)
(* a message to main, or it was dropped: its message was among the last of *)
(* a worker that died, or was still waiting when main did (WorkerCrash,    *)
(* MainCrash), or its commit failed (CommitFails).  A crash before the     *)
(* checkpoint is saved loses nothing, and no rotation or import does.      *)
Accounted == Ids(dirs) \cup Ids(Queued) \cup Ids(dropped)
CheckpointedMatchAccounted ==
  \A f \in Files : saved[f].gen = logs[f].gen =>
    \A m \in Completed(f, saved[f].offset) : m.id \in Accounted

(* A stored match of the log on disk is one that a reader of the whole log *)
(* delivers, with all its rounds, however often the worker and the         *)
(* application were restarted inside it; only an import of a log that      *)
(* ended inside a shuffle stores less.                                     *)
StoredWhole ==
  \A d \in dirs, f \in Files :
    d.id[1] = f /\ d.id[2] = logs[f].gen =>
      d \in Completed(f, Len(logs[f].lines)) \cup cutShort

(* A stored match stays, unchanged, and a match is announced as live at    *)
(* most once, by the step that stores it.                                  *)
StoredOnce ==
  [][/\ dirs \subseteq dirs'
     /\ announced' # announced =>
          \E i \in Ids(dirs') \ Ids(dirs) :
            announced' = Append(announced, i) /\ \A j \in DOMAIN announced : announced[j] # i]_vars

(* A file the worker has still to look at: it will scan, or the file is    *)
(* dirty, or on the agenda of the round in progress.                       *)
Pending(f) == wpc = "down" \/ f \in dirty \/ f \in agenda \ {reading.file}

(* While main runs, a match complete in a file the worker still has to     *)
(* look at ends up stored, unless its log is replaced first or it was      *)
(* dropped (a commit that failed, or a message that a dying worker took    *)
(* with it after its checkpoint was saved): any other crash of the worker  *)
(* or failed save is made good.  A directory that cannot be listed leaves  *)
(* the worker blind.                                                       *)
NoticedMatchStored ==
  \A f \in Files, g \in 1..MaxGen, n \in 1..MaxLines :
    (/\ mainUp /\ Pending(f)
     /\ <<f, g, n>> \in Ids(Completed(f, Len(logs[f].lines))))
    ~> (\/ <<f, g, n>> \in Ids(dirs) \cup Ids(dropped)
        \/ logs[f].gen # g
        \/ wpc = "blind"
        \/ ~mainUp)
=============================================================================
