----------------------------- MODULE WorkerHost -----------------------------
(***************************************************************************)
(* Supervision of the log worker (main/workerHost.ts, main/crashPolicy.ts, *)
(* startMonitoring in main/index.ts): a worker that dies is started again  *)
(* after a second; a log that kills it three times at the same spot is     *)
(* quarantined.                                                            *)
(*                                                                         *)
(* Of the worker, the model keeps what the host can see: rounds of flushes *)
(* in the order of the log's names, a status before each flush, a match    *)
(* when one was read that main does not have, and death in the flush that  *)
(* reads the fatal line of a bad log. A unit of position is more than      *)
(* OFFSET_TOLERANCE; messages arrive in order, the exit last.              *)
(***************************************************************************)
EXTENDS Naturals, Sequences

CONSTANTS Logs,        \* names of logs, 1..n in the order of the worker
          Bad,         \* the logs with a fatal line
          MaxSize,     \* units written to a log; the fatal one is the last
          MaxGood,     \* units written to a log without a fatal line
          MaxKills,    \* deaths of the worker that no log is to blame for
          MaxLost,     \* messages that a death destroys
          MaxSettings  \* configurations the user asks for

ASSUME WorkerHostAssumption ==
  /\ Logs \subseteq Nat \ {0} /\ Bad \subseteq Logs
  /\ MaxSize \in Nat \ {0} /\ MaxGood \in 0..MaxSize /\ MaxKills \in Nat /\ MaxLost \in Nat /\ MaxSettings \in Nat

VARIABLES size,        \* the logs
          saved, pos,  \* checkpoints on disk; positions in the worker
          stored,      \* logs whose match main has
          config,      \* host: the configuration (number, quarantined)
          crash,       \* host: the crash record
          lastCurrent, \* host: what the worker said it was reading
          stopping,    \* host
          timers,      \* host: pending respawns
          quarantined, \* main: the list that outlives configurations
          child,       \* the worker process
          inbox, outbox,
          blame,       \* history: deaths no log is to blame for, messages lost
          revived      \* history: workers started after stop()

hostVars == <<config, crash, lastCurrent, stopping, timers, quarantined>>
workerVars == <<saved, pos, child, inbox, outbox>>
vars == <<size, stored, hostVars, workerVars, blame, revived>>

NoSpot == [log |-> 0, at |-> 0]
Spot == [log : Logs, at : 0..MaxSize]
Limit == 3
NoCrash == [spot |-> NoSpot, count |-> 0]

Config == [version : Nat, quarantined : SUBSET Logs]
NoConfig == [version |-> 0, quarantined |-> {}]

(* The worker: its state, its configuration, the logs left in this round,  *)
(* whether it has a watcher, and the logs the watcher has marked.          *)
States == {"none", "forked", "watching", "scanning", "flushing", "dead"}
NoChild == [state |-> "none", config |-> NoConfig, todo |-> {},
            watch |-> FALSE, dirty |-> {}]

Msg == [type : {"status"}, current : Spot \cup {NoSpot}] \cup [type : {"match"}, log : Logs]

TypeOK ==
  /\ size \in [Logs -> 0..MaxSize] /\ saved \in [Logs -> 0..MaxSize]
  /\ pos \in [Logs -> 0..MaxSize]
  /\ stored \subseteq Logs /\ quarantined \subseteq Logs
  /\ config \in Config
  /\ crash \in [spot : Spot \cup {NoSpot}, count : Nat]
  /\ lastCurrent \in Spot \cup {NoSpot}
  /\ stopping \in BOOLEAN /\ timers \in Nat
  /\ child \in [state : States, config : Config, todo : SUBSET Logs,
               watch : BOOLEAN, dirty : SUBSET Logs]
  /\ inbox \in Seq(Config) /\ outbox \in Seq(Msg)
  /\ blame \in [kills : 0..MaxKills, lost : 0..MaxLost] /\ revived \in Nat

Alive == child.state \in {"forked", "watching", "scanning", "flushing"}

(* Mutant of SameSpot: any two deaths in a row count as one spot.          *)
AnySpot(prev, current) == prev.spot # NoSpot

(* nextCrashRecord *)
SameSpot(prev, current) == prev.spot # NoSpot /\ prev.spot = current
NextCrashRecord(prev, current) ==
  [spot |-> current,
   count |-> IF current # NoSpot /\ SameSpot(prev, current) THEN prev.count + 1 ELSE 1]

(* The log to quarantine, if any. *)
Guilty(record) == {f \in Logs : record.count >= Limit /\ record.spot.log = f}

(* Mutant of Progress: every message clears the crash record.              *)
AnyMessage(m) == TRUE

(* The messages that show progress and clear the crash record. *)
Progress(m) == m.type = "match"

(* workerConfig: with the list of quarantined logs as it is now. *)
WorkerConfig(version) == [version |-> version, quarantined |-> quarantined]

(* WorkerHost.spawn *)
Spawn == child' = [NoChild EXCEPT !.state = "forked"] /\ inbox' = <<>> /\ outbox' = <<>>

(* WorkerHost.send: a message to a dead worker is lost. *)
Send(c) == inbox' = IF Alive THEN Append(inbox, c) ELSE inbox

Init ==
  /\ size = [f \in Logs |-> 0] /\ saved = size /\ pos = size /\ stored = {}
  /\ config = NoConfig /\ crash = NoCrash /\ lastCurrent = NoSpot
  /\ stopping = FALSE /\ timers = 0 /\ quarantined = {}
  /\ child = NoChild /\ inbox = <<>> /\ outbox = <<>>
  /\ blame = [kills |-> 0, lost |-> 0] /\ revived = 0
-----------------------------------------------------------------------------
(* Mutant of StartMonitoring: a new configuration is sent and not kept.    *)
StartMonitoringSendsOnly ==
  /\ config.version < MaxSettings
  /\ LET c == WorkerConfig(config.version + 1) IN
     IF config = NoConfig
     THEN config' = c /\ Spawn
     ELSE Send(c) /\ UNCHANGED <<config, child, outbox>>
  /\ UNCHANGED <<size, stored, crash, lastCurrent, stopping, timers, quarantined,
                 saved, pos, blame, revived>>

(* startMonitoring: the first call creates the host, a later one           *)
(* reconfigures it.                                                        *)
StartMonitoring ==
  /\ config.version < MaxSettings
  /\ config' = WorkerConfig(config.version + 1)
  /\ IF config = NoConfig
     THEN Spawn
     ELSE Send(config') /\ UNCHANGED <<child, outbox>>
  /\ UNCHANGED <<size, stored, crash, lastCurrent, stopping, timers, quarantined,
                 saved, pos, blame, revived>>

(* WorkerHost.stop *)
Stop == /\ ~stopping /\ config # NoConfig
        /\ stopping' = TRUE
        /\ child' = IF Alive THEN [child EXCEPT !.state = "dead"] ELSE child
        /\ UNCHANGED <<size, stored, config, crash, lastCurrent, timers, quarantined,
                       saved, pos, inbox, outbox, blame, revived>>

(* Mutant of ChildSpawned: the worker is not configured.                   *)
ChildSpawnedSilent ==
  /\ child.state = "forked"
  /\ child' = [child EXCEPT !.state = "watching"]
  /\ UNCHANGED <<size, stored, hostVars, saved, pos, inbox, outbox, blame, revived>>

(* child.once("spawn") *)
ChildSpawned ==
  /\ child.state = "forked"
  /\ child' = [child EXCEPT !.state = "watching"]
  /\ Send(config)
  /\ UNCHANGED <<size, stored, hostVars, saved, pos, outbox, blame, revived>>

(* child.on("message"), with the store's answer to a match. *)
Receive ==
  /\ outbox # <<>>
  /\ outbox' = Tail(outbox)
  /\ LET m == Head(outbox) IN
     /\ crash' = IF Progress(m) THEN NoCrash ELSE crash
     /\ \/ m.type = "status" /\ lastCurrent' = m.current /\ UNCHANGED stored
        \/ m.type = "match" /\ stored' = stored \cup {m.log} /\ UNCHANGED lastCurrent
  /\ UNCHANGED <<size, config, stopping, timers, quarantined,
                 saved, pos, child, inbox, blame, revived>>

(* child.on("exit"): the death is attributed and a respawn scheduled, *)
Restart ==
  LET record == NextCrashRecord(crash, lastCurrent) IN
  /\ crash' = record /\ lastCurrent' = NoSpot
  /\ config' = [config EXCEPT !.quarantined = @ \cup Guilty(record)]
  /\ quarantined' = quarantined \cup (Guilty(record) \ config.quarantined)
  /\ timers' = timers + 1
  /\ UNCHANGED stopping

(* Mutant of Exit: also after stop().                                      *)
ExitRestarts ==
  /\ child.state = "dead" /\ outbox = <<>>
  /\ child' = NoChild /\ inbox' = <<>>
  /\ Restart
  /\ UNCHANGED <<size, stored, saved, pos, outbox, blame, revived>>

(* unless stop() was called. *)
Exit ==
  /\ child.state = "dead" /\ outbox = <<>>
  /\ child' = NoChild /\ inbox' = <<>>
  /\ IF stopping THEN UNCHANGED hostVars ELSE Restart
  /\ UNCHANGED <<size, stored, saved, pos, outbox, blame, revived>>

(* The timer of the exit handler; stop() does not clear it. *)
Respawn == /\ timers > 0
           /\ timers' = timers - 1
           /\ Spawn
           /\ revived' = revived + (IF stopping THEN 1 ELSE 0)
           /\ UNCHANGED <<size, stored, config, crash, lastCurrent, stopping, quarantined,
                          saved, pos, blame>>
-----------------------------------------------------------------------------
GameWrites(f) ==
  /\ size[f] < IF f \in Bad THEN MaxSize ELSE MaxGood
  /\ size' = [size EXCEPT ![f] = @ + 1]
  /\ child' = IF Alive /\ child.watch THEN [child EXCEPT !.dirty = @ \cup {f}] ELSE child
  /\ UNCHANGED <<stored, hostVars, saved, pos, inbox, outbox, blame, revived>>

(* runtime.configure: positions come from the checkpoints; all logs are    *)
(* scanned.                                                                *)
Configure ==
  /\ child.state = "watching" /\ inbox # <<>>
  /\ inbox' = Tail(inbox)
  /\ pos' = saved
  /\ child' = [state |-> "scanning", config |-> Head(inbox),
               todo |-> Logs \ Head(inbox).quarantined, watch |-> FALSE, dirty |-> {}]
  /\ UNCHANGED <<size, stored, hostVars, saved, outbox, blame, revived>>

(* The watcher hands over the logs it marked. *)
Drain ==
  /\ child.state = "watching" /\ child.dirty # {}
  /\ child' = [child EXCEPT !.state = "scanning", !.dirty = {},
                            !.todo = child.dirty \ child.config.quarantined]
  /\ UNCHANGED <<size, stored, hostVars, saved, pos, inbox, outbox, blame, revived>>

(* The logs of a round are taken in the order of their names. *)
IsNext(f) == f \in child.todo /\ \A g \in child.todo : f <= g

(* flushFile, first half: the status that is used for attribution. *)
StatusOf(f) == [type |-> "status", current |-> [log |-> f, at |-> pos[f]]]
FlushBegin ==
  /\ child.state = "scanning"
  /\ \E f \in Logs : IsNext(f) /\ outbox' = Append(outbox, StatusOf(f))
  /\ child' = [child EXCEPT !.state = "flushing"]
  /\ UNCHANGED <<size, stored, hostVars, saved, pos, inbox, blame, revived>>

(* Second half. The first unit of a log completes a match. A flush that    *)
(* meets the fatal line posts what came before it and ends the process.    *)
MatchesRead(f) ==
  IF pos[f] = 0 /\ size[f] > 0 /\ f \notin stored
  THEN <<[type |-> "match", log |-> f]>> ELSE <<>>
Fatal(f) == f \in Bad /\ size[f] = MaxSize /\ pos[f] < MaxSize
FlushEnd ==
  /\ child.state = "flushing"
  /\ \E f \in Logs :
     /\ IsNext(f)
     /\ outbox' = outbox \o MatchesRead(f)
     /\ IF Fatal(f)
        THEN child' = [child EXCEPT !.state = "dead"] /\ UNCHANGED pos
        ELSE /\ child' = [child EXCEPT !.state = "scanning", !.todo = @ \ {f}]
             /\ pos' = [pos EXCEPT ![f] = size[f]]
  /\ UNCHANGED <<size, stored, hostVars, saved, inbox, blame, revived>>

(* The end of a round: checkpoints (which stay behind a match that is      *)
(* open), a watcher, and a status that names no log.                       *)
RoundEnd ==
  /\ child.state = "scanning" /\ child.todo = {}
  /\ saved' \in {c \in [Logs -> 0..MaxSize] : \A f \in Logs : c[f] \in {saved[f], pos[f]}}
  /\ outbox' = Append(outbox, [type |-> "status", current |-> NoSpot])
  /\ child' = [child EXCEPT !.state = "watching", !.watch = TRUE]
  /\ UNCHANGED <<size, stored, hostVars, pos, inbox, blame, revived>>

(* The worker dies for a reason of its own. *)
Kill == /\ Alive /\ blame.kills < MaxKills
        /\ blame' = [blame EXCEPT !.kills = @ + 1]
        /\ child' = [child EXCEPT !.state = "dead"]
        /\ UNCHANGED <<size, stored, hostVars, saved, pos, inbox, outbox, revived>>

(* The last message of a dead worker is lost with it. *)
Lose == /\ child.state = "dead" /\ outbox # <<>> /\ blame.lost < MaxLost
        /\ blame' = [blame EXCEPT !.lost = @ + 1]
        /\ outbox' = SubSeq(outbox, 1, Len(outbox) - 1)
        /\ UNCHANGED <<size, stored, hostVars, saved, pos, child, inbox, revived>>

WorkerNext == Configure \/ Drain \/ FlushBegin \/ FlushEnd \/ RoundEnd
HostNext == ChildSpawned \/ Receive \/ Exit \/ Respawn
Next == WorkerNext \/ HostNext \/ StartMonitoring \/ Stop \/ Kill \/ Lose
        \/ \E f \in Logs : GameWrites(f)

Spec == Init /\ [][Next]_vars

(* The worker's loop, its events and the host's timer and handlers run as  *)
(* long as there is something to run; a configuration that was read is     *)
(* not overtaken for ever by drains.                                       *)
FairSpec == /\ Spec
            /\ WF_vars(WorkerNext) /\ WF_vars(Configure) /\ WF_vars(ChildSpawned)
            /\ WF_vars(Receive) /\ WF_vars(Exit) /\ WF_vars(Respawn)
-----------------------------------------------------------------------------
(* A log without a fatal line is quarantined only for deaths that it was   *)
(* not to blame for: with fewer than three such deaths and lost messages   *)
(* it never is, whatever the bad logs do (crashPolicy.ts: attribution by   *)
(* the last status).                                                       *)
HealthyNotQuarantined ==
  quarantined \ Bad # {} => blame.kills + blame.lost >= Limit

(* A worker that waits for work works with the host's configuration, also  *)
(* when it was changed while a worker was dying or starting.               *)
WorkerHasLatestConfig ==
  child.state = "watching" /\ child.watch /\ inbox = <<>> => child.config = config

(* After stop() at most the respawn that was pending starts a worker, and  *)
(* that one is not supervised any more.                                    *)
AtMostOneAfterStop == revived + (IF stopping THEN timers ELSE 0) <= 1

(* A log that kills the worker is put aside, whatever else happens: its    *)
(* matches, other bad logs, changes of settings.                           *)
BadIsQuarantined ==
  \A f \in Bad : (f \in child.todo /\ Fatal(f)) ~> (f \in quarantined \/ stopping)

(* A healthy log that is due is read, however many bad ones are before it. *)
HealthyIsRead ==
  \A f \in Logs \ Bad : \A n \in 1..MaxGood :
    (f \in child.todo /\ size[f] >= n) ~> (pos[f] >= n \/ stopping)
=============================================================================
