--------------------------- MODULE WorkerHostProofs ---------------------------
(***************************************************************************)
(* Proofs about the supervision of the log worker, for any number of logs,  *)
(* deaths, lost messages and changes of settings: what stop() leaves        *)
(* behind, whose configuration a worker works with, and that a log without  *)
(* a fatal line is put aside only for deaths it is not to blame for.        *)
(***************************************************************************)
EXTENDS WorkerHost, SequenceTheorems, TLAPS

\* One worker or one pending respawn, and after stop() no new one.
StopOK ==
    /\ config.version = 0 => config = NoConfig /\ child.state = "none" /\ timers = 0 /\ ~stopping
    /\ timers + revived <= 1
    /\ ~stopping => revived = 0
    /\ (~stopping /\ timers = 1) => child.state = "none"

\* The last configuration on its way to a worker is the host's.
ConfigOK ==
    child.state \in {"watching", "scanning", "flushing"} =>
        IF inbox = <<>> THEN child.config = config ELSE inbox[Len(inbox)] = config

\* f is the log the host will have been told of last once it has read the outbox.
Blames(f) ==
    \/ \E i \in 1..Len(outbox) :
          /\ outbox[i].type = "status" /\ outbox[i].current.log = f
          /\ \A j \in 1..Len(outbox) : j > i => outbox[j].type # "status"
    \/ /\ \A i \in 1..Len(outbox) : outbox[i].type # "status"
       /\ lastCurrent.log = f

Healthy == Logs \ Bad
Faults == blame.kills + blame.lost

\* The deaths held against a healthy log.
Held == IF crash.spot.log \in Healthy THEN crash.count ELSE 0

\* Each of those deaths has a fault of its own, and so has one that is about to
\* be held against a healthy log: a flush is announced before it begins, so a
\* fatal line is blamed on the log it is in unless the announcement was lost.
AttributionOK ==
    /\ Held <= Faults
    /\ child.state = "flushing" => \A f \in Logs : Blames(f) => IsNext(f)
    /\ (child.state = "dead" /\ ~stopping /\ \E f \in Healthy : Blames(f)) =>
          Held + 1 <= Faults
    /\ quarantined \cap Healthy # {} => Limit <= Faults

IInv == TypeOK /\ StopOK /\ ConfigOK /\ AttributionOK

-----------------------------------------------------------------------------
\* Updates of the worker's record.

Child == [state : States, config : Config, todo : SUBSET Logs,
          watch : BOOLEAN, dirty : SUBSET Logs]

LEMMA StateEffect ==
    ASSUME NEW c \in Child, NEW s \in States, NEW d, d = [c EXCEPT !.state = s]
    PROVE  /\ d \in Child /\ d.state = s /\ d.config = c.config /\ d.todo = c.todo
           /\ d.watch = c.watch /\ d.dirty = c.dirty
  BY DEF Child

LEMMA TodoEffect ==
    ASSUME NEW c \in Child, NEW t \in SUBSET Logs, NEW d, d = [c EXCEPT !.todo = t]
    PROVE  /\ d \in Child /\ d.state = c.state /\ d.config = c.config /\ d.todo = t
           /\ d.watch = c.watch /\ d.dirty = c.dirty
  BY DEF Child

LEMMA DirtyEffect ==
    ASSUME NEW c \in Child, NEW t \in SUBSET Logs, NEW d, d = [c EXCEPT !.dirty = t]
    PROVE  /\ d \in Child /\ d.state = c.state /\ d.config = c.config /\ d.todo = c.todo
           /\ d.watch = c.watch /\ d.dirty = t
  BY DEF Child

LEMMA WatchEffect ==
    ASSUME NEW c \in Child, NEW d, d = [c EXCEPT !.watch = TRUE]
    PROVE  /\ d \in Child /\ d.state = c.state /\ d.config = c.config /\ d.todo = c.todo
           /\ d.dirty = c.dirty
  BY DEF Child

LEMMA NoChildType == NoChild \in Child /\ NoChild.state = "none" /\ NoConfig \in Config
<1>1. NoConfig \in Config
  BY DEF NoConfig, Config
<1>2. NoChild \in Child
  BY <1>1 DEF NoChild, Child, States
<1> QED
  BY <1>1, <1>2 DEF NoChild

\* A worker that was started has read nothing and was told nothing.
LEMMA SpawnEffect ==
    ASSUME Spawn
    PROVE  child' \in Child /\ child'.state = "forked" /\ inbox' = <<>> /\ outbox' = <<>>
<1>1. child' = [NoChild EXCEPT !.state = "forked"] /\ inbox' = <<>> /\ outbox' = <<>>
  BY DEF Spawn
<1> QED
  BY <1>1, NoChildType, StateEffect DEF States

\* What the steps of the worker do to its record.
LEMMA ConfigureEffect ==
    ASSUME TypeOK, Configure
    PROVE  /\ child' \in Child /\ child'.state = "scanning" /\ child'.config = Head(inbox)
           /\ inbox # <<>> /\ inbox' = Tail(inbox) /\ inbox' \in Seq(Config)
<1>1. inbox \in Seq(Config) /\ inbox # <<>> /\ inbox' = Tail(inbox)
  BY DEF TypeOK, Configure
<1>2. Head(inbox) \in Config /\ Tail(inbox) \in Seq(Config)
  BY <1>1
<1>3. child' = [state |-> "scanning", config |-> Head(inbox),
                todo |-> Logs \ Head(inbox).quarantined, watch |-> FALSE, dirty |-> {}]
  BY DEF Configure
<1> QED
  BY <1>1, <1>2, <1>3 DEF Child, States

LEMMA DrainEffect ==
    ASSUME TypeOK, Drain
    PROVE  child' \in Child /\ child'.state = "scanning" /\ child'.config = child.config
<1> DEFINE c1 == [child EXCEPT !.state = "scanning"]
           c2 == [c1 EXCEPT !.dirty = {}]
           t == child.dirty \ child.config.quarantined
<1>1. child \in Child /\ t \in SUBSET Logs /\ child' = [c2 EXCEPT !.todo = t]
  BY DEF TypeOK, Child, Drain
<1>2. c1 \in Child /\ c1.state = "scanning" /\ c1.config = child.config
  BY <1>1, StateEffect DEF States
<1> HIDE DEF c1, t
<1>3. c2 \in Child /\ c2.state = c1.state /\ c2.config = c1.config
  BY <1>2, DirtyEffect
<1> HIDE DEF c2
<1> QED
  BY <1>1, <1>2, <1>3, TodoEffect

LEMMA FlushBeginEffect ==
    ASSUME TypeOK, FlushBegin
    PROVE  /\ child' \in Child /\ child'.state = "flushing" /\ child'.config = child.config
           /\ child'.todo = child.todo
  BY StateEffect DEF TypeOK, Child, FlushBegin, States

LEMMA FlushEndEffect ==
    ASSUME TypeOK, NEW f \in Logs,
           \/ child' = [child EXCEPT !.state = "dead"]
           \/ child' = [child EXCEPT !.state = "scanning", !.todo = @ \ {f}]
    PROVE  /\ child' \in Child /\ child'.config = child.config
           /\ child'.state \in {"dead", "scanning"}
<1>0. child \in Child
  BY DEF TypeOK, Child
<1>1. CASE child' = [child EXCEPT !.state = "dead"]
  BY <1>0, <1>1, StateEffect DEF States
<1>2. CASE child' = [child EXCEPT !.state = "scanning", !.todo = @ \ {f}]
  <2> DEFINE c1 == [child EXCEPT !.state = "scanning"]
             t == child.todo \ {f}
  <2>1. c1 \in Child /\ c1.state = "scanning" /\ c1.config = child.config
    BY <1>0, StateEffect DEF States
  <2>2. t \in SUBSET Logs /\ child' = [c1 EXCEPT !.todo = t]
    BY <1>0, <1>2 DEF Child
  <2> HIDE DEF c1, t
  <2> QED
    BY <2>1, <2>2, TodoEffect
<1> QED
  BY <1>1, <1>2

LEMMA RoundEndEffect ==
    ASSUME TypeOK, RoundEnd
    PROVE  child' \in Child /\ child'.state = "watching" /\ child'.config = child.config
<1> DEFINE c1 == [child EXCEPT !.state = "watching"]
<1>1. child \in Child /\ child' = [c1 EXCEPT !.watch = TRUE]
  BY DEF TypeOK, Child, RoundEnd
<1>2. c1 \in Child /\ c1.state = "watching" /\ c1.config = child.config
  BY <1>1, StateEffect DEF States
<1> HIDE DEF c1
<1> QED
  BY <1>1, <1>2, WatchEffect

\* The game's writes mark a log in a worker that watches.
LEMMA GameWritesEffect ==
    ASSUME TypeOK, NEW f \in Logs, GameWrites(f)
    PROVE  /\ child' \in Child /\ child'.state = child.state /\ child'.config = child.config
           /\ child'.todo = child.todo
<1>1. child \in Child
  BY DEF TypeOK, Child
<1>2. CASE child' = child
  BY <1>1, <1>2
<1>3. CASE child' = [child EXCEPT !.dirty = @ \cup {f}]
  <2> DEFINE t == child.dirty \cup {f}
  <2>1. t \in SUBSET Logs /\ child' = [child EXCEPT !.dirty = t]
    BY <1>1, <1>3 DEF Child
  <2> HIDE DEF t
  <2> QED
    BY <1>1, <2>1, DirtyEffect
<1> QED
  BY <1>2, <1>3 DEF GameWrites

\* The worker dies, by a step other than a flush.
LEMMA DeathEffect ==
    ASSUME TypeOK, child' = [child EXCEPT !.state = "dead"]
    PROVE  child' \in Child /\ child'.state = "dead" /\ child'.config = child.config
  BY StateEffect DEF TypeOK, Child, States

\* An exit that is attributed.
LEMMA RestartEffect ==
    ASSUME TypeOK, Restart
    PROVE  /\ config' \in Config /\ config'.version = config.version
           /\ crash' \in [spot : Spot \cup {NoSpot}, count : Nat]
           /\ crash'.spot = lastCurrent
           /\ crash'.count = IF lastCurrent # NoSpot /\ SameSpot(crash, lastCurrent)
                             THEN crash.count + 1 ELSE 1
           /\ quarantined' \subseteq Logs
           /\ \A f \in quarantined' \ quarantined : f = lastCurrent.log /\ crash'.count >= Limit
           /\ lastCurrent' = NoSpot /\ timers' = timers + 1 /\ stopping' = stopping
<1> DEFINE record == NextCrashRecord(crash, lastCurrent)
<1>1. /\ record \in [spot : Spot \cup {NoSpot}, count : Nat]
      /\ record.spot = lastCurrent
      /\ record.count = IF lastCurrent # NoSpot /\ SameSpot(crash, lastCurrent)
                        THEN crash.count + 1 ELSE 1
  BY DEF NextCrashRecord, TypeOK
<1>2. /\ crash' = record /\ lastCurrent' = NoSpot /\ timers' = timers + 1 /\ stopping' = stopping
      /\ config' = [config EXCEPT !.quarantined = @ \cup Guilty(record)]
      /\ quarantined' = quarantined \cup (Guilty(record) \ config.quarantined)
  BY DEF Restart
<1>3. /\ Guilty(record) \subseteq Logs
      /\ \A f \in Guilty(record) : f = record.spot.log /\ record.count >= Limit
  BY DEF Guilty
<1> HIDE DEF record
<1>4. config' \in Config /\ config'.version = config.version
  BY <1>2, <1>3 DEF TypeOK, Config
<1> QED
  BY <1>1, <1>2, <1>3, <1>4 DEF TypeOK

-----------------------------------------------------------------------------
\* Types.

LEMMA TypeStep ==
    ASSUME TypeOK, Next PROVE TypeOK'
<1> USE WorkerHostAssumption
<1>1. /\ child \in Child /\ inbox \in Seq(Config) /\ outbox \in Seq(Msg) /\ config \in Config
      /\ timers \in Nat /\ revived \in Nat /\ quarantined \subseteq Logs /\ stored \subseteq Logs
  BY DEF TypeOK, Child
<1>2. \A c \in Config : Append(inbox, c) \in Seq(Config)
  BY <1>1
<1>3. \A m \in Msg : /\ Append(outbox, m) \in Seq(Msg)
                     /\ m.type = "match" => m.log \in Logs
                     /\ m.type = "status" => m.current \in Spot \cup {NoSpot}
  BY <1>1 DEF Msg
<1>4. CASE StartMonitoring
  <2>1. config' \in Config
    BY <1>1, <1>4 DEF StartMonitoring, WorkerConfig, Config
  <2>2. child' \in Child /\ inbox' \in Seq(Config) /\ outbox' \in Seq(Msg)
    <3>1. CASE Spawn
      BY <3>1, SpawnEffect
    <3>2. CASE Send(config') /\ UNCHANGED <<child, outbox>>
      BY <1>1, <1>2, <2>1, <3>2 DEF Send
    <3> QED
      BY <1>4, <3>1, <3>2 DEF StartMonitoring
  <2> QED
    BY <1>4, <2>1, <2>2 DEF TypeOK, Child, StartMonitoring
<1>5. CASE Stop
  <2>1. child' \in Child
    BY <1>1, <1>5, DeathEffect DEF Stop
  <2> QED
    BY <1>5, <2>1 DEF TypeOK, Child, Stop
<1>6. CASE Kill
  <2>1. child' \in Child
    BY <1>6, DeathEffect DEF Kill
  <2>2. blame' \in [kills : 0..MaxKills, lost : 0..MaxLost]
    <3> DEFINE k == blame.kills + 1
    <3>1. k \in 0..MaxKills /\ blame' = [blame EXCEPT !.kills = k]
      BY <1>6 DEF TypeOK, Kill
    <3> HIDE DEF k
    <3> QED
      BY <3>1 DEF TypeOK
  <2> QED
    BY <1>6, <2>1, <2>2 DEF TypeOK, Child, Kill, hostVars
<1>7. CASE Lose
  <2>1. blame' \in [kills : 0..MaxKills, lost : 0..MaxLost]
    <3> DEFINE k == blame.lost + 1
    <3>1. k \in 0..MaxLost /\ blame' = [blame EXCEPT !.lost = k]
      BY <1>7 DEF TypeOK, Lose
    <3> HIDE DEF k
    <3> QED
      BY <3>1 DEF TypeOK
  <2>2. outbox' \in Seq(Msg)
    BY <1>1, <1>7 DEF Lose
  <2> QED
    BY <1>7, <2>1, <2>2 DEF TypeOK, Lose, hostVars
<1>8. ASSUME NEW f \in Logs, GameWrites(f) PROVE TypeOK'
  <2>1. child' \in Child
    BY <1>8, GameWritesEffect
  <2>2. size' \in [Logs -> 0..MaxSize]
    <3> DEFINE k == size[f] + 1
    <3>1. k \in 0..MaxSize /\ size' = [size EXCEPT ![f] = k]
      BY <1>8 DEF TypeOK, GameWrites
    <3> HIDE DEF k
    <3> QED
      BY <3>1 DEF TypeOK
  <2> QED
    BY <1>8, <2>1, <2>2 DEF TypeOK, Child, GameWrites, hostVars
<1>9. CASE ChildSpawned
  <2>1. child' \in Child
    BY <1>1, <1>9, StateEffect DEF ChildSpawned, States
  <2>2. inbox' \in Seq(Config)
    BY <1>1, <1>2, <1>9 DEF ChildSpawned, Send
  <2> QED
    BY <1>9, <2>1, <2>2 DEF TypeOK, Child, ChildSpawned, hostVars
<1>10. CASE Receive
  <2>1. Head(outbox) \in Msg /\ Tail(outbox) \in Seq(Msg)
    BY <1>1, <1>10 DEF Receive
  <2>2. crash' \in [spot : Spot \cup {NoSpot}, count : Nat]
    BY <1>10 DEF Receive, TypeOK, NoCrash
  <2>3. lastCurrent' \in Spot \cup {NoSpot} /\ stored' \subseteq Logs
    BY <1>1, <1>3, <1>10, <2>1 DEF Receive, TypeOK
  <2> QED
    BY <1>10, <2>1, <2>2, <2>3 DEF TypeOK, Receive
<1>11. CASE Exit
  <2>1. child' \in Child /\ inbox' \in Seq(Config)
    BY <1>11, NoChildType DEF Exit
  <2>2. CASE stopping
    BY <1>11, <2>1, <2>2 DEF TypeOK, Child, Exit, hostVars
  <2>3. CASE ~stopping
    <3>1. Restart
      BY <1>11, <2>3 DEF Exit
    <3>2. /\ config' \in Config /\ crash' \in [spot : Spot \cup {NoSpot}, count : Nat]
          /\ quarantined' \subseteq Logs
          /\ lastCurrent' = NoSpot /\ timers' = timers + 1 /\ stopping' = stopping
      BY <3>1, RestartEffect
    <3> QED
      BY <1>11, <2>1, <3>2 DEF TypeOK, Child, Exit
  <2> QED
    BY <2>2, <2>3
<1>12. CASE Respawn
  <2>1. child' \in Child /\ inbox' \in Seq(Config) /\ outbox' \in Seq(Msg)
    BY <1>12, SpawnEffect DEF Respawn
  <2>2. timers' \in Nat /\ revived' \in Nat
    BY <1>1, <1>12 DEF Respawn
  <2> QED
    BY <1>12, <2>1, <2>2 DEF TypeOK, Child, Respawn
<1>13. CASE Configure
  <2>1. child' \in Child /\ inbox' \in Seq(Config)
    BY <1>13, ConfigureEffect
  <2> QED
    BY <1>13, <2>1 DEF TypeOK, Child, Configure, hostVars
<1>14. CASE Drain
  <2>1. child' \in Child
    BY <1>14, DrainEffect
  <2> QED
    BY <1>14, <2>1 DEF TypeOK, Child, Drain, hostVars
<1>15. CASE FlushBegin
  <2>1. child' \in Child
    BY <1>15, FlushBeginEffect
  <2>2. PICK f \in Logs : outbox' = Append(outbox, StatusOf(f))
    BY <1>15 DEF FlushBegin
  <2>3. StatusOf(f) \in Msg
    BY DEF StatusOf, Msg, Spot, TypeOK
  <2>4. outbox' \in Seq(Msg)
    BY <1>3, <2>2, <2>3
  <2> QED
    BY <1>15, <2>1, <2>4 DEF TypeOK, Child, FlushBegin, hostVars
<1>16. CASE FlushEnd
  <2>1. PICK f \in Logs :
           /\ outbox' = outbox \o MatchesRead(f)
           /\ \/ child' = [child EXCEPT !.state = "dead"] /\ UNCHANGED pos
              \/ /\ child' = [child EXCEPT !.state = "scanning", !.todo = @ \ {f}]
                 /\ pos' = [pos EXCEPT ![f] = size[f]]
    BY <1>16 DEF FlushEnd
  <2>2. child' \in Child
    BY <2>1, FlushEndEffect
  <2>3. MatchesRead(f) \in Seq(Msg)
    <3>1. [type |-> "match", log |-> f] \in Msg
      BY DEF Msg
    <3> QED
      BY <3>1 DEF MatchesRead
  <2>4. outbox' \in Seq(Msg)
    BY <1>1, <2>1, <2>3
  <2>5. pos' \in [Logs -> 0..MaxSize]
    BY <2>1 DEF TypeOK
  <2> QED
    BY <1>16, <2>2, <2>4, <2>5 DEF TypeOK, Child, FlushEnd, hostVars
<1>17. CASE RoundEnd
  <2>1. child' \in Child
    BY <1>17, RoundEndEffect
  <2>2. [type |-> "status", current |-> NoSpot] \in Msg
    BY DEF Msg
  <2>3. outbox' \in Seq(Msg)
    BY <1>3, <1>17, <2>2 DEF RoundEnd
  <2>4. saved' \in [Logs -> 0..MaxSize]
    BY <1>17 DEF RoundEnd
  <2> QED
    BY <1>17, <2>1, <2>3, <2>4 DEF TypeOK, Child, RoundEnd, hostVars
<1> QED
  BY <1>4, <1>5, <1>6, <1>7, <1>8, <1>9, <1>10, <1>11, <1>12, <1>13, <1>14, <1>15, <1>16,
     <1>17 DEF Next, WorkerNext, HostNext

-----------------------------------------------------------------------------
\* Workers and pending respawns.

LEMMA StopStep ==
    ASSUME TypeOK, StopOK, Next PROVE StopOK'
<1>1. timers \in Nat /\ revived \in Nat /\ stopping \in BOOLEAN /\ config \in Config
      /\ config.version \in Nat
  BY DEF TypeOK, Config
<1>2. CASE StartMonitoring
  <2>1. config'.version = config.version + 1
    BY <1>2 DEF StartMonitoring, WorkerConfig
  <2>2. CASE config = NoConfig
    <3>1. timers = 0 /\ ~stopping
      BY <2>2 DEF StopOK, NoConfig
    <3> QED
      BY <1>1, <1>2, <2>1, <2>2, <3>1 DEF StopOK, StartMonitoring
  <2>3. CASE config # NoConfig
    BY <1>1, <1>2, <2>1, <2>3 DEF StopOK, StartMonitoring
  <2> QED
    BY <2>2, <2>3
<1>3. CASE Stop
  <2>1. config.version # 0
    BY <1>3 DEF Stop, StopOK
  <2> QED
    BY <1>1, <1>3, <2>1 DEF StopOK, Stop
<1>4. CASE Kill
  <2>1. child.state # "none" /\ child'.state = "dead"
    BY <1>4, DeathEffect DEF Kill, Alive
  <2> QED
    BY <1>1, <1>4, <2>1 DEF StopOK, Kill, hostVars
<1>5. CASE Lose
  BY <1>5 DEF StopOK, Lose, hostVars
<1>6. ASSUME NEW f \in Logs, GameWrites(f) PROVE StopOK'
  <2>1. child'.state = child.state
    BY <1>6, GameWritesEffect
  <2> QED
    BY <1>6, <2>1 DEF StopOK, GameWrites, hostVars
<1>7. CASE ChildSpawned
  <2>1. child.state # "none"
    BY <1>7 DEF ChildSpawned
  <2> QED
    BY <1>1, <1>7, <2>1 DEF StopOK, ChildSpawned, hostVars
<1>8. CASE Receive
  BY <1>8 DEF StopOK, Receive
<1>9. CASE Exit
  <2>1. child.state # "none" /\ child'.state = "none" /\ revived' = revived
    BY <1>9, NoChildType DEF Exit
  <2>2. CASE stopping
    BY <1>1, <1>9, <2>1, <2>2 DEF StopOK, Exit, hostVars
  <2>3. CASE ~stopping
    <3>1. config'.version = config.version /\ timers' = timers + 1 /\ stopping' = stopping
      BY <1>9, <2>3, RestartEffect DEF Exit
    <3> QED
      BY <1>1, <2>1, <2>3, <3>1 DEF StopOK
  <2> QED
    BY <2>2, <2>3
<1>10. CASE Respawn
  BY <1>1, <1>10 DEF StopOK, Respawn
<1>11. CASE WorkerNext
  <2>1. child.state # "none"
    BY <1>11 DEF WorkerNext, Configure, Drain, FlushBegin, FlushEnd, RoundEnd
  <2>2. UNCHANGED hostVars /\ revived' = revived
    BY <1>11 DEF WorkerNext, Configure, Drain, FlushBegin, FlushEnd, RoundEnd
  <2> QED
    BY <1>1, <2>1, <2>2 DEF StopOK, hostVars
<1> QED
  BY <1>2, <1>3, <1>4, <1>5, <1>6, <1>7, <1>8, <1>9, <1>10, <1>11 DEF Next, HostNext

-----------------------------------------------------------------------------
\* Configurations.

LEMMA LastOfTail ==
    ASSUME NEW S, NEW s \in Seq(S), s # <<>>, Len(s) # 1
    PROVE  Tail(s) # <<>> /\ Tail(s)[Len(Tail(s))] = s[Len(s)]
<1>1. Len(s) \in Nat /\ Len(s) # 0
  BY EmptySeq
<1>2. /\ Tail(s) \in Seq(S) /\ Len(Tail(s)) = Len(s) - 1
      /\ \A i \in 1..Len(Tail(s)) : Tail(s)[i] = s[i + 1]
  BY HeadTailProperties
<1> DEFINE n == Len(s)
           t == Tail(s)
           k == Len(t)
<1>3. n \in Nat /\ n # 0 /\ n # 1 /\ k = n - 1
  BY <1>1, <1>2
<1>4. \A i \in 1..k : t[i] = s[i + 1]
  BY <1>2
<1>5. k # 0 => t # <<>>
  <2>1. Len(<<>>) = 0
    BY EmptySeq
  <2> QED
    BY <2>1
<1> HIDE DEF n, t, k
<1>6. k \in 1..k /\ k + 1 = n /\ k # 0
  BY <1>3
<1>7. t[k] = s[n] /\ t # <<>>
  BY <1>4, <1>5, <1>6
<1> QED
  BY <1>7 DEF n, t, k

LEMMA ConfigStep ==
    ASSUME TypeOK, StopOK, ConfigOK, Next PROVE ConfigOK'
<1> DEFINE Working == {"watching", "scanning", "flushing"}
<1>1. inbox \in Seq(Config) /\ config \in Config
  BY DEF TypeOK
<1>2. \A c \in Config : /\ Append(inbox, c) # <<>>
                        /\ Append(inbox, c)[Len(Append(inbox, c))] = c
  BY <1>1
<1>3. CASE StartMonitoring
  <2>1. config' \in Config
    BY <1>3, TypeStep DEF TypeOK, Next
  <2>2. CASE config = NoConfig
    <3>1. child'.state = "forked"
      BY <1>3, <2>2, SpawnEffect DEF StartMonitoring
    <3> QED
      BY <3>1 DEF ConfigOK
  <2>3. CASE config # NoConfig
    BY <1>2, <1>3, <2>1, <2>3 DEF ConfigOK, StartMonitoring, Send, Alive
  <2> QED
    BY <2>2, <2>3
<1>4. CASE Stop
  <2>1. child'.state \notin Working \/ child' = child
    BY <1>4, DeathEffect DEF Stop
  <2> QED
    BY <1>4, <2>1 DEF ConfigOK, Stop
<1>5. CASE Kill
  <2>1. child'.state = "dead"
    BY <1>5, DeathEffect DEF Kill
  <2> QED
    BY <2>1 DEF ConfigOK
<1>6. CASE Lose
  BY <1>6 DEF ConfigOK, Lose, hostVars
<1>7. ASSUME NEW f \in Logs, GameWrites(f) PROVE ConfigOK'
  <2>1. child'.state = child.state /\ child'.config = child.config
    BY <1>7, GameWritesEffect
  <2> QED
    BY <1>7, <2>1 DEF ConfigOK, GameWrites, hostVars
<1>8. CASE ChildSpawned
  <2>1. inbox' = Append(inbox, config) /\ config' = config
    BY <1>8 DEF ChildSpawned, Send, Alive, hostVars
  <2> QED
    BY <1>1, <1>2, <2>1 DEF ConfigOK
<1>9. CASE Receive
  BY <1>9 DEF ConfigOK, Receive
<1>10. CASE Exit
  <2>1. child'.state = "none"
    BY <1>10, NoChildType DEF Exit
  <2> QED
    BY <2>1 DEF ConfigOK
<1>11. CASE Respawn
  <2>1. child'.state = "forked"
    BY <1>11, SpawnEffect DEF Respawn
  <2> QED
    BY <2>1 DEF ConfigOK
<1>12. CASE Configure
  <2>1. child'.config = Head(inbox) /\ inbox # <<>> /\ inbox' = Tail(inbox) /\ config' = config
    BY <1>12, ConfigureEffect DEF Configure, hostVars
  <2>2. inbox[Len(inbox)] = config
    BY <1>12, <2>1 DEF ConfigOK, Configure
  <2>3. CASE Len(inbox) = 1
    BY <1>1, <2>1, <2>2, <2>3 DEF ConfigOK
  <2>4. CASE Len(inbox) # 1
    <3>1. Tail(inbox) # <<>> /\ Tail(inbox)[Len(Tail(inbox))] = inbox[Len(inbox)]
      BY <1>1, <2>1, <2>4, LastOfTail
    <3> QED
      BY <2>1, <2>2, <3>1 DEF ConfigOK
  <2> QED
    BY <2>3, <2>4
<1>13. CASE Drain \/ FlushBegin \/ FlushEnd \/ RoundEnd
  <2>1. child'.config = child.config
    BY <1>13, DrainEffect, FlushBeginEffect, RoundEndEffect, FlushEndEffect DEF FlushEnd
  <2>2. child.state \in Working /\ inbox' = inbox /\ config' = config
    BY <1>13 DEF Drain, FlushBegin, FlushEnd, RoundEnd, hostVars
  <2> QED
    BY <2>1, <2>2 DEF ConfigOK
<1> QED
  BY <1>3, <1>4, <1>5, <1>6, <1>7, <1>8, <1>9, <1>10, <1>11, <1>12, <1>13
     DEF Next, HostNext, WorkerNext

-----------------------------------------------------------------------------
\* Attribution: what the outbox holds against a log.

\* The host reads a message.
LEMMA BlamesReceive ==
    ASSUME TypeOK, outbox # <<>>, outbox' = Tail(outbox),
           lastCurrent' = IF Head(outbox).type = "status" THEN Head(outbox).current
                          ELSE lastCurrent,
           NEW f, Blames(f)'
    PROVE  Blames(f)
<1>1. outbox \in Seq(Msg)
  BY DEF TypeOK
<1>2. /\ Len(outbox) \in Nat \ {0} /\ Len(outbox') = Len(outbox) - 1
      /\ \A i \in 1..Len(outbox') : outbox'[i] = outbox[i + 1]
      /\ Head(outbox) = outbox[1]
  BY <1>1, EmptySeq, HeadTailProperties
<1>3. \A j \in 1..Len(outbox) : j > 1 => j - 1 \in 1..Len(outbox') /\ outbox[j] = outbox'[j - 1]
  BY <1>2
<1>4. CASE \E i \in 1..Len(outbox') :
              /\ outbox'[i].type = "status" /\ outbox'[i].current.log = f
              /\ \A j \in 1..Len(outbox') : j > i => outbox'[j].type # "status"
  <2>1. PICK i \in 1..Len(outbox') :
              /\ outbox'[i].type = "status" /\ outbox'[i].current.log = f
              /\ \A j \in 1..Len(outbox') : j > i => outbox'[j].type # "status"
    BY <1>4
  <2>2. i + 1 \in 1..Len(outbox) /\ outbox[i + 1] = outbox'[i]
    BY <1>2
  <2>3. \A j \in 1..Len(outbox) : j > i + 1 => outbox[j].type # "status"
    BY <2>1, <1>2, <1>3
  <2> QED
    BY <2>1, <2>2, <2>3 DEF Blames
<1>5. CASE (\A i \in 1..Len(outbox') : outbox'[i].type # "status") /\ lastCurrent'.log = f
  <2>1. \A j \in 1..Len(outbox) : j > 1 => outbox[j].type # "status"
    BY <1>3, <1>5
  <2>2. CASE Head(outbox).type = "status"
    BY <2>1, <2>2, <1>2, <1>5 DEF Blames
  <2>3. CASE Head(outbox).type # "status"
    <3>1. \A j \in 1..Len(outbox) : outbox[j].type # "status"
      BY <2>1, <2>3, <1>2
    <3> QED
      BY <2>3, <3>1, <1>5 DEF Blames
  <2> QED
    BY <2>2, <2>3
<1> QED
  BY <1>4, <1>5 DEF Blames

\* The worker announces a flush, or the end of a round.
LEMMA BlamesStatus ==
    ASSUME TypeOK, NEW m \in Msg, m.type = "status", outbox' = Append(outbox, m),
           NEW f, Blames(f)'
    PROVE  m.current.log = f
<1> DEFINE n == Len(outbox) + 1
<1>1. outbox \in Seq(Msg)
  BY DEF TypeOK
<1>2. Len(outbox') = n /\ n \in 1..n /\ outbox'[n] = m /\ n \in Nat
  BY <1>1, AppendProperties
<1> HIDE DEF n
<1>3. ~ \A i \in 1..Len(outbox') : outbox'[i].type # "status"
  BY <1>2
<1>4. PICK i \in 1..Len(outbox') :
              /\ outbox'[i].type = "status" /\ outbox'[i].current.log = f
              /\ \A j \in 1..Len(outbox') : j > i => outbox'[j].type # "status"
  BY <1>3 DEF Blames
<1>5. i = n
  BY <1>2, <1>4
<1> QED
  BY <1>2, <1>4, <1>5

\* The worker posts what it read.
LEMMA BlamesMatch ==
    ASSUME TypeOK, NEW g \in Logs, outbox' = outbox \o MatchesRead(g),
           lastCurrent' = lastCurrent, NEW f, Blames(f)'
    PROVE  Blames(f)
<1>1. outbox \in Seq(Msg)
  BY DEF TypeOK
<1>2. CASE MatchesRead(g) = <<>>
  <2>1. outbox' = outbox
    BY <1>1, <1>2
  <2> QED
    BY <2>1 DEF Blames
<1>3. CASE MatchesRead(g) = <<[type |-> "match", log |-> g]>>
  <2> DEFINE m == [type |-> "match", log |-> g]
  <2>1. m \in Msg /\ m.type # "status"
    BY DEF Msg
  <2>2. outbox' = Append(outbox, m)
    BY <1>1, <1>3, <2>1, AppendIsConcat
  <2> HIDE DEF m
  <2>3. /\ Len(outbox') = Len(outbox) + 1 /\ outbox'[Len(outbox) + 1] = m
        /\ \A i \in 1..Len(outbox) : outbox'[i] = outbox[i]
        /\ Len(outbox) \in Nat
    BY <1>1, <2>1, <2>2, AppendProperties
  <2>4. \A i \in 1..Len(outbox') :
           outbox'[i].type = "status" => i \in 1..Len(outbox) /\ outbox'[i] = outbox[i]
    BY <2>1, <2>3
  <2>5. \A i \in 1..Len(outbox) : i \in 1..Len(outbox') /\ outbox'[i] = outbox[i]
    BY <2>3
  <2>6. CASE \E i \in 1..Len(outbox') :
              /\ outbox'[i].type = "status" /\ outbox'[i].current.log = f
              /\ \A j \in 1..Len(outbox') : j > i => outbox'[j].type # "status"
    BY <2>4, <2>5, <2>6 DEF Blames
  <2>7. CASE (\A i \in 1..Len(outbox') : outbox'[i].type # "status") /\ lastCurrent'.log = f
    BY <2>5, <2>7 DEF Blames
  <2> QED
    BY <2>6, <2>7 DEF Blames
<1> QED
  BY <1>2, <1>3 DEF MatchesRead

LEMMA FaultsType == TypeOK => Faults \in Nat /\ Held \in Nat /\ Bad \subseteq Logs /\ 0 \notin Logs
  BY WorkerHostAssumption DEF TypeOK, Faults, Held

LEMMA AttributionStep ==
    ASSUME TypeOK, AttributionOK, Next PROVE AttributionOK'
<1>1. Faults \in Nat /\ Held \in Nat /\ Bad \subseteq Logs /\ 0 \notin Logs
  BY FaultsType
<1>14. Held' \in Nat
  <2>1. TypeOK'
    BY TypeStep
  <2> QED
    BY <2>1 DEF Held, TypeOK
<1>2. CASE StartMonitoring
  <2>1. UNCHANGED <<crash, lastCurrent, stopping, quarantined, blame>>
    BY <1>2 DEF StartMonitoring
  <2>2. CASE Spawn
    <3>1. child'.state = "forked"
      BY <2>2, SpawnEffect
    <3> QED
      BY <2>1, <3>1 DEF AttributionOK, Held, Faults
  <2>3. CASE UNCHANGED <<child, outbox>>
    BY <2>1, <2>3 DEF AttributionOK, Held, Faults, Blames, IsNext
  <2> QED
    BY <1>2, <2>2, <2>3 DEF StartMonitoring
<1>3. CASE Stop
  <2>1. UNCHANGED <<crash, lastCurrent, quarantined, blame, outbox>> /\ stopping'
    BY <1>3 DEF Stop
  <2>2. child'.state = "dead" \/ child' = child
    BY <1>3, DeathEffect DEF Stop
  <2> QED
    BY <2>1, <2>2 DEF AttributionOK, Held, Faults, Blames, IsNext
<1>4. CASE Kill
  <2>1. /\ UNCHANGED <<crash, lastCurrent, stopping, quarantined, outbox>>
        /\ child'.state = "dead"
    BY <1>4, DeathEffect DEF Kill, hostVars
  <2>2. Faults' = Faults + 1
    BY <1>4 DEF Kill, Faults, TypeOK
  <2> QED
    BY <1>1, <2>1, <2>2 DEF AttributionOK, Held, Limit
<1>5. CASE Lose
  <2>1. UNCHANGED <<crash, lastCurrent, stopping, quarantined, child>> /\ child.state = "dead"
    BY <1>5 DEF Lose, hostVars
  <2>2. Faults' = Faults + 1
    BY <1>5 DEF Lose, Faults, TypeOK
  <2> QED
    BY <1>1, <2>1, <2>2 DEF AttributionOK, Held, Limit
<1>6. ASSUME NEW f \in Logs, GameWrites(f) PROVE AttributionOK'
  <2>1. child'.state = child.state /\ child'.todo = child.todo
    BY <1>6, GameWritesEffect
  <2>2. UNCHANGED <<crash, lastCurrent, stopping, quarantined, outbox, blame>>
    BY <1>6 DEF GameWrites, hostVars
  <2> QED
    BY <2>1, <2>2 DEF AttributionOK, Held, Faults, Blames, IsNext
<1>7. CASE ChildSpawned \/ Configure \/ Drain
  <2>1. child'.state \in {"watching", "scanning"}
    BY <1>7, ConfigureEffect, DrainEffect, StateEffect
       DEF ChildSpawned, States, TypeOK, Child
  <2>2. UNCHANGED <<crash, quarantined, blame>>
    BY <1>7 DEF ChildSpawned, Configure, Drain, hostVars
  <2> QED
    BY <2>1, <2>2 DEF AttributionOK, Held, Faults
<1>8. CASE RoundEnd
  <2>1. child'.state = "watching" /\ UNCHANGED <<crash, quarantined, blame>>
    BY <1>8, RoundEndEffect DEF RoundEnd, hostVars
  <2> QED
    BY <2>1 DEF AttributionOK, Held, Faults
<1>9. CASE Receive
  <2>1. UNCHANGED <<stopping, quarantined, blame, child>>
    BY <1>9 DEF Receive
  <2>2. Held' <= Held
    BY <1>1, <1>9 DEF Receive, Held, NoCrash, NoSpot, Healthy
  <2>3. \A f \in Logs : Blames(f)' => Blames(f)
    <3>1. Head(outbox).type = "status" => lastCurrent' = Head(outbox).current
      BY <1>9 DEF Receive
    <3>2. Head(outbox).type # "status" => lastCurrent' = lastCurrent
      BY <1>9 DEF Receive
    <3>3. outbox # <<>> /\ outbox' = Tail(outbox)
      BY <1>9 DEF Receive
    <3> QED
      BY <3>1, <3>2, <3>3, BlamesReceive
  <2>4. Held' \in Nat
    BY <1>14
  <2> QED
    BY <1>1, <2>1, <2>2, <2>3, <2>4 DEF AttributionOK, Faults, IsNext, Healthy
<1>10. CASE Exit
  <2>1. child'.state = "none" /\ blame' = blame /\ outbox = <<>> /\ child.state = "dead"
    BY <1>10, NoChildType DEF Exit
  <2>2. CASE stopping
    BY <1>10, <2>1, <2>2 DEF AttributionOK, Held, Faults, Exit, hostVars
  <2>3. CASE ~stopping
    <3>1. /\ crash'.spot = lastCurrent
          /\ crash'.count = IF lastCurrent # NoSpot /\ SameSpot(crash, lastCurrent)
                            THEN crash.count + 1 ELSE 1
          /\ \A f \in quarantined' \ quarantined : f = lastCurrent.log /\ crash'.count >= Limit
      BY <1>10, <2>3, RestartEffect DEF Exit
    <3>2. Len(outbox) = 0
      BY <2>1
    <3>3. \A f : lastCurrent.log = f => Blames(f)
      BY <3>2 DEF Blames
    <3>4. lastCurrent.log \in Healthy => Held + 1 <= Faults
      BY <2>1, <2>3, <3>3 DEF AttributionOK
    <3>5. Held' <= Faults
      <4>1. CASE lastCurrent.log \in Healthy
        <5>1. Held' = crash'.count
          BY <3>1, <4>1 DEF Held
        <5>2. crash'.count <= Held + 1
          BY <3>1, <4>1, <1>1 DEF SameSpot, Held
        <5> QED
          BY <5>1, <5>2, <4>1, <3>4, <1>1, <1>14
      <4>2. CASE lastCurrent.log \notin Healthy
        <5>1. Held' = 0
          BY <3>1, <4>2 DEF Held
        <5> QED
          BY <5>1, <1>1
      <4> QED
        BY <4>1, <4>2
    <3>6. quarantined' \cap Healthy # {} => Limit <= Faults
      <4>1. CASE quarantined \cap Healthy # {}
        BY <4>1 DEF AttributionOK
      <4>2. ASSUME NEW f \in quarantined' \ quarantined, f \in Healthy PROVE Limit <= Faults
        <5>1. Held' = crash'.count /\ crash'.count >= Limit
          BY <4>2, <3>1 DEF Held
        <5>2. Held' \in Nat
          BY <1>14
        <5> QED
          BY <5>1, <5>2, <3>5, <1>1 DEF Limit
      <4> QED
        BY <4>1, <4>2
    <3>7. Faults' = Faults
      BY <2>1 DEF Faults
    <3> QED
      BY <2>1, <3>5, <3>6, <3>7 DEF AttributionOK, Healthy
  <2> QED
    BY <2>2, <2>3
<1>11. CASE Respawn
  <2>1. child'.state = "forked" /\ UNCHANGED <<crash, quarantined, blame>>
    BY <1>11, SpawnEffect DEF Respawn
  <2> QED
    BY <2>1 DEF AttributionOK, Held, Faults
<1>12. CASE FlushBegin
  <2>1. child'.state = "flushing" /\ child'.todo = child.todo
        /\ UNCHANGED <<crash, quarantined, blame>>
    BY <1>12, FlushBeginEffect DEF FlushBegin, hostVars
  <2>2. PICK f \in Logs : IsNext(f) /\ outbox' = Append(outbox, StatusOf(f))
    BY <1>12 DEF FlushBegin
  <2>3. StatusOf(f) \in Msg /\ StatusOf(f).type = "status" /\ StatusOf(f).current.log = f
    BY DEF StatusOf, Msg, Spot, TypeOK
  <2>4. \A g : Blames(g)' => g = f
    BY <2>2, <2>3, BlamesStatus
  <2>5. IsNext(f)'
    BY <2>1, <2>2 DEF IsNext
  <2> QED
    BY <2>1, <2>4, <2>5 DEF AttributionOK, Held, Faults
<1>13. CASE FlushEnd
  <2>1. PICK f \in Logs :
           /\ IsNext(f) /\ outbox' = outbox \o MatchesRead(f)
           /\ IF Fatal(f)
              THEN child' = [child EXCEPT !.state = "dead"]
              ELSE child' = [child EXCEPT !.state = "scanning", !.todo = @ \ {f}]
    BY <1>13 DEF FlushEnd
  <2>2. child.state = "flushing" /\ UNCHANGED <<crash, lastCurrent, stopping, quarantined, blame>>
    BY <1>13 DEF FlushEnd, hostVars
  <2>3. CASE Fatal(f)
    <3>1. child'.state = "dead" /\ f \in Bad
      BY <2>1, <2>3, DeathEffect DEF Fatal
    <3>2. \A g \in Logs : Blames(g)' => IsNext(g)
      BY <2>1, <2>2, BlamesMatch DEF AttributionOK
    <3>3. \A g \in Logs : IsNext(g) => g = f
      <4>1. Logs \subseteq Nat
        BY WorkerHostAssumption
      <4> QED
        BY <2>1, <4>1 DEF IsNext
    <3>4. \A g \in Healthy : ~Blames(g)'
      BY <3>1, <3>2, <3>3 DEF Healthy
    <3> QED
      BY <2>2, <3>1, <3>4 DEF AttributionOK, Held, Faults, Healthy
  <2>4. CASE ~Fatal(f)
    <3>1. child'.state = "scanning"
      <4> DEFINE c1 == [child EXCEPT !.state = "scanning"]
      <4>1. c1 \in Child /\ c1.state = "scanning" /\ c1.todo = child.todo
        BY StateEffect DEF TypeOK, Child, States
      <4>2. child' = [c1 EXCEPT !.todo = child.todo \ {f}] /\ child.todo \ {f} \in SUBSET Logs
        BY <2>1, <2>4 DEF TypeOK
      <4> HIDE DEF c1
      <4> QED
        BY <4>1, <4>2, TodoEffect
    <3> QED
      BY <2>2, <3>1 DEF AttributionOK, Held, Faults
  <2> QED
    BY <2>3, <2>4
<1> QED
  BY <1>2, <1>3, <1>4, <1>5, <1>6, <1>7, <1>8, <1>9, <1>10, <1>11, <1>12, <1>13
     DEF Next, WorkerNext, HostNext

-----------------------------------------------------------------------------
LEMMA InitOK == Init => IInv
<1> SUFFICES ASSUME Init PROVE IInv
  OBVIOUS
<1> USE WorkerHostAssumption
<1>1. TypeOK
  <2>1. child \in Child /\ config \in Config
    BY NoChildType DEF Init
  <2>2. \A f \in Logs : 0 \in 0..MaxSize
    OBVIOUS
  <2>3. /\ inbox \in Seq(Config) /\ outbox \in Seq(Msg)
        /\ crash \in [spot : Spot \cup {NoSpot}, count : Nat]
        /\ blame \in [kills : 0..MaxKills, lost : 0..MaxLost]
    BY DEF Init, NoCrash
  <2> QED
    BY <2>1, <2>2, <2>3 DEF Init, TypeOK, Child
<1>2. StopOK /\ ConfigOK
  BY NoChildType DEF Init, StopOK, ConfigOK, NoConfig
<1>3. AttributionOK
  <2>1. crash.spot.log = 0 /\ 0 \notin Healthy /\ child.state = "none" /\ quarantined = {}
    BY NoChildType DEF Init, NoCrash, NoSpot, Healthy
  <2>2. Held = 0 /\ Faults = 0
    BY <2>1 DEF Held, Faults, Init
  <2> QED
    BY <2>1, <2>2 DEF AttributionOK
<1> QED
  BY <1>1, <1>2, <1>3 DEF IInv

LEMMA StepOK == IInv /\ [Next]_vars => IInv'
<1>1. ASSUME IInv, Next PROVE IInv'
  BY <1>1, TypeStep, StopStep, ConfigStep, AttributionStep DEF IInv
<1>2. ASSUME IInv, UNCHANGED vars PROVE IInv'
  BY <1>2 DEF IInv, vars, hostVars, workerVars, TypeOK, StopOK, ConfigOK, AttributionOK, Held,
     Faults, Blames, IsNext
<1> QED
  BY <1>1, <1>2

\* The invariant holds of every reachable state.
THEOREM Invariance == Spec => []IInv
<1> QED
  BY InitOK, StepOK, PTL DEF Spec

\* Type correctness of the supervision.
THEOREM TypeCorrect == Spec => []TypeOK
<1>1. IInv => TypeOK
  BY DEF IInv
<1> QED
  BY <1>1, Invariance, PTL

\* stop() sets a flag that the exit handler reads and the pending timer does
\* not: at most that one respawn is left.
THEOREM AtMostOneAfterStopHolds == Spec => []AtMostOneAfterStop
<1>1. IInv => AtMostOneAfterStop
  BY DEF IInv, TypeOK, StopOK, AtMostOneAfterStop
<1> QED
  BY <1>1, Invariance, PTL

\* The configuration a worker was started with or sent is the host's latest.
THEOREM WorkerHasLatestConfigHolds == Spec => []WorkerHasLatestConfig
<1>1. IInv => WorkerHasLatestConfig
  BY DEF IInv, ConfigOK, WorkerHasLatestConfig
<1> QED
  BY <1>1, Invariance, PTL

\* A log without a fatal line is quarantined only for three faults of its own
\* accord: deaths that no log is to blame for, and lost announcements.
THEOREM HealthyNotQuarantinedHolds == Spec => []HealthyNotQuarantined
<1>1. IInv => HealthyNotQuarantined
  BY WorkerHostAssumption DEF IInv, TypeOK, AttributionOK, HealthyNotQuarantined, Healthy, Faults, Limit
<1> QED
  BY <1>1, Invariance, PTL

===============================================================================
