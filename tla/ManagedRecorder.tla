-------------------------- MODULE ManagedRecorder --------------------------
(***************************************************************************)
(* Recording with an OBS that the application runs itself: the managed half *)
(* of main/recorder.ts over main/managedObsBackend.ts. OBS records for as   *)
(* long as the game runs; the recording is cut into chunks (files), and     *)
(* every chunk has a row in the recordings index, opened when OBS announces *)
(* the file and closed when it is cut or stopped.                           *)
(*                                                                          *)
(* The recorder serialises its work on one promise chain; the job at its    *)
(* head is suspended at pc. OBS is external: it handles requests in order,  *)
(* may refuse or stay silent, and changes file some time after it accepted  *)
(* a split. A request that timed out is still handled later. Events and     *)
(* answers come over one socket: an answer follows the events before it.    *)
(* Time passes only as timers that may fire. A chapter mark has no effect.  *)
(*                                                                          *)
(* stop() comes once: from the assembly, which stops watching the game      *)
(* first, or from the quit, which stops neither that watch nor the log's    *)
(* worker; so the game and its segments go on during and after it. It ends  *)
(* the OBS process, for good.                                               *)
(***************************************************************************)
EXTENDS Naturals, Sequences, FiniteSets

CONSTANTS
    MaxFiles,   \* files OBS writes
    MaxSignals, \* starts of the game and openings of matches
    MaxJobs,    \* jobs on the chain
    MaxAsked    \* requests OBS has not handled: one more that timed out is lost

ASSUME BoundsAssumption ==
    /\ MaxFiles \in Nat /\ MaxSignals \in Nat /\ MaxJobs \in Nat /\ MaxAsked \in Nat

VARIABLES
    \* the recorder
    running,    \* managedRunning: the game is up
    status,     \* managedConnected and managedRecording, always equal
    inMatch,    \* managedInMatch
    owed,       \* managedMaxChunkPending
    timers,     \* the armed ones of the idle, max-chunk, stuck and retry timers
    chain,      \* managedChain: the jobs, the one in progress first
    pc,         \* where the job in progress is suspended, "idle" for none
    stopped,    \* stop() was called
    gone,       \* managedProcessStop has ended the OBS process
    \* the backend
    connected,  \* connected, the session configured
    hears,      \* the socket is open, the listeners and the subscriber attached
    active,     \* continuousActive
    current,    \* currentChunk: its file, 0 for none
    waiter,     \* the split waiter: "none", "armed", "hit", "expired"
    expected,   \* the file whose end it waits for
    stale,      \* staleExpectedClosingPaths
    \* OBS
    obs,        \* the file OBS writes, 0 when it does not record
    files,      \* files written so far: files are numbered from 1
    due,        \* accepted splits OBS has not carried out yet
    wire,       \* events on their way
    asked,      \* requests OBS has not handled yet
    \* the recordings index
    row,        \* file -> "none", "open" or "closed"
    \* the world
    signals,    \* starts of the game and openings of matches so far
    \* history
    unclaimed,  \* chunks whose end OBS announced and no split took, or that
                \* were current when stop() closed the socket or ended OBS
    unstopped   \* chunks (0 for none) of a StopRecord that was not confirmed

recVars  == <<running, status, inMatch, owed, timers>>
backVars == <<connected, hears, active, current>>
waitVars == <<waiter, expected, stale>>
obsVars  == <<obs, files, due, wire>>
histVars == <<unclaimed, unstopped>>
vars == <<recVars, chain, pc, stopped, gone, backVars, waitVars, obsVars, asked, row,
          signals, histVars>>

Files == 1..MaxFiles
Job == Head(chain)

Init ==
    /\ running = FALSE /\ status = FALSE /\ inMatch = FALSE /\ owed = FALSE
    /\ timers = {} /\ chain = <<>> /\ pc = "idle" /\ stopped = FALSE
    /\ gone = FALSE /\ connected = FALSE /\ hears = FALSE /\ active = FALSE /\ current = 0
    /\ waiter = "none" /\ expected = 0 /\ stale = {}
    /\ obs = 0 /\ files = 0 /\ due = 0 /\ wire = <<>> /\ asked = <<>>
    /\ row = [f \in Files |-> "none"]
    /\ signals = 0
    /\ unclaimed = {} /\ unstopped = {}

----------------------------------------------------------------------------
\* Timers and the chain.

\* armManagedMaxChunkTimer and, outside a match, armManagedIdleTimer.
Rearmed(t) ==
    (t \ {"stuck"}) \cup {"max"} \cup (IF inMatch THEN {} ELSE {"idle"})

RunManaged(kind) ==
    /\ Len(chain) < MaxJobs
    /\ chain' = Append(chain, kind)

EndJob == chain' = Tail(chain) /\ pc' = "idle"

Ask(request) ==
    /\ Len(asked) < MaxAsked
    /\ asked' = Append(asked, request)

----------------------------------------------------------------------------
\* The world: the game process, the log's segments, the timers, stop().

WowUp ==
    /\ ~running /\ signals < MaxSignals
    /\ running' = TRUE
    /\ signals' = signals + 1
    /\ RunManaged("start")
    /\ UNCHANGED <<status, inMatch, owed, timers, pc, stopped, gone, backVars, waitVars,
                   obsVars, asked, row, histVars>>

WowDown ==
    /\ running
    /\ running' = FALSE /\ status' = FALSE /\ inMatch' = FALSE /\ owed' = FALSE
    /\ timers' = {}
    /\ RunManaged("down")
    /\ UNCHANGED <<pc, stopped, gone, backVars, waitVars, obsVars, asked, row, signals,
                   histVars>>

\* A punctual opening also cuts at the match's first instant.
SegmentOpen ==
    /\ signals < MaxSignals
    /\ inMatch' = TRUE
    /\ timers' = timers \ {"idle"}
    /\ signals' = signals + 1
    /\ RunManaged("open") \/ UNCHANGED chain
    /\ UNCHANGED <<running, status, owed, pc, stopped, gone, backVars, waitVars, obsVars,
                   asked, row, histVars>>

SegmentClose ==
    /\ inMatch
    /\ inMatch' = FALSE /\ owed' = FALSE
    /\ timers' = timers \ {"stuck"}
    /\ RunManaged("close")
    /\ UNCHANGED <<running, status, pc, stopped, gone, backVars, waitVars, obsVars, asked,
                   row, signals, histVars>>

IdleFires ==
    /\ "idle" \in timers
    /\ timers' = timers \ {"idle"}
    /\ RunManaged("idle")
    /\ UNCHANGED <<running, status, inMatch, owed, pc, stopped, gone, backVars, waitVars,
                   obsVars, asked, row, signals, histVars>>

\* Mutant of MaxFires: the split is owed without an end to the wait.
MaxFiresForgets ==
    /\ "max" \in timers
    /\ timers' = timers \ {"max"}
    /\ IF inMatch
       THEN owed' = TRUE /\ UNCHANGED chain
       ELSE RunManaged("max") /\ UNCHANGED owed
    /\ UNCHANGED <<running, status, inMatch, pc, stopped, gone, backVars, waitVars, obsVars,
                   asked, row, signals, histVars>>

\* In a match the split is owed until the match ends or the chunk is stuck.
MaxFires ==
    /\ "max" \in timers
    /\ IF inMatch
       THEN /\ owed' = TRUE
            /\ timers' = (timers \ {"max"}) \cup {"stuck"}
            /\ UNCHANGED chain
       ELSE /\ timers' = timers \ {"max"}
            /\ RunManaged("max")
            /\ UNCHANGED owed
    /\ UNCHANGED <<running, status, inMatch, pc, stopped, gone, backVars, waitVars, obsVars,
                   asked, row, signals, histVars>>

StuckFires ==
    /\ "stuck" \in timers
    /\ timers' = timers \ {"stuck"}
    /\ RunManaged("stuck")
    /\ UNCHANGED <<running, status, inMatch, owed, pc, stopped, gone, backVars, waitVars,
                   obsVars, asked, row, signals, histVars>>

RetryFires ==
    /\ "retry" \in timers
    /\ timers' = timers \ {"retry"}
    /\ IF running THEN RunManaged("retry") ELSE UNCHANGED chain
    /\ UNCHANGED <<running, status, inMatch, owed, pc, stopped, gone, backVars, waitVars,
                   obsVars, asked, row, signals, histVars>>

\* stop(), whatever the game does.
Stop ==
    /\ ~stopped
    /\ stopped' = TRUE
    /\ RunManaged("stop")
    /\ UNCHANGED <<recVars, pc, gone, backVars, waitVars, obsVars, asked, row, signals,
                   histVars>>

----------------------------------------------------------------------------
\* Events of OBS.

\* The subscriber: a row, and the timers of a fresh chunk.
Opened(f) ==
    /\ row' = [row EXCEPT ![f] = "open"]
    /\ timers' = Rearmed(timers)
    /\ owed' = FALSE

\* openFirstChunk, from the STARTED event or from the scan of the directory: not
\* while StopRecord is out, nor over a chunk that is open.
FirstChunk(f) ==
    IF pc = "stopCall" \/ current # 0 \/ ~hears
    THEN UNCHANGED <<current, row, timers, owed>>
    ELSE current' = f /\ Opened(f)

Deliver == wire # <<>> /\ wire' = Tail(wire)

StartedEvent ==
    /\ Deliver
    /\ Head(wire)[1] = "started"
    /\ FirstChunk(Head(wire)[2])
    /\ UNCHANGED <<running, status, inMatch, chain, pc, stopped, gone, connected, hears, active,
                   waitVars, obs, files, due, asked, signals, histVars>>

\* splitChunk's end: the chunk is closed in the index, or, when there is none
\* to close, the timers are armed for another attempt.
Split(closed) ==
    /\ waiter' = "none" /\ expected' = 0
    /\ EndJob
    /\ IF closed # 0
       THEN row' = [row EXCEPT ![closed] = "closed"] /\ UNCHANGED <<timers, owed>>
       ELSE timers' = Rearmed(timers) /\ owed' = FALSE /\ UNCHANGED row

\* The waiter takes the event: nobody is owed an earlier answer for the file
\* that ends, and it is the file this split set out to end.
Claims(ends) ==
    /\ pc \in {"splitCall", "splitWait"} /\ waiter = "armed"
    /\ ends = expected /\ ends \notin stale

\* RecordFileChanged: the current file ends, f begins. The job that waits for
\* nothing else goes on at once.
ChangedEvent ==
    LET f == Head(wire)[2]
        ends == current
    IN
    /\ Deliver
    /\ Head(wire)[1] = "changed"
    /\ IF pc = "stopCall" \/ ~hears
       THEN UNCHANGED <<current, timers, owed, row, waitVars, chain, pc, unclaimed>>
       ELSE /\ current' = f
            /\ stale' = stale \ {ends}
            /\ unclaimed' = IF Claims(ends) \/ ends = 0 THEN unclaimed
                            ELSE unclaimed \cup {ends}
            /\ timers' = Rearmed(timers) /\ owed' = FALSE
            /\ IF Claims(ends) /\ pc = "splitWait"
               THEN /\ waiter' = "none" /\ expected' = 0
                    /\ EndJob
                    /\ row' = [g \in Files |-> IF g = f THEN "open"
                                               ELSE IF g = ends THEN "closed"
                                               ELSE row[g]]
               ELSE /\ waiter' = IF Claims(ends) THEN "hit" ELSE waiter
                    /\ row' = [row EXCEPT ![f] = "open"]
                    /\ UNCHANGED <<expected, chain, pc>>
    /\ UNCHANGED <<running, status, inMatch, stopped, gone, connected, hears, active, obs, files,
                   due, asked, signals, unstopped>>

----------------------------------------------------------------------------
\* The jobs.

Begin(kinds) == pc = "idle" /\ chain # <<>> /\ Job \in kinds

\* attemptManagedStart after startContinuous: probe() is ready once connected.
StartEnds(ready) ==
    /\ status' = ready
    /\ EndJob

\* Started already, or no connection: startContinuous returns at once.
StartAtOnce ==
    /\ Begin({"start", "retry"})
    /\ \/ active /\ StartEnds(connected) /\ UNCHANGED timers
       \/ /\ ~active /\ ~connected
          /\ StartEnds(FALSE)
          /\ timers' = IF Job = "start" THEN timers \cup {"retry"} ELSE timers
    /\ UNCHANGED <<running, inMatch, owed, stopped, gone, backVars, waitVars, obsVars, asked,
                   row, signals, histVars>>

\* ensureConnected connects while there is a process to connect to.
StartAsks ==
    /\ Begin({"start", "retry"})
    /\ ~active /\ ~gone
    /\ connected' = TRUE /\ hears' = TRUE
    /\ Ask("StartRecord")
    /\ pc' = "startCall"
    /\ UNCHANGED <<recVars, chain, stopped, gone, active, current, waitVars, obsVars, row,
                   signals, histVars>>

\* The first chunk is known, or its event did not come in time and OBS is
\* asked whether it records at all.
StartWaited ==
    /\ pc = "startWait"
    /\ IF current # 0
       THEN StartEnds(connected) /\ UNCHANGED asked
       ELSE pc' = "startCheck" /\ Ask("GetRecordStatus") /\ UNCHANGED <<status, chain>>
    /\ UNCHANGED <<running, inMatch, owed, timers, stopped, gone, backVars, waitVars, obsVars,
                   row, signals, histVars>>

\* The newest file written since StartRecord, if any, is the first chunk.
StartScans ==
    /\ StartEnds(connected)
    /\ \/ obs # 0 /\ FirstChunk(obs)
       \/ UNCHANGED <<current, row, timers, owed>>
    /\ UNCHANGED active

SplitKinds == {"idle", "max", "stuck", "open", "close"}

SplitUnconnected ==
    /\ Begin(SplitKinds)
    /\ ~connected
    /\ Split(0)
    /\ UNCHANGED <<running, status, inMatch, stopped, gone, backVars, stale, obsVars, asked,
                   signals, histVars>>

SplitAsks ==
    /\ Begin(SplitKinds)
    /\ connected
    /\ waiter' = "armed" /\ expected' = current
    /\ Ask("SplitRecordFile")
    /\ pc' = "splitCall"
    /\ UNCHANGED <<recVars, chain, stopped, gone, backVars, stale, obsVars, row, signals,
                   histVars>>

\* Mutant of SplitWaitExpires: the wait has no end once the call is answered.
SplitWaitExpiresEarly ==
    /\ waiter = "armed" /\ pc = "splitCall"
    /\ stale' = stale \cup {expected}
    /\ waiter' = "expired"
    /\ UNCHANGED <<recVars, expected, chain, pc, row, stopped, gone, backVars, obsVars, asked,
                   signals, histVars>>

\* The wait for the event runs out, while the call is out or after it.
SplitWaitExpires ==
    /\ waiter = "armed"
    /\ stale' = stale \cup {expected}
    /\ \/ pc = "splitCall" /\ waiter' = "expired"
          /\ UNCHANGED <<expected, chain, pc, row, timers, owed>>
       \/ pc = "splitWait" /\ Split(0)
    /\ UNCHANGED <<running, status, inMatch, stopped, gone, backVars, obsVars, asked, signals, histVars>>

\* onWowDown's job, and stop()'s when the game is up: stopContinuous.
StopAsks ==
    /\ Begin({"down", "stop"})
    /\ connected
    /\ Job = "stop" => running
    /\ Ask("StopRecord")
    /\ pc' = "stopCall"
    /\ timers' = IF Job = "stop" THEN {} ELSE timers
    /\ UNCHANGED <<running, status, inMatch, owed, chain, stopped, gone, backVars, waitVars,
                   obsVars, row, signals, histVars>>

\* Mutant of DownUnconnected: nothing is stopped that was not seen to start.
DownInactive ==
    /\ Begin({"down"})
    /\ ~connected \/ ~active
    /\ EndJob
    /\ UNCHANGED <<recVars, stopped, gone, backVars, waitVars, obsVars, asked, row, signals,
                   histVars>>

\* Without a client nothing happens; with one that could not connect after
\* stop(), the request fails and a chunk heard of in between is closed.
DownUnconnected ==
    /\ Begin({"down"})
    /\ ~connected
    /\ EndJob
    /\ \/ UNCHANGED <<current, row>>
       \/ /\ current # 0
          /\ row' = [row EXCEPT ![current] = "closed"]
          /\ current' = 0
    /\ UNCHANGED <<recVars, stopped, gone, connected, hears, active, waitVars, obsVars,
                   asked, signals, histVars>>

\* A job behind stop(), when the assembly has taken the backend away.
NoBackend ==
    /\ gone /\ Begin(SplitKinds \cup {"start", "retry", "down"})
    /\ EndJob
    /\ UNCHANGED <<recVars, stopped, gone, backVars, waitVars, obsVars, asked, row, signals,
                   histVars>>

\* stop() with the game down, or no connection: no StopRecord.
StopAtOnce ==
    /\ Begin({"stop"})
    /\ ~running \/ ~connected
    /\ timers' = {}
    /\ pc' = IF connected THEN "disconnect" ELSE "processStop"
    /\ UNCHANGED <<running, status, inMatch, owed, chain, stopped, gone, backVars, waitVars,
                   obsVars, asked, row, signals, histVars>>

\* shutdown(): disconnect() is over, or timed out with the socket still open.
Disconnected ==
    /\ pc = "disconnect"
    /\ hears' \in {FALSE, hears}
    /\ connected' = FALSE /\ active' = FALSE /\ current' = 0
    /\ unclaimed' = unclaimed \cup ({current} \ {0})
    /\ pc' = "processStop"
    /\ UNCHANGED <<recVars, chain, stopped, gone, waitVars, obsVars, asked, row, signals,
                   unstopped>>

\* managedProcessStop has ended OBS, with its socket and all that was on its way
\* in it; the reset at the end of stop(). Timers armed since stop() began stay.
ProcessStopped ==
    /\ pc = "processStop"
    /\ gone' = TRUE /\ hears' = FALSE
    /\ obs' = 0 /\ due' = 0 /\ wire' = <<>> /\ asked' = <<>>
    /\ running' = FALSE /\ status' = FALSE /\ inMatch' = FALSE /\ owed' = FALSE
    /\ unclaimed' = unclaimed \cup ({current} \ {0})
    /\ EndJob
    /\ UNCHANGED <<timers, stopped, connected, active, current, waitVars, files, row,
                   signals, unstopped>>

\* Mutant of StopContinuousEnds: a StopRecord that fails closes no chunk.
StopContinuousEndsIfConfirmed(confirmed) ==
    /\ row' = IF current = 0 \/ ~confirmed THEN row ELSE [row EXCEPT ![current] = "closed"]
    /\ unstopped' = IF confirmed THEN unstopped ELSE unstopped \cup {current}
    /\ active' = FALSE /\ current' = 0
    /\ IF Job = "stop" THEN pc' = "disconnect" /\ UNCHANGED chain ELSE EndJob
    /\ UNCHANGED <<recVars, connected, hears, waitVars, unclaimed>>

\* StopRecord was answered or not: the chunk open when it was asked is closed.
StopContinuousEnds(confirmed) ==
    /\ row' = IF current = 0 THEN row ELSE [row EXCEPT ![current] = "closed"]
    /\ unstopped' = IF confirmed THEN unstopped ELSE unstopped \cup {current}
    /\ active' = FALSE /\ current' = 0
    /\ IF Job = "stop" THEN pc' = "disconnect" /\ UNCHANGED chain ELSE EndJob
    /\ UNCHANGED <<recVars, connected, hears, waitVars, unclaimed>>

----------------------------------------------------------------------------
\* Answers. A call is over with its answer or with its timeout.

\* The job in progress waits for the answer to the request at the head.
Awaited ==
    Len(asked) = 1 /\ pc \in {"startCall", "startCheck", "splitCall", "stopCall"}

\* What the job does next; answer is "ok", "inactive" or "failed".
Answered(answer) ==
    \/ /\ pc = "startCall"
       /\ IF answer = "ok"
          THEN /\ active' = TRUE
               /\ IF current # 0 THEN StartEnds(connected)
                  ELSE pc' = "startWait" /\ UNCHANGED <<status, chain>>
          ELSE StartEnds(connected) /\ UNCHANGED active
       /\ UNCHANGED <<running, inMatch, owed, timers, connected, hears, current, waitVars,
                      row,
                      histVars>>
    \/ /\ pc = "startCheck"
       /\ IF answer = "inactive"
          THEN /\ active' = FALSE
               /\ StartEnds(connected)
               /\ UNCHANGED <<current, row, timers, owed>>
          ELSE StartScans
       /\ UNCHANGED <<running, inMatch, connected, hears, waitVars, histVars>>
    \/ /\ pc = "splitCall"
       /\ IF answer = "ok" /\ waiter = "armed"
          THEN pc' = "splitWait" /\ UNCHANGED <<chain, waiter, expected, row, timers, owed>>
          ELSE Split(IF answer = "ok" /\ waiter = "hit" THEN expected ELSE 0)
       /\ unclaimed' = IF answer # "ok" /\ waiter = "hit"
                       THEN unclaimed \cup ({expected} \ {0}) ELSE unclaimed
       /\ UNCHANGED <<running, status, inMatch, backVars, stale, unstopped>>
    \/ /\ pc = "stopCall"
       /\ StopContinuousEnds(answer = "ok")

\* An abandoned request is handled all the same; its answer is ignored.
Respond(answer) ==
    IF Awaited THEN Answered(answer)
    ELSE UNCHANGED <<recVars, chain, pc, backVars, waitVars, row, histVars>>

CallTimesOut ==
    /\ pc \in {"startCall", "startCheck", "splitCall", "stopCall"}
    /\ Answered("failed")
    /\ asked' = IF Len(asked) = MaxAsked THEN SubSeq(asked, 1, MaxAsked - 1) ELSE asked
    /\ UNCHANGED <<stopped, gone, obsVars, signals>>

\* OBS handles the request at the head, or refuses it.
ObsHandles ==
    /\ asked # <<>> /\ wire = <<>>
    /\ asked' = Tail(asked)
    /\ \/ /\ Respond("failed")
          /\ UNCHANGED <<obs, files, due, wire>>
       \/ /\ Head(asked) = "StartRecord" /\ obs = 0
          /\ Respond("ok")
          /\ \/ /\ files < MaxFiles    \* due = 0: OBS was not recording
                /\ files' = files + 1 /\ obs' = files + 1
                /\ wire' \in {<<>>, <<<<"started", files + 1>>>>}
             \/ UNCHANGED <<obs, files, wire>>      \* the output does not start
          /\ UNCHANGED due
       \/ /\ Head(asked) = "SplitRecordFile" /\ obs # 0 /\ files + due < MaxFiles
          /\ Respond("ok")
          /\ due' = due + 1
          /\ UNCHANGED <<obs, files, wire>>
       \/ /\ Head(asked) = "StopRecord" /\ obs # 0
          /\ Respond("ok")
          /\ obs' = 0 /\ due' = 0
          /\ UNCHANGED <<files, wire>>
       \/ /\ Head(asked) = "GetRecordStatus"
          /\ Respond(IF obs # 0 THEN "ok" ELSE "inactive")
          /\ UNCHANGED <<obs, files, due, wire>>
    /\ UNCHANGED <<stopped, gone, signals>>

\* OBS carries out a split it accepted.
ObsSwitches ==
    /\ due > 0
    /\ due' = due - 1
    /\ files' = files + 1 /\ obs' = files + 1
    /\ wire' = Append(wire, <<"changed", files + 1>>)
    /\ UNCHANGED <<recVars, chain, pc, stopped, gone, backVars, waitVars, asked, row, signals, histVars>>

----------------------------------------------------------------------------

World == WowUp \/ WowDown \/ SegmentOpen \/ SegmentClose \/ Stop

Timer == IdleFires \/ MaxFires \/ StuckFires \/ RetryFires

JobStep ==
    \/ StartAtOnce \/ StartAsks \/ StartWaited
    \/ SplitUnconnected \/ SplitAsks \/ SplitWaitExpires
    \/ StopAsks \/ StopAtOnce \/ Disconnected \/ ProcessStopped
    \/ DownUnconnected \/ NoBackend
    \/ CallTimesOut

Obs == ObsHandles \/ ObsSwitches \/ StartedEvent \/ ChangedEvent

Next == World \/ Timer \/ JobStep \/ Obs

Spec == Init /\ [][Next]_vars

\* Every call and every wait has a timeout, and the promise chain goes on; OBS
\* owes nothing.
FairSpec == Spec /\ WF_vars(JobStep)

----------------------------------------------------------------------------
\* Properties.

Requests == {"StartRecord", "GetRecordStatus", "SplitRecordFile", "StopRecord"}

\* Every variable has its type.
TypeOK ==
    /\ running \in BOOLEAN /\ status \in BOOLEAN /\ inMatch \in BOOLEAN /\ owed \in BOOLEAN
    /\ timers \subseteq {"idle", "max", "stuck", "retry"}
    /\ chain \in Seq(SplitKinds \cup {"start", "retry", "down", "stop"})
    /\ pc \in {"idle", "startCall", "startWait", "startCheck", "splitCall", "splitWait",
               "stopCall", "disconnect", "processStop"}
    /\ stopped \in BOOLEAN /\ gone \in BOOLEAN
    /\ connected \in BOOLEAN /\ hears \in BOOLEAN /\ active \in BOOLEAN
    /\ current \in 0..MaxFiles /\ expected \in 0..MaxFiles
    /\ waiter \in {"none", "armed", "hit", "expired"}
    /\ stale \subseteq 0..MaxFiles
    /\ obs \in 0..MaxFiles /\ files \in 0..MaxFiles /\ due \in Nat
    /\ wire \in Seq({"started", "changed"} \X Files) /\ asked \in Seq(Requests)
    /\ row \in [Files -> {"none", "open", "closed"}]
    /\ signals \in 0..MaxSignals
    /\ unclaimed \subseteq Files /\ unstopped \subseteq 0..MaxFiles

\* The split that is about to close f has been answered.
ClosingNow(f) == waiter = "hit" /\ f = expected

\* The index is truthful about what OBS writes, with events coming until OBS is
\* gone. A row is open for the chunk that is current and no other, except for one
\* whose end was announced when no split waited for it, or that was current when
\* stop() closed the socket or ended OBS; and a row is closed only when OBS writes
\* the file no longer, except after a StopRecord that was not confirmed.
RowsAreTrue ==
    \A f \in Files :
        /\ row[f] = "open" => (f = current /\ ~gone) \/ ClosingNow(f) \/ f \in unclaimed
        /\ row[f] = "closed" => f # obs \/ f \in unstopped

\* No chunk grows for ever: while the game is up and OBS lives, a current chunk has
\* a timer that cuts it or a job on the chain that does or rearms.
ChunkIsTimed ==
    (running /\ current # 0 /\ ~gone) => \/ timers \cap {"max", "stuck"} # {}
                                \/ \E i \in 1..Len(chain) : chain[i] # "retry"

\* The chain never hangs on OBS: every job comes to its end.
ChainMoves == pc # "idle" ~> pc = "idle"

\* Once the game is down and everything is settled, OBS does not record, unless
\* a StopRecord was not confirmed: also when the game ends between stop() and its
\* job, which then sends no StopRecord.
DownStopsObs ==
    (~running /\ chain = <<>> /\ asked = <<>> /\ wire = <<>>) =>
        obs = 0 \/ unstopped # {}

=============================================================================
