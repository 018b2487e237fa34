----------------------- MODULE ManagedRecorderProofs -----------------------
(***************************************************************************)
(* Proofs about recording with the OBS the application runs itself, for    *)
(* any number of files, signals, jobs and requests. No property is         *)
(* inductive by itself: whether a row tells the truth depends on the order *)
(* of what is on the wire, on the request the job in progress waits for,   *)
(* and on what is still behind it on the chain.                            *)
(***************************************************************************)
EXTENDS ManagedRecorder, TLAPS

JobKinds == SplitKinds \cup {"start", "retry", "down", "stop"}

(* The jobs that cut or close the current chunk.                           *)
Cutting == SplitKinds \cup {"down", "stop"}

(* What the job suspended at a call asked OBS for.                         *)
RequestOf == [startCall |-> "StartRecord", startCheck |-> "GetRecordStatus",
              splitCall |-> "SplitRecordFile", stopCall |-> "StopRecord"]

Calls == {"startCall", "startCheck", "splitCall", "stopCall"}

(* The jobs that may be suspended there.                                   *)
JobFits(p, job) ==
  /\ p \in {"startCall", "startWait", "startCheck"} => job \in {"start", "retry"}
  /\ p \in {"splitCall", "splitWait"} => job \in SplitKinds
  /\ p = "stopCall" => job \in {"down", "stop"}
  /\ p \in {"disconnect", "processStop"} => job = "stop"

(* TypeOK in two parts, for two provers.                                   *)
Flags ==
  /\ running \in BOOLEAN /\ status \in BOOLEAN /\ inMatch \in BOOLEAN /\ owed \in BOOLEAN
  /\ stopped \in BOOLEAN /\ gone \in BOOLEAN
  /\ connected \in BOOLEAN /\ hears \in BOOLEAN /\ active \in BOOLEAN

WireType == {"started", "changed"} \X Files

Values ==
  /\ timers \subseteq {"idle", "max", "stuck", "retry"}
  /\ chain \in Seq(JobKinds)
  /\ pc \in {"idle", "startCall", "startWait", "startCheck", "splitCall", "splitWait",
             "stopCall", "disconnect", "processStop"}
  /\ current \in 0..MaxFiles /\ expected \in 0..MaxFiles
  /\ waiter \in {"none", "armed", "hit", "expired"}
  /\ stale \subseteq 0..MaxFiles
  /\ obs \in 0..MaxFiles /\ files \in 0..MaxFiles /\ due \in Nat
  /\ wire \in Seq(WireType) /\ asked \in Seq(Requests)
  /\ row \in [Files -> {"none", "open", "closed"}]
  /\ signals \in 0..MaxSignals
  /\ unclaimed \subseteq Files /\ unstopped \subseteq 0..MaxFiles

(* OBS writes its newest file or none, and the events on the wire tell of  *)
(* its files in the order of their beginning.                              *)
ObsOK ==
  /\ obs \in {0, files} /\ files + due <= MaxFiles
  /\ obs = 0 => due = 0
  /\ \A i \in 1..Len(wire) : wire[i][2] <= files
  /\ \A i, j \in 1..Len(wire) : i < j => wire[i][2] < wire[j][2]

(* The backend lags behind OBS: it has yet to hear of the file that ends   *)
(* its chunk, and knows no file OBS has not begun.                         *)
BackOK ==
  /\ current <= files /\ expected <= files
  /\ \A i \in 1..Len(wire) : wire[i][1] = "changed" => current < wire[i][2]
  /\ \A f \in Files : row[f] # "none" => f <= files

NoChange == due = 0 /\ \A i \in 1..Len(wire) : wire[i][1] # "changed"

(* The request that the job in progress waits for is the last one, so that *)
(* the answer it gets is the answer to it; a start that waits for its first*)
(* file does not meet a split.                                             *)
CallOK ==
  /\ pc # "idle" => chain # <<>> /\ JobFits(pc, chain[1])
  /\ pc \notin {"idle", "processStop"} => connected
  /\ pc \in Calls => asked # <<>> /\ asked[Len(asked)] = RequestOf[pc]
  /\ pc = "startWait" => asked = <<>>
  /\ pc = "startCheck" => Len(asked) = 1
  /\ pc \in {"startWait", "startCheck"} => NoChange
  /\ waiter # "none" => pc \in {"splitCall", "splitWait"}
  /\ waiter = "hit" => pc = "splitCall" /\ expected < files

(* As long as OBS lives, a chunk that no timer cuts is cut by a job on the *)
(* chain; the split that has had its event and is about to end does not    *)
(* count.                                                                  *)
Cuts(i) == chain[i] \in Cutting /\ (i = 1 => waiter # "hit")
TimedOK ==
  gone \/ current = 0 \/ "max" \in timers \/ "stuck" \in timers \/ \E i \in 1..Len(chain) : Cuts(i)

DownAfter(n) == \E j \in 1..Len(chain) : j > n /\ chain[j] = "down"

(* A start is on the chain only while the game is up or its end is behind  *)
(* it, unless stop() was called; and stop() is on the chain until OBS is   *)
(* gone.                                                                   *)
ChainOK ==
  /\ \A i \in 1..Len(chain) :
       chain[i] \in {"start", "retry"} => running \/ DownAfter(i) \/ stopped
  /\ \A i \in 1..Len(chain) : chain[i] = "stop" => stopped
  /\ stopped /\ ~gone => \E i \in 1..Len(chain) : chain[i] = "stop"

Wanted == obs # 0 \/ \E i \in 1..Len(asked) : asked[i] = "StartRecord"

(* As long as OBS records or will, its stop or its end is still to come.   *)
StopOK == unstopped = {} /\ Wanted => stopped \/ (connected /\ (running \/ DownAfter(0)))

(* Events are heard until the socket is closed, at the latest when OBS is  *)
(* gone; then nothing is on its way any more, and nothing is asked.        *)
EndOK ==
  /\ hears => connected \/ pc = "processStop"
  /\ pc = "processStop" => ~connected
  /\ current # 0 => hears \/ gone
  /\ gone => stopped /\ ~hears /\ ~connected /\ obs = 0 /\ asked = <<>> /\ wire = <<>>

Safe ==
  /\ Values /\ ObsOK /\ BackOK /\ CallOK /\ TimedOK /\ ChainOK /\ StopOK
  /\ RowsAreTrue

Inv == Flags /\ EndOK /\ Safe

-----------------------------------------------------------------------------
(* Sequences.                                                              *)

(* Append, position by position.                                           *)
LEMMA AppendAt ==
  ASSUME NEW S, NEW q \in Seq(S), NEW e \in S
  PROVE  /\ Append(q, e) \in Seq(S)
         /\ Len(Append(q, e)) = Len(q) + 1
         /\ Append(q, e)[Len(q) + 1] = e
         /\ \A i \in 1..Len(q) : Append(q, e)[i] = q[i]
OBVIOUS

(* Head and Tail, position by position.                                    *)
LEMMA TailAt ==
  ASSUME NEW S, NEW q \in Seq(S), q # <<>>
  PROVE  /\ Len(q) \in Nat /\ Len(q) > 0
         /\ Head(q) = q[1] /\ q[1] \in S
         /\ Tail(q) \in Seq(S)
         /\ Len(Tail(q)) = Len(q) - 1
         /\ \A i \in 1..(Len(q) - 1) : Tail(q)[i] = q[i + 1]
OBVIOUS

(* A sequence without its end.                                             *)
LEMMA FrontAt ==
  ASSUME NEW S, NEW q \in Seq(S), NEW n \in Nat, Len(q) = n, n > 0
  PROVE  /\ SubSeq(q, 1, n - 1) \in Seq(S)
         /\ Len(SubSeq(q, 1, n - 1)) = n - 1
         /\ \A i \in 1..(n - 1) : SubSeq(q, 1, n - 1)[i] = q[i]
OBVIOUS

(* What RunManaged puts on the chain comes last.                           *)
LEMMA RunAt ==
  ASSUME NEW kind \in JobKinds, chain \in Seq(JobKinds), RunManaged(kind)
  PROVE  /\ chain' \in Seq(JobKinds) /\ chain' # <<>>
         /\ Len(chain) \in Nat /\ Len(chain') = Len(chain) + 1
         /\ chain'[Len(chain) + 1] = kind
         /\ \A i \in 1..Len(chain) : chain'[i] = chain[i]
BY AppendAt DEF RunManaged

(* The end of a job moves the others up.                                   *)
LEMMA EndAt ==
  ASSUME chain \in Seq(JobKinds), chain # <<>>, EndJob
  PROVE  /\ chain' \in Seq(JobKinds) /\ pc' = "idle"
         /\ Len(chain) \in Nat /\ Len(chain) > 0 /\ Len(chain') = Len(chain) - 1
         /\ \A i \in 1..Len(chain') : i + 1 \in 2..Len(chain) /\ chain'[i] = chain[i + 1]
         /\ \A i \in 2..Len(chain) : i - 1 \in 1..Len(chain') /\ chain[i] = chain'[i - 1]
BY TailAt DEF EndJob

(* The request just asked is the last one.                                 *)
LEMMA AskAt ==
  ASSUME NEW request \in Requests, asked \in Seq(Requests), Ask(request)
  PROVE  /\ asked' \in Seq(Requests) /\ asked' # <<>>
         /\ Len(asked) \in Nat /\ Len(asked') = Len(asked) + 1
         /\ asked'[Len(asked')] = request
         /\ \A i \in 1..Len(asked) : asked'[i] = asked[i]
BY AppendAt DEF Ask

(* A begun job is the first one of the chain.                              *)
LEMMA BeginAt ==
  ASSUME NEW kinds, chain \in Seq(JobKinds), Begin(kinds)
  PROVE  pc = "idle" /\ chain # <<>> /\ Job = chain[1] /\ chain[1] \in kinds
BY TailAt DEF Begin, Job

(* The event at the head of the wire.                                      *)
LEMMA WireAt ==
  ASSUME wire \in Seq(WireType), Deliver
  PROVE  /\ wire # <<>> /\ Len(wire) \in Nat /\ Len(wire) > 0
         /\ Head(wire) = wire[1] /\ Head(wire)[2] \in Files
         /\ wire' \in Seq(WireType) /\ Len(wire') = Len(wire) - 1
         /\ \A i \in 1..Len(wire') : i + 1 \in 2..Len(wire) /\ wire'[i] = wire[i + 1]
<1>1. wire # <<>> /\ wire' = Tail(wire)
  BY DEF Deliver
<1>2. wire[1] \in WireType
  BY <1>1, TailAt
<1> QED
  BY <1>1, <1>2, TailAt DEF WireType

-----------------------------------------------------------------------------
(* The flags.                                                              *)

(* The answer to a call leaves the flags Boolean.                          *)
LEMMA AnsweredFlags == ASSUME NEW answer, Flags, Answered(answer),
                              UNCHANGED <<stopped, gone>>
                       PROVE  Flags'
<1>1. CASE pc = "startCall"
  BY <1>1, ZenonT(60) DEF Flags, Answered, StartEnds
<1>2. CASE pc = "startCheck"
  BY <1>2, ZenonT(60) DEF Flags, Answered, StartEnds, StartScans, FirstChunk, Opened
<1>3. CASE pc = "splitCall"
  BY <1>3, ZenonT(60) DEF Flags, Answered, Split, backVars
<1>4. CASE pc = "stopCall"
  BY <1>4, ZenonT(60) DEF Flags, Answered, StopContinuousEnds, recVars
<1> QED
  BY <1>1, <1>2, <1>3, <1>4, ZenonT(60) DEF Answered

(* The flags stay Boolean.                                                 *)
LEMMA NextFlags == Flags /\ [Next]_vars => Flags'
<1> SUFFICES ASSUME Flags, [Next]_vars PROVE Flags'
  OBVIOUS
<1> USE DEF Flags, recVars, backVars
<1>1. CASE World
  BY <1>1, ZenonT(60) DEF World, WowUp, WowDown, SegmentOpen, SegmentClose, Stop
<1>2. CASE Timer
  BY <1>2, ZenonT(60) DEF Timer, IdleFires, MaxFires, StuckFires, RetryFires
<1>3. CASE JobStep
  <2>1. CASE StartAtOnce
    BY <2>1, ZenonT(60) DEF StartAtOnce, StartEnds
  <2>2. CASE StartAsks
    BY <2>2, ZenonT(60) DEF StartAsks
  <2>3. CASE StartWaited
    BY <2>3, ZenonT(60) DEF StartWaited, StartEnds
  <2>4. CASE SplitUnconnected \/ SplitAsks
    BY <2>4, ZenonT(60) DEF SplitUnconnected, SplitAsks, Split
  <2>5. CASE SplitWaitExpires
    BY <2>5, ZenonT(60) DEF SplitWaitExpires, Split
  <2>6. CASE StopAsks \/ StopAtOnce \/ DownUnconnected \/ NoBackend
    BY <2>6, ZenonT(60) DEF StopAsks, StopAtOnce, DownUnconnected, NoBackend
  <2>8. CASE Disconnected
    BY <2>8, ZenonT(60) DEF Disconnected
  <2>9. CASE ProcessStopped
    BY <2>9, ZenonT(60) DEF ProcessStopped
  <2>7. CASE CallTimesOut
    BY <2>7, AnsweredFlags DEF CallTimesOut
  <2> QED
    BY <1>3, <2>1, <2>2, <2>3, <2>4, <2>5, <2>6, <2>7, <2>8, <2>9 DEF JobStep
<1>4. CASE Obs
  <2>1. CASE ObsHandles
    <3>1. UNCHANGED <<stopped, gone>> /\ \E answer : Respond(answer)
      BY <2>1 DEF ObsHandles
    <3>2. PICK answer : Respond(answer)
      BY <3>1
    <3> QED
      BY <3>1, <3>2, AnsweredFlags, ZenonT(60) DEF Respond
  <2>2. CASE ObsSwitches
    BY <2>2, ZenonT(60) DEF ObsSwitches
  <2>3. CASE StartedEvent
    BY <2>3, ZenonT(60) DEF StartedEvent, FirstChunk, Opened
  <2>4. CASE ChangedEvent
    BY <2>4, ZenonT(60) DEF ChangedEvent
  <2> QED
    BY <1>4, <2>1, <2>2, <2>3, <2>4 DEF Obs
<1>5. CASE UNCHANGED vars
  BY <1>5, ZenonT(60) DEF vars
<1> QED
  BY <1>1, <1>2, <1>3, <1>4, <1>5 DEF Next

-----------------------------------------------------------------------------
(* The world and the timers: a job may join the chain.                     *)

Quiet == UNCHANGED <<pc, gone, backVars, waitVars, obsVars, asked, row, histVars>>

Joins == (\E kind \in JobKinds : RunManaged(kind)) \/ UNCHANGED chain

(* The jobs on the chain keep their places when one joins.                 *)
LEMMA JoinAt ==
  ASSUME Values, Joins
  PROVE  /\ chain' \in Seq(JobKinds) /\ Len(chain) \in Nat /\ Len(chain') \in Nat
         /\ Len(chain') >= Len(chain)
         /\ \A i \in 1..Len(chain) : chain'[i] = chain[i] /\ i \in 1..Len(chain')
         /\ chain # <<>> => chain' # <<>> /\ chain'[1] = chain[1]
<1>1. chain \in Seq(JobKinds)
  BY DEF Values
<1>2. Len(chain) \in Nat /\ (chain # <<>> => 1 \in 1..Len(chain))
  BY <1>1
<1>3. CASE UNCHANGED chain
  BY <1>1, <1>2, <1>3
<1>4. CASE \E kind \in JobKinds : RunManaged(kind)
  BY <1>1, <1>2, <1>4, RunAt
<1> QED
  BY <1>3, <1>4 DEF Joins

(* A job that joins disturbs neither OBS nor backend nor the job in        *)
(* progress.                                                               *)
LEMMA Joined ==
  ASSUME Inv, Quiet, Joins
  PROVE  ObsOK' /\ BackOK' /\ CallOK' /\ RowsAreTrue'
<1> USE DEF Quiet, backVars, waitVars, obsVars, histVars
<1>1. ObsOK'
  BY DEF Inv, Safe, ObsOK
<1>2. BackOK'
  BY DEF Inv, Safe, BackOK
<1>3. CallOK'
  <2>1. chain # <<>> => chain' # <<>> /\ chain'[1] = chain[1]
    BY JoinAt DEF Inv, Safe
  <2> QED
    BY <2>1 DEF Inv, Safe, CallOK, NoChange
<1>4. RowsAreTrue'
  BY DEF Inv, Safe, RowsAreTrue, ClosingNow
<1> QED
  BY <1>1, <1>2, <1>3, <1>4

(* Nor does it take away a cut.                                            *)
LEMMA JoinedTimed ==
  ASSUME Inv, Quiet, Joins,
         timers \ {"idle", "retry"} \subseteq timers'
  PROVE  TimedOK'
<1>1. CASE current = 0
  BY <1>1 DEF Quiet, backVars, TimedOK
<1>2. CASE "max" \in timers \/ "stuck" \in timers
  BY <1>2 DEF TimedOK
<1>3. ASSUME NEW i \in 1..Len(chain), Cuts(i) PROVE TimedOK'
  <2>1. Cuts(i)' /\ i \in 1..Len(chain')
    BY <1>3, JoinAt DEF Inv, Safe, Cuts, Quiet, waitVars
  <2> QED
    BY <2>1 DEF TimedOK
<1>4. CASE gone
  BY <1>4 DEF Quiet, TimedOK
<1> QED
  BY <1>1, <1>2, <1>3, <1>4 DEF Inv, Safe, TimedOK

(* Of the kinds that cut, the one that joins is itself a cut.              *)
LEMMA CutJoins ==
  ASSUME Inv, Quiet, NEW kind \in Cutting, RunManaged(kind)
  PROVE  TimedOK'
<1>1. /\ chain \in Seq(JobKinds) /\ chain' \in Seq(JobKinds) /\ Len(chain) \in Nat
      /\ Len(chain') = Len(chain) + 1 /\ chain'[Len(chain) + 1] = kind
  BY RunAt DEF Inv, Safe, Values, Cutting, JobKinds
<1>2. waiter = "hit" => chain # <<>>
  BY DEF Inv, Safe, CallOK
<1>3. PICK n : n = Len(chain) + 1
  OBVIOUS
<1>4. chain'[n] = kind /\ n \in 1..Len(chain') /\ (n = 1 => waiter' # "hit")
  BY <1>1, <1>2, <1>3 DEF Quiet, waitVars
<1>5. Cuts(n)' /\ n \in 1..Len(chain')
  BY <1>4 DEF Cuts
<1> QED
  BY <1>5 DEF TimedOK

(* Where the end of the game stands on the chain does not change.          *)
LEMMA JoinedDown ==
  ASSUME Values, Joins, NEW n \in Nat
  PROVE  /\ DownAfter(n) => DownAfter(n)'
         /\ ~RunManaged("down") => (DownAfter(n)' => DownAfter(n))
<1>1. /\ chain \in Seq(JobKinds) /\ Len(chain) \in Nat
      /\ \A i \in 1..Len(chain) : chain'[i] = chain[i] /\ i \in 1..Len(chain')
  BY JoinAt DEF Values
<1>2. DownAfter(n) => DownAfter(n)'
  BY <1>1 DEF DownAfter
<1>3. ASSUME ~RunManaged("down"), DownAfter(n)' PROVE DownAfter(n)
  <2>1. CASE UNCHANGED chain
    BY <1>3, <2>1 DEF DownAfter
  <2>2. ASSUME NEW kind \in JobKinds, RunManaged(kind) PROVE DownAfter(n)
    <3>1. kind # "down"
      BY <1>3, <2>2
    <3>2. Len(chain') = Len(chain) + 1 /\ chain'[Len(chain) + 1] = kind
      BY <1>1, <2>2, RunAt
    <3> QED
      BY <1>1, <1>3, <3>1, <3>2 DEF DownAfter
  <2> QED
    BY <2>1, <2>2 DEF Joins
<1> QED
  BY <1>2, <1>3

(* A job that is neither the end of the game nor stop() leaves the order of*)
(* the chain as it must be; a start must find the game up.                 *)
LEMMA JoinedChain ==
  ASSUME Inv, Quiet, NEW kind \in JobKinds, RunManaged(kind) \/ UNCHANGED chain,
         kind \notin {"down", "stop"}, kind \in {"start", "retry"} => running',
         running => running', UNCHANGED stopped
  PROVE  ChainOK' /\ StopOK'
<1>1. Joins
  BY DEF Joins
<1>2. /\ chain \in Seq(JobKinds) /\ Len(chain) \in Nat
      /\ \A i \in 1..Len(chain) : chain'[i] = chain[i] /\ i \in 1..Len(chain')
      /\ chain # <<>> => chain'[1] = chain[1]
  BY <1>1, JoinAt DEF Inv, Safe, Values
<1>3. \A i \in 1..Len(chain') : i \in Nat /\
        (i \in 1..Len(chain) \/ chain'[i] = kind)
  BY <1>2, RunAt
<1>4. ~RunManaged("down")
  <2> SUFFICES ASSUME RunManaged("down") PROVE FALSE
    OBVIOUS
  <2>1. Len(chain') = Len(chain) + 1 /\ chain'[Len(chain) + 1] = "down"
    BY <1>2, RunAt DEF JobKinds
  <2>2. CASE RunManaged(kind)
    BY <1>2, <2>1, <2>2, RunAt
  <2>3. CASE UNCHANGED chain
    BY <1>2, <2>1, <2>3
  <2> QED
    BY <2>2, <2>3
<1>5. \A n \in Nat : DownAfter(n) <=> DownAfter(n)'
  BY <1>1, <1>4, JoinedDown DEF Inv, Safe
<1>6. ChainOK'
  <2>1. ASSUME NEW i \in 1..Len(chain'), chain'[i] \in {"start", "retry"}
        PROVE  running' \/ DownAfter(i)' \/ stopped'
    BY <1>2, <1>3, <1>5, <2>1 DEF Inv, Safe, ChainOK
  <2>2. ASSUME NEW i \in 1..Len(chain'), chain'[i] = "stop" PROVE stopped'
    BY <1>2, <1>3, <2>2 DEF Inv, Safe, ChainOK
  <2>3. stopped' /\ ~gone' => \E i \in 1..Len(chain') : chain'[i] = "stop"
    BY <1>2 DEF Inv, Safe, ChainOK, Quiet
  <2> QED
    BY <2>1, <2>2, <2>3 DEF ChainOK
<1>7. StopOK'
  BY <1>5 DEF Inv, Safe, StopOK, Wanted, Quiet, obsVars, histVars, backVars
<1> QED
  BY <1>6, <1>7

(* The types, with a job that joins.                                       *)
LEMMA JoinedValues ==
  ASSUME Inv, Quiet, Joins, timers' \subseteq timers \cup {"stuck"},
         signals' \in 0..MaxSignals
  PROVE  Values'
<1>1. chain' \in Seq(JobKinds)
  BY JoinAt DEF Inv, Safe
<1> QED
  BY <1>1 DEF Inv, Safe, Values, Quiet, backVars, waitVars, obsVars, histVars

(* What the lemmas above leave to show for an action of the world.         *)
LEMMA JoinedSafe ==
  ASSUME Inv, Quiet, Joins, timers' \subseteq timers \cup {"stuck"},
         signals' \in 0..MaxSignals, TimedOK', ChainOK', StopOK'
  PROVE  Safe'
BY Joined, JoinedValues DEF Safe

(* The game is started.                                                    *)
LEMMA WowUpStep == ASSUME Inv, WowUp PROVE Safe'
<1>1. RunManaged("start") /\ "start" \in JobKinds /\ running' = TRUE
  BY DEF WowUp, JobKinds
<1>2. Quiet /\ Joins /\ timers' = timers /\ stopped' = stopped
  BY <1>1, Zenon DEF WowUp, Quiet, Joins, recVars
<1>3. signals' \in 0..MaxSignals
  BY BoundsAssumption DEF WowUp, Inv, Safe, Values
<1>4. TimedOK'
  BY <1>2, JoinedTimed
<1>5. ChainOK' /\ StopOK'
  BY <1>1, <1>2, JoinedChain
<1> QED
  BY <1>2, <1>3, <1>4, <1>5, JoinedSafe

(* The game ends: what is on the chain is followed by a stop.              *)
LEMMA WowDownStep == ASSUME Inv, WowDown PROVE Safe'
<1>1. RunManaged("down") /\ "down" \in JobKinds /\ "down" \in Cutting
  BY DEF WowDown, JobKinds, Cutting
<1>2. Quiet /\ Joins /\ timers' = {} /\ stopped' = stopped
  BY <1>1, Zenon DEF WowDown, Quiet, Joins
<1>3. signals' \in 0..MaxSignals
  BY DEF WowDown, Inv, Safe, Values
<1>4. TimedOK'
  BY <1>1, <1>2, CutJoins
<1>5. /\ chain \in Seq(JobKinds) /\ Len(chain) \in Nat /\ Len(chain') = Len(chain) + 1
      /\ \A i \in 1..Len(chain) : chain'[i] = chain[i]
      /\ chain'[Len(chain) + 1] = "down"
      /\ chain # <<>> => chain'[1] = chain[1] /\ 1 \in 1..Len(chain)
  BY <1>1, RunAt, JoinAt, <1>2 DEF Inv, Safe, Values
<1>7. \A n \in 0..Len(chain) : DownAfter(n)'
  <2> SUFFICES ASSUME NEW n \in 0..Len(chain) PROVE DownAfter(n)'
    OBVIOUS
  <2>1. PICK j : j = Len(chain) + 1
    OBVIOUS
  <2>2. j \in 1..Len(chain') /\ j > n /\ chain'[j] = "down"
    BY <1>5, <2>1
  <2> QED
    BY <2>2 DEF DownAfter
<1>8. ChainOK'
  <2>1. ASSUME NEW i \in 1..Len(chain'), chain'[i] \in {"start", "retry"}
        PROVE  DownAfter(i)'
    <3>1. i \in 0..Len(chain)
      BY <1>5, <2>1
    <3> QED
      BY <1>7, <3>1
  <2>2. ASSUME NEW i \in 1..Len(chain'), chain'[i] = "stop" PROVE stopped'
    BY <1>2, <1>5, <2>2 DEF Inv, Safe, ChainOK
  <2>3. stopped' /\ ~gone' => \E i \in 1..Len(chain') : chain'[i] = "stop"
    BY <1>2, <1>5 DEF Inv, Safe, ChainOK, Quiet
  <2> QED
    BY <2>1, <2>2, <2>3 DEF ChainOK
<1>9. StopOK'
  BY <1>5, <1>7, <1>2 DEF Inv, Safe, StopOK, Wanted, Quiet, obsVars, histVars, backVars
<1> QED
  BY <1>2, <1>3, <1>4, <1>8, <1>9, JoinedSafe

(* stop() is called: it comes behind everything that is on the chain.      *)
LEMMA StopStep == ASSUME Inv, Stop PROVE Safe'
<1>1. RunManaged("stop") /\ "stop" \in JobKinds /\ ~stopped /\ stopped' = TRUE
  BY DEF Stop, JobKinds
<1>2. Quiet /\ Joins /\ timers' = timers /\ running' = running
  BY <1>1, Zenon DEF Stop, Quiet, Joins, recVars
<1>3. signals' \in 0..MaxSignals
  BY DEF Stop, Inv, Safe, Values
<1>4. TimedOK'
  BY <1>2, JoinedTimed
<1>5. /\ chain \in Seq(JobKinds) /\ Len(chain) \in Nat /\ Len(chain') = Len(chain) + 1
      /\ \A i \in 1..Len(chain) : chain'[i] = chain[i]
      /\ chain'[Len(chain) + 1] = "stop"
      /\ chain # <<>> => chain'[1] = chain[1] /\ 1 \in 1..Len(chain)
  BY <1>1, RunAt, JoinAt, <1>2 DEF Inv, Safe, Values
<1>8. ChainOK'
  <2>1. stopped'
    BY <1>1
  <2>2. PICK i : i = Len(chain')
    OBVIOUS
  <2>3. i \in 1..Len(chain') /\ chain'[i] = "stop"
    BY <1>5, <2>2
  <2> QED
    BY <2>1, <2>3 DEF ChainOK
<1>9. StopOK'
  BY <1>1 DEF StopOK
<1> QED
  BY <1>2, <1>3, <1>4, <1>8, <1>9, JoinedSafe

(* A match begins.                                                         *)
LEMMA SegmentOpenStep == ASSUME Inv, SegmentOpen PROVE Safe'
<1>1. /\ RunManaged("open") \/ UNCHANGED chain
      /\ "open" \in JobKinds /\ timers' = timers \ {"idle"}
  BY DEF SegmentOpen, JobKinds, SplitKinds
<1>2. Quiet /\ Joins /\ running' = running /\ stopped' = stopped
  BY <1>1, Zenon DEF SegmentOpen, Quiet, Joins
<1>3. signals' \in 0..MaxSignals
  BY BoundsAssumption DEF SegmentOpen, Inv, Safe, Values
<1>4. TimedOK'
  BY <1>1, <1>2, JoinedTimed
<1>5. ChainOK' /\ StopOK'
  BY <1>1, <1>2, JoinedChain
<1> QED
  BY <1>1, <1>2, <1>3, <1>4, <1>5, JoinedSafe

(* A match ends: the split that was owed is queued.                        *)
LEMMA SegmentCloseStep == ASSUME Inv, SegmentClose PROVE Safe'
<1>1. RunManaged("close") /\ "close" \in JobKinds /\ "close" \in Cutting
  BY DEF SegmentClose, JobKinds, SplitKinds, Cutting
<1>2. Quiet /\ Joins /\ running' = running /\ stopped' = stopped
  BY <1>1, Zenon DEF SegmentClose, Quiet, Joins
<1>3. signals' \in 0..MaxSignals /\ timers' = timers \ {"stuck"}
  BY DEF SegmentClose, Inv, Safe, Values
<1>4. TimedOK'
  BY <1>1, <1>2, CutJoins
<1>5. ChainOK' /\ StopOK'
  BY <1>1, <1>2, JoinedChain
<1> QED
  BY <1>2, <1>3, <1>4, <1>5, JoinedSafe

(* A timer of the chunk fires: it queues the split, or, within a match,    *)
(* arms the one that ends the wait for the end of the match.               *)
LEMMA ChunkTimerStep == ASSUME Inv, IdleFires \/ MaxFires \/ StuckFires PROVE Safe'
<1>1. PICK kind \in SplitKinds :
        /\ RunManaged(kind) \/ UNCHANGED chain
        /\ RunManaged(kind) \/ "stuck" \in timers'
  BY DEF IdleFires, MaxFires, StuckFires, SplitKinds
<1>2. kind \in JobKinds /\ kind \in Cutting /\ kind \notin {"start", "retry", "down", "stop"}
  BY DEF JobKinds, Cutting, SplitKinds
<1>3. Joins
  BY <1>1, <1>2 DEF Joins
<1>4. /\ Quiet /\ running' = running /\ stopped' = stopped
      /\ timers' \subseteq timers \cup {"stuck"} /\ signals' = signals
  BY DEF IdleFires, MaxFires, StuckFires, Quiet
<1>5. TimedOK'
  <2>1. CASE RunManaged(kind)
    BY <1>2, <1>4, <2>1, CutJoins
  <2>2. CASE "stuck" \in timers'
    BY <2>2 DEF TimedOK
  <2> QED
    BY <1>1, <2>1, <2>2
<1>6. ChainOK' /\ StopOK'
  BY <1>1, <1>2, <1>4, JoinedChain
<1>7. signals' \in 0..MaxSignals
  BY <1>4 DEF Inv, Safe, Values
<1> QED
  BY <1>3, <1>4, <1>5, <1>6, <1>7, JoinedSafe

(* The timer of another start fires.                                       *)
LEMMA RetryFiresStep == ASSUME Inv, RetryFires PROVE Safe'
<1>1. /\ RunManaged("retry") \/ UNCHANGED chain
      /\ "retry" \in JobKinds /\ timers' = timers \ {"retry"}
  BY DEF RetryFires, JobKinds
<1>2. Quiet /\ Joins /\ running' = running /\ stopped' = stopped
  BY <1>1, Zenon DEF RetryFires, Quiet, Joins
<1>3. signals' \in 0..MaxSignals
  BY DEF RetryFires, Inv, Safe, Values
<1>4. TimedOK'
  BY <1>1, <1>2, JoinedTimed
<1>5. ChainOK' /\ StopOK'
  <2>1. CASE running
    BY <1>1, <1>2, <2>1, JoinedChain
  <2>2. CASE ~running
    <3>1. UNCHANGED chain /\ "idle" \in JobKinds
      BY <2>2 DEF RetryFires, JobKinds, SplitKinds
    <3> QED
      BY <1>2, <3>1, JoinedChain
  <2> QED
    BY <2>1, <2>2
<1> QED
  BY <1>1, <1>2, <1>3, <1>4, <1>5, JoinedSafe

-----------------------------------------------------------------------------
(* The jobs begin, wait and end.                                           *)

(* When a job ends, what is behind it has moved up.                        *)
LEMMA EndedDown ==
  ASSUME Values, chain # <<>>, EndJob, NEW n \in Nat
  PROVE  DownAfter(n)' <=> DownAfter(n + 1)
<1>1. /\ pc' = "idle" /\ Len(chain) \in Nat /\ Len(chain') = Len(chain) - 1
      /\ \A i \in 1..Len(chain') : i + 1 \in 2..Len(chain) /\ chain'[i] = chain[i + 1]
      /\ \A i \in 2..Len(chain) : i - 1 \in 1..Len(chain') /\ chain[i] = chain'[i - 1]
  BY EndAt DEF Values
<1>2. ASSUME DownAfter(n)' PROVE DownAfter(n + 1)
  BY <1>1, <1>2 DEF DownAfter
<1>3. ASSUME DownAfter(n + 1) PROVE DownAfter(n)'
  <2>1. PICK j \in 1..Len(chain) : j > n + 1 /\ chain[j] = "down"
    BY <1>3 DEF DownAfter
  <2>2. PICK k : k = j - 1
    OBVIOUS
  <2>3. k \in 1..Len(chain') /\ k > n /\ chain'[k] = "down"
    BY <1>1, <2>1, <2>2
  <2> QED
    BY <2>3 DEF DownAfter
<1> QED
  BY <1>2, <1>3

(* The end of a job leaves the order of the chain as it must be.           *)
LEMMA EndedChain ==
  ASSUME Inv, chain # <<>>, EndJob, chain[1] # "stop", UNCHANGED <<running, stopped, gone>>
  PROVE  ChainOK'
<1>1. /\ pc' = "idle" /\ Len(chain) \in Nat /\ Len(chain') = Len(chain) - 1
      /\ \A i \in 1..Len(chain') : i + 1 \in 1..Len(chain) /\ chain'[i] = chain[i + 1]
  BY EndAt DEF Inv, Safe, Values
<1>2. \A n \in Nat : DownAfter(n)' <=> DownAfter(n + 1)
  BY EndedDown DEF Inv, Safe
<1>3. ASSUME NEW i \in 1..Len(chain'), chain'[i] \in {"start", "retry"}
      PROVE  running' \/ DownAfter(i)' \/ stopped'
  <2>1. i \in Nat /\ i + 1 \in 1..Len(chain) /\ chain[i + 1] \in {"start", "retry"}
    BY <1>1, <1>3
  <2>2. running \/ DownAfter(i + 1) \/ stopped
    BY <2>1 DEF Inv, Safe, ChainOK
  <2> QED
    BY <1>2, <2>1, <2>2
<1>4. ASSUME NEW i \in 1..Len(chain'), chain'[i] = "stop" PROVE stopped'
  BY <1>1, <1>4 DEF Inv, Safe, ChainOK
<1>5. ASSUME stopped', ~gone' PROVE \E i \in 1..Len(chain') : chain'[i] = "stop"
  <2>1. PICK i \in 1..Len(chain) : chain[i] = "stop"
    BY <1>5 DEF Inv, Safe, ChainOK
  <2>2. PICK k : k = i - 1
    OBVIOUS
  <2>3. k \in 1..Len(chain') /\ chain'[k] = "stop"
    BY <2>1, <2>2, EndAt DEF Inv, Safe, Values
  <2> QED
    BY <2>3
<1> QED
  BY <1>3, <1>4, <1>5 DEF ChainOK

(* A job other than the end of the game does not take the stop away.       *)
LEMMA EndedStop ==
  ASSUME Inv, chain # <<>>, EndJob, chain[1] # "down", Wanted' => Wanted,
         unstopped' = {} => unstopped = {}, UNCHANGED <<running, stopped, connected>>
  PROVE  StopOK'
<1>1. 0 \in Nat
  OBVIOUS
<1>2. DownAfter(0)' <=> DownAfter(1)
  BY <1>1, EndedDown DEF Inv, Safe
<1>3. DownAfter(0) => DownAfter(1)
  BY DEF Inv, Safe, Values, DownAfter
<1> QED
  BY <1>2, <1>3 DEF Inv, Safe, StopOK

(* Nor does a job that is no cut, or whose cut has had its event, leave a  *)
(* chunk without one.                                                      *)
LEMMA EndedTimed ==
  ASSUME Inv, chain # <<>>, EndJob, chain[1] \notin Cutting \/ waiter = "hit",
         current' = current \/ current' = 0, waiter' # "hit",
         timers \subseteq timers', UNCHANGED gone
  PROVE  TimedOK'
<1>1. /\ Len(chain) \in Nat
      /\ \A i \in 2..Len(chain) : i - 1 \in 1..Len(chain') /\ chain[i] = chain'[i - 1]
  BY EndAt DEF Inv, Safe, Values
<1>2. ASSUME NEW i \in 1..Len(chain), Cuts(i) PROVE TimedOK'
  <2>1. i \in 2..Len(chain) /\ chain[i] \in Cutting
    BY <1>1, <1>2 DEF Cuts
  <2>2. PICK k : k = i - 1
    OBVIOUS
  <2>3. k \in 1..Len(chain') /\ Cuts(k)'
    BY <1>1, <2>1, <2>2 DEF Cuts
  <2> QED
    BY <2>3 DEF TimedOK
<1> QED
  BY <1>2 DEF Inv, Safe, TimedOK

(* An idle recorder has no call out and no split that waits.               *)
LEMMA IdleCall ==
  ASSUME pc' = "idle", waiter' = "none"
  PROVE  CallOK'
BY DEF CallOK, Calls

(* startContinuous returns at once.                                        *)
LEMMA StartAtOnceStep == ASSUME Inv, StartAtOnce PROVE Safe'
<1> USE DEF Inv, Safe
<1>1. pc = "idle" /\ chain # <<>> /\ chain[1] \in {"start", "retry"}
  BY BeginAt DEF StartAtOnce, Values
<1>2. /\ EndJob /\ timers \subseteq timers' /\ timers' \subseteq timers \cup {"retry"}
      /\ UNCHANGED <<running, stopped, gone, backVars, waitVars, obsVars, asked, row, signals,
                     histVars>>
  BY DEF StartAtOnce, StartEnds
<1> USE DEF backVars, waitVars, obsVars, histVars
<1>3. waiter = "none" /\ chain[1] \notin Cutting
  BY <1>1 DEF CallOK, Values, Cutting, SplitKinds
<1>4. Values'
  BY <1>1, <1>2, EndAt DEF Values
<1>5. ObsOK' /\ BackOK' /\ RowsAreTrue'
  BY <1>2 DEF ObsOK, BackOK, RowsAreTrue, ClosingNow
<1>6. CallOK'
  BY <1>2, <1>3, IdleCall DEF EndJob
<1>7. TimedOK'
  BY <1>1, <1>2, <1>3, EndedTimed
<1>8. ChainOK'
  BY <1>1, <1>2, EndedChain
<1>9. StopOK'
  <2>1. Wanted' => Wanted
    BY <1>2 DEF Wanted
  <2> QED
    BY <1>1, <1>2, <2>1, EndedStop
<1> QED
  BY <1>4, <1>5, <1>6, <1>7, <1>8, <1>9

(* A request keeps the chain, and nothing else asks OBS to record than a   *)
(* start.                                                                  *)
LEMMA AskedWanted ==
  ASSUME Values, NEW request \in Requests, Ask(request), UNCHANGED obsVars
  PROVE  Wanted' => Wanted \/ request = "StartRecord"
<1>1. /\ Len(asked) \in Nat /\ Len(asked') = Len(asked) + 1
      /\ asked'[Len(asked')] = request
      /\ \A i \in 1..Len(asked) : asked'[i] = asked[i]
  BY AskAt DEF Values
<1> QED
  BY <1>1 DEF Wanted, obsVars

(* StartRecord is asked for: the game is up, or its end is on the chain.   *)
LEMMA StartAsksStep == ASSUME Inv, StartAsks PROVE Safe'
<1> USE DEF Inv, Safe
<1>1. pc = "idle" /\ chain # <<>> /\ chain[1] \in {"start", "retry"}
  BY BeginAt DEF StartAsks, Values
<1>2. /\ Ask("StartRecord") /\ pc' = "startCall" /\ connected' = TRUE /\ ~active
      /\ UNCHANGED <<recVars, chain, stopped, gone, active, current, waitVars, obsVars, row,
                     signals, histVars>>
  BY DEF StartAsks
<1> USE DEF recVars, waitVars, obsVars, histVars
<1>3. /\ asked' \in Seq(Requests) /\ asked' # <<>>
      /\ asked'[Len(asked')] = "StartRecord"
  BY <1>2, AskAt DEF Values, Requests
<1>4. waiter = "none"
  BY <1>1 DEF CallOK, Values
<1>5. Values'
  BY <1>2, <1>3 DEF Values
<1>6. ObsOK' /\ RowsAreTrue'
  BY <1>2 DEF ObsOK, RowsAreTrue, ClosingNow
<1>7. BackOK'
  BY <1>2 DEF BackOK
<1>8. CallOK'
  BY <1>1, <1>2, <1>3, <1>4 DEF CallOK, Calls, RequestOf, JobFits
<1>9. TimedOK'
  BY <1>2 DEF TimedOK, Cuts
<1>10. ChainOK'
  BY <1>1, <1>2 DEF ChainOK, DownAfter
<1>11. StopOK'
  <2>1. running \/ DownAfter(1) \/ stopped
    BY <1>1 DEF ChainOK, Values
  <2> QED
    BY <1>2, <2>1 DEF StopOK, DownAfter
<1> QED
  BY <1>5, <1>6, <1>7, <1>8, <1>9, <1>10, <1>11

(* The wait for the first chunk is over: it is there, or OBS is asked.     *)
LEMMA StartWaitedStep == ASSUME Inv, StartWaited PROVE Safe'
<1> USE DEF Inv, Safe
<1>1. /\ pc = "startWait" /\ chain # <<>> /\ chain[1] \in {"start", "retry"}
      /\ asked = <<>> /\ NoChange /\ waiter = "none"
  BY DEF StartWaited, CallOK, JobFits, Values
<1>2. UNCHANGED <<running, timers, stopped, gone, backVars, waitVars, obsVars, row, signals,
                  histVars>>
  BY DEF StartWaited
<1> USE DEF backVars, waitVars, obsVars, histVars
<1>3. ObsOK' /\ BackOK' /\ RowsAreTrue'
  BY <1>2 DEF ObsOK, BackOK, RowsAreTrue, ClosingNow
<1>4. CASE EndJob /\ UNCHANGED asked
  <2>1. Values'
    BY <1>1, <1>2, <1>4, EndAt DEF Values
  <2>2. CallOK'
    BY <1>1, <1>2, <1>4, IdleCall DEF EndJob
  <2>3. TimedOK'
    <3>1. chain[1] \notin Cutting
      BY <1>1 DEF Cutting, SplitKinds
    <3> QED
      BY <1>1, <1>2, <1>4, <3>1, EndedTimed
  <2>4. ChainOK'
    BY <1>1, <1>2, <1>4, EndedChain
  <2>5. StopOK'
    <3>1. Wanted' => Wanted
      BY <1>2, <1>4 DEF Wanted
    <3> QED
      BY <1>1, <1>2, <1>4, <3>1, EndedStop
  <2> QED
    BY <1>3, <2>1, <2>2, <2>3, <2>4, <2>5
<1>5. CASE pc' = "startCheck" /\ Ask("GetRecordStatus") /\ UNCHANGED chain
  <2>1. /\ asked' \in Seq(Requests) /\ asked' # <<>> /\ Len(asked') = 1
        /\ asked'[Len(asked')] = "GetRecordStatus"
    BY <1>1, <1>5, AskAt DEF Values, Requests
  <2>2. Values'
    BY <1>2, <1>5, <2>1 DEF Values
  <2>3. CallOK'
    BY <1>1, <1>2, <1>5, <2>1 DEF CallOK, Calls, RequestOf, JobFits, NoChange
  <2>4. TimedOK'
    BY <1>2, <1>5 DEF TimedOK, Cuts
  <2>5. ChainOK'
    BY <1>2, <1>5 DEF ChainOK, DownAfter
  <2>6. StopOK'
    <3>1. Wanted' => Wanted
      BY <1>2, <1>5, AskedWanted DEF Requests
    <3> QED
      BY <1>2, <1>5, <3>1 DEF StopOK, DownAfter
  <2> QED
    BY <1>3, <2>2, <2>3, <2>4, <2>5, <2>6
<1> QED
  BY <1>4, <1>5 DEF StartWaited, StartEnds

(* A split ends: with the chunk closed in the index when its event has     *)
(* come, or with the timers armed.                                         *)
LEMMA SplitEnds ==
  ASSUME Inv, chain # <<>>, chain[1] \in SplitKinds, NEW closed \in Nat, Split(closed),
         closed = 0 \/ (closed = expected /\ waiter = "hit"),
         UNCHANGED <<running, stopped, gone, backVars, unstopped>>, Wanted' => Wanted
  PROVE  /\ chain' \in Seq(JobKinds) /\ row' \in [Files -> {"none", "open", "closed"}]
         /\ timers' \subseteq {"idle", "max", "stuck", "retry"}
         /\ CallOK' /\ TimedOK' /\ ChainOK' /\ StopOK'
<1> USE DEF Inv, Safe
<1>1. EndJob /\ waiter' = "none" /\ expected' = 0 /\ pc' = "idle"
  BY DEF Split, EndJob
<1>2. chain' \in Seq(JobKinds)
  BY <1>1, EndAt DEF Values
<1>3. row' \in [Files -> {"none", "open", "closed"}]
  BY DEF Split, Values
<1>4. timers' \subseteq {"idle", "max", "stuck", "retry"}
  BY DEF Split, Values, Rearmed
<1>5. CallOK'
  BY <1>1, IdleCall
<1>6. TimedOK'
  <2>1. CASE closed = 0
    BY <2>1 DEF Split, TimedOK, Rearmed
  <2>2. CASE closed # 0
    BY <1>1, <2>2, EndedTimed DEF Split, backVars
  <2> QED
    BY <2>1, <2>2
<1>7. ChainOK'
  BY <1>1, EndedChain DEF SplitKinds
<1>8. StopOK'
  BY <1>1, EndedStop DEF SplitKinds, backVars
<1> QED
  BY <1>2, <1>3, <1>4, <1>5, <1>6, <1>7, <1>8

(* Without a connection a split only arms the timers.                      *)
LEMMA SplitUnconnectedStep == ASSUME Inv, SplitUnconnected PROVE Safe'
<1> USE DEF Inv, Safe
<1>1. pc = "idle" /\ chain # <<>> /\ chain[1] \in SplitKinds
  BY BeginAt DEF SplitUnconnected, Values
<1>2. /\ Split(0) /\ row' = row /\ waiter' = "none" /\ expected' = 0 /\ pc' = "idle"
      /\ UNCHANGED <<running, stopped, gone, backVars, stale, obsVars, asked, signals, histVars>>
  BY DEF SplitUnconnected, Split, EndJob
<1>3. waiter = "none"
  BY <1>1 DEF CallOK, Values
<1>4. Wanted' => Wanted
  BY <1>2 DEF Wanted, obsVars
<1>5. /\ chain' \in Seq(JobKinds) /\ row' \in [Files -> {"none", "open", "closed"}]
      /\ timers' \subseteq {"idle", "max", "stuck", "retry"}
      /\ CallOK' /\ TimedOK' /\ ChainOK' /\ StopOK'
  <2>1. 0 \in Nat /\ UNCHANGED <<running, stopped, gone, backVars, unstopped>>
    BY <1>2 DEF histVars
  <2> QED
    BY <1>1, <1>2, <1>4, <2>1, SplitEnds
<1>6. Values'
  BY <1>2, <1>5, BoundsAssumption DEF Values, backVars, obsVars, histVars
<1>7. ObsOK' /\ BackOK' /\ RowsAreTrue'
  BY <1>2, <1>3 DEF ObsOK, BackOK, RowsAreTrue, ClosingNow, Values, backVars, obsVars, histVars
<1> QED
  BY <1>5, <1>6, <1>7

(* SplitRecordFile is asked for, and its event is waited for.              *)
LEMMA SplitAsksStep == ASSUME Inv, SplitAsks PROVE Safe'
<1> USE DEF Inv, Safe
<1>1. pc = "idle" /\ chain # <<>> /\ chain[1] \in SplitKinds
  BY BeginAt DEF SplitAsks, Values
<1>2. /\ connected /\ waiter' = "armed" /\ expected' = current
      /\ Ask("SplitRecordFile") /\ pc' = "splitCall"
      /\ UNCHANGED <<recVars, chain, stopped, gone, backVars, stale, obsVars, row, signals,
                     histVars>>
  BY DEF SplitAsks
<1> USE DEF recVars, backVars, obsVars, histVars
<1>3. /\ asked' \in Seq(Requests) /\ asked' # <<>>
      /\ asked'[Len(asked')] = "SplitRecordFile"
  BY <1>2, AskAt DEF Values, Requests
<1>4. waiter = "none"
  BY <1>1 DEF CallOK, Values
<1>5. Values'
  BY <1>2, <1>3 DEF Values
<1>6. ObsOK' /\ BackOK' /\ RowsAreTrue'
  BY <1>2, <1>4 DEF ObsOK, BackOK, RowsAreTrue, ClosingNow
<1>7. CallOK'
  BY <1>1, <1>2, <1>3 DEF CallOK, Calls, RequestOf, JobFits, SplitKinds
<1>8. TimedOK'
  BY <1>2, <1>4 DEF TimedOK, Cuts
<1>9. ChainOK'
  BY <1>2 DEF ChainOK, DownAfter
<1>10. StopOK'
  <2>1. Wanted' => Wanted
    BY <1>2, AskedWanted DEF Requests
  <2> QED
    BY <1>2, <2>1 DEF StopOK, DownAfter
<1> QED
  BY <1>5, <1>6, <1>7, <1>8, <1>9, <1>10

(* The wait for the event of a split runs out.                             *)
LEMMA SplitWaitExpiresStep == ASSUME Inv, SplitWaitExpires PROVE Safe'
<1> USE DEF Inv, Safe
<1>1. /\ waiter = "armed" /\ connected /\ chain # <<>> /\ chain[1] \in SplitKinds
      /\ pc \in {"splitCall", "splitWait"}
  BY DEF SplitWaitExpires, CallOK, JobFits
<1>2. /\ stale' \subseteq 0..MaxFiles
      /\ UNCHANGED <<running, stopped, gone, backVars, obsVars, asked, signals, histVars>>
  BY DEF SplitWaitExpires, Values
<1> USE DEF backVars, obsVars, histVars
<1>3. CASE pc = "splitCall" /\ waiter' = "expired" /\ UNCHANGED <<expected, chain, pc, row, timers>>
  <2>1. Values'
    BY <1>2, <1>3 DEF Values
  <2>2. ObsOK' /\ BackOK' /\ RowsAreTrue'
    BY <1>1, <1>2, <1>3 DEF ObsOK, BackOK, RowsAreTrue, ClosingNow
  <2>3. CallOK'
    BY <1>2, <1>3 DEF CallOK, NoChange
  <2>4. TimedOK'
    BY <1>2, <1>3 DEF TimedOK, Cuts
  <2>5. ChainOK' /\ StopOK'
    BY <1>2, <1>3 DEF ChainOK, StopOK, Wanted, DownAfter
  <2> QED
    BY <2>1, <2>2, <2>3, <2>4, <2>5
<1>4. CASE Split(0)
  <2>1. row' = row /\ waiter' = "none" /\ expected' = 0 /\ pc' = "idle"
    BY <1>4 DEF Split, EndJob
  <2>2. Wanted' => Wanted
    BY <1>2 DEF Wanted
  <2>3. /\ chain' \in Seq(JobKinds) /\ row' \in [Files -> {"none", "open", "closed"}]
        /\ timers' \subseteq {"idle", "max", "stuck", "retry"}
        /\ CallOK' /\ TimedOK' /\ ChainOK' /\ StopOK'
    <3>1. 0 \in Nat /\ UNCHANGED <<running, stopped, gone, backVars, unstopped>>
      BY <1>2
    <3> QED
      BY <1>1, <1>4, <2>2, <3>1, SplitEnds
  <2>4. Values'
    BY <1>2, <2>1, <2>3, BoundsAssumption DEF Values
  <2>5. ObsOK' /\ BackOK' /\ RowsAreTrue'
    BY <1>1, <1>2, <2>1 DEF ObsOK, BackOK, RowsAreTrue, ClosingNow, Values
  <2> QED
    BY <2>3, <2>4, <2>5
<1> QED
  BY <1>3, <1>4 DEF SplitWaitExpires

(* StopRecord is asked for: from now on the job cuts the chunk.            *)
LEMMA StopAsksStep == ASSUME Inv, StopAsks PROVE Safe'
<1> USE DEF Inv, Safe
<1>1. pc = "idle" /\ chain # <<>> /\ chain[1] \in {"down", "stop"} /\ Job = chain[1]
  BY BeginAt DEF StopAsks, Values
<1>2. /\ connected /\ (chain[1] = "stop" => running)
      /\ Ask("StopRecord") /\ pc' = "stopCall"
      /\ timers' \subseteq timers
      /\ UNCHANGED <<running, chain, stopped, gone, backVars, waitVars, obsVars, row, signals,
                     histVars>>
  BY <1>1 DEF StopAsks
<1> USE DEF backVars, waitVars, obsVars, histVars
<1>3. /\ asked' \in Seq(Requests) /\ asked' # <<>>
      /\ asked'[Len(asked')] = "StopRecord"
  BY <1>2, AskAt DEF Values, Requests
<1>4. waiter = "none"
  BY <1>1 DEF CallOK, Values
<1>5. Values'
  BY <1>2, <1>3 DEF Values
<1>6. ObsOK' /\ BackOK' /\ RowsAreTrue'
  BY <1>2 DEF ObsOK, BackOK, RowsAreTrue, ClosingNow
<1>7. CallOK'
  BY <1>1, <1>2, <1>3, <1>4 DEF CallOK, Calls, RequestOf, JobFits
<1>8. TimedOK'
  <2>1. 1 \in 1..Len(chain') /\ Cuts(1)'
    BY <1>1, <1>2, <1>4 DEF Cuts, Cutting, Values
  <2> QED
    BY <2>1 DEF TimedOK
<1>9. ChainOK'
  BY <1>2 DEF ChainOK, DownAfter
<1>10. StopOK'
  <2>1. Wanted' => Wanted
    BY <1>2, AskedWanted DEF Requests
  <2> QED
    BY <1>2, <2>1 DEF StopOK, DownAfter
<1> QED
  BY <1>5, <1>6, <1>7, <1>8, <1>9, <1>10

(* stop() finds the game down or no connection: it goes on to close the    *)
(* socket and to end OBS.                                                  *)
LEMMA StopAtOnceStep == ASSUME Inv, StopAtOnce PROVE Safe'
<1> USE DEF Inv, Safe
<1>1. pc = "idle" /\ chain # <<>> /\ chain[1] = "stop"
  BY BeginAt DEF StopAtOnce, Values
<1>2. /\ timers' = {} /\ pc' = IF connected THEN "disconnect" ELSE "processStop"
      /\ UNCHANGED <<running, chain, stopped, gone, backVars, waitVars, obsVars, asked, row,
                     signals, histVars>>
  BY DEF StopAtOnce
<1> USE DEF backVars, waitVars, obsVars, histVars
<1>3. waiter = "none"
  BY <1>1 DEF CallOK, Values
<1>4. Values'
  BY <1>2 DEF Values
<1>5. ObsOK' /\ BackOK' /\ RowsAreTrue'
  BY <1>2 DEF ObsOK, BackOK, RowsAreTrue, ClosingNow
<1>6. CallOK'
  BY <1>1, <1>2, <1>3 DEF CallOK, Calls, JobFits
<1>7. TimedOK'
  <2>1. 1 \in 1..Len(chain') /\ Cuts(1)'
    BY <1>1, <1>2, <1>3 DEF Cuts, Cutting, Values
  <2> QED
    BY <2>1 DEF TimedOK
<1>8. ChainOK' /\ StopOK'
  BY <1>2 DEF ChainOK, StopOK, Wanted, DownAfter
<1> QED
  BY <1>4, <1>5, <1>6, <1>7, <1>8

(* The socket is closed, or disconnect() timed out: the chunk that was     *)
(* current is nobody's any more.                                           *)
LEMMA DisconnectedStep == ASSUME Inv, Disconnected PROVE Safe'
<1> USE DEF Inv, Safe
<1>1. pc = "disconnect" /\ chain # <<>> /\ chain[1] = "stop" /\ waiter = "none"
  BY DEF Disconnected, CallOK, JobFits, Values
<1>2. /\ current' = 0 /\ unclaimed' = unclaimed \cup ({current} \ {0})
      /\ pc' = "processStop"
      /\ UNCHANGED <<recVars, chain, stopped, gone, waitVars, obsVars, asked, row, signals,
                     unstopped>>
  BY DEF Disconnected
<1> USE DEF recVars, waitVars, obsVars
<1>3. Values'
  BY <1>2, BoundsAssumption DEF Values, Files
<1>4. ObsOK'
  BY <1>2 DEF ObsOK
<1>5. BackOK'
  BY <1>2, BoundsAssumption DEF BackOK, ObsOK, Values, WireType, Files
<1>6. RowsAreTrue'
  BY <1>1, <1>2 DEF RowsAreTrue, ClosingNow, Files
<1>7. CallOK'
  BY <1>1, <1>2 DEF CallOK, Calls, JobFits
<1>8. TimedOK'
  BY <1>2 DEF TimedOK
<1>9. ChainOK'
  BY <1>2 DEF ChainOK, DownAfter
<1>10. StopOK'
  <2>1. stopped
    BY <1>1 DEF ChainOK, Values
  <2> QED
    BY <1>2, <2>1 DEF StopOK
<1> QED
  BY <1>3, <1>4, <1>5, <1>6, <1>7, <1>8, <1>9, <1>10

(* OBS is ended: nothing is recorded, and no chunk is anybody's.           *)
LEMMA ProcessStoppedStep == ASSUME Inv, ProcessStopped PROVE Safe'
<1> USE DEF Inv, Safe
<1>1. pc = "processStop" /\ chain # <<>> /\ chain[1] = "stop" /\ waiter = "none"
  BY DEF ProcessStopped, CallOK, JobFits, Values
<1>2. stopped
  BY <1>1 DEF ChainOK, Values
<1>3. /\ gone' = TRUE /\ obs' = 0 /\ due' = 0 /\ wire' = <<>> /\ asked' = <<>> /\ EndJob
      /\ unclaimed' = unclaimed \cup ({current} \ {0})
      /\ UNCHANGED <<timers, stopped, connected, active, current, waitVars, files, row,
                     signals, unstopped>>
  BY DEF ProcessStopped
<1> USE DEF waitVars
<1>4. /\ chain' \in Seq(JobKinds) /\ pc' = "idle" /\ Len(chain') = Len(chain) - 1
      /\ Len(chain) \in Nat
      /\ \A i \in 1..Len(chain') : i + 1 \in 2..Len(chain) /\ chain'[i] = chain[i + 1]
  BY <1>1, <1>3, EndAt DEF Values
<1>5. Values'
  BY <1>3, <1>4, BoundsAssumption DEF Values, Files
<1>6. ObsOK'
  BY <1>3, BoundsAssumption DEF ObsOK, Values
<1>7. BackOK'
  BY <1>3 DEF BackOK
<1>8. RowsAreTrue'
  BY <1>1, <1>3 DEF RowsAreTrue, ClosingNow, Files
<1>9. CallOK'
  BY <1>1, <1>3, <1>4, IdleCall
<1>10. TimedOK' /\ StopOK'
  BY <1>2, <1>3 DEF TimedOK, StopOK
<1>11. ChainOK'
  BY <1>2, <1>3 DEF ChainOK
<1> QED
  BY <1>5, <1>6, <1>7, <1>8, <1>9, <1>10, <1>11

(* The end of the game finds no connection: OBS was never asked, or stop() *)
(* has ended it.                                                           *)
LEMMA DownUnconnectedStep == ASSUME Inv, DownUnconnected PROVE Safe'
<1> USE DEF Inv, Safe
<1>1. pc = "idle" /\ chain # <<>> /\ chain[1] = "down"
  BY BeginAt DEF DownUnconnected, Values
<1>2. /\ ~connected /\ EndJob
      /\ \/ UNCHANGED <<current, row>>
         \/ current # 0 /\ row' = [row EXCEPT ![current] = "closed"] /\ current' = 0
      /\ UNCHANGED <<recVars, stopped, gone, connected, hears, active, waitVars, obsVars,
                     asked, signals, histVars>>
  BY DEF DownUnconnected
<1> USE DEF recVars, waitVars, obsVars, histVars
<1>3. waiter = "none" /\ (current # 0 => gone /\ obs = 0 /\ wire = <<>>)
  BY <1>1, <1>2 DEF CallOK, EndOK, Values
<1>4. Values'
  BY <1>1, <1>2, EndAt, BoundsAssumption DEF Values
<1>5. ObsOK' /\ BackOK'
  <2>1. ObsOK'
    BY <1>2 DEF ObsOK
  <2>2. CASE UNCHANGED <<current, row>>
    BY <1>2, <2>1, <2>2 DEF BackOK
  <2>3. CASE current # 0 /\ current' = 0 /\ row' = [row EXCEPT ![current] = "closed"]
    <3>1. wire' = <<>> /\ expected' = expected /\ files' = files /\ current <= files
      BY <1>2, <1>3, <2>3 DEF BackOK
    <3>2. \A f \in Files : row'[f] # "none" => f <= files
      BY <2>3, <3>1 DEF BackOK, Values
    <3> QED
      BY <2>1, <2>3, <3>1, <3>2 DEF BackOK, Values
  <2> QED
    BY <1>2, <2>2, <2>3
<1>6. RowsAreTrue'
  <2>1. CASE UNCHANGED <<current, row>>
    BY <1>2, <2>1 DEF RowsAreTrue, ClosingNow
  <2>2. CASE current # 0
    BY <1>2, <1>3, <2>2 DEF RowsAreTrue, ClosingNow, Values, Files
  <2> QED
    BY <1>2, <2>1, <2>2
<1>7. CallOK'
  BY <1>1, <1>2, <1>3, IdleCall DEF EndJob
<1>8. TimedOK'
  BY <1>2, <1>3 DEF TimedOK
<1>9. ChainOK'
  BY <1>1, <1>2, EndedChain
<1>10. StopOK'
  BY <1>2 DEF StopOK, Wanted
<1> QED
  BY <1>4, <1>5, <1>6, <1>7, <1>8, <1>9, <1>10

(* A job finds the backend taken away.                                     *)
LEMMA NoBackendStep == ASSUME Inv, NoBackend PROVE Safe'
<1> USE DEF Inv, Safe
<1>1. /\ pc = "idle" /\ chain # <<>> /\ gone
      /\ chain[1] \in SplitKinds \cup {"start", "retry", "down"}
  BY BeginAt DEF NoBackend, Values
<1>2. /\ EndJob
      /\ UNCHANGED <<recVars, stopped, gone, backVars, waitVars, obsVars, asked, row, signals,
                     histVars>>
  BY DEF NoBackend
<1> USE DEF recVars, backVars, waitVars, obsVars, histVars
<1>3. waiter = "none" /\ stopped /\ chain[1] # "stop"
  BY <1>1 DEF CallOK, EndOK, Values, SplitKinds
<1>4. Values'
  BY <1>1, <1>2, EndAt DEF Values
<1>5. ObsOK' /\ BackOK' /\ RowsAreTrue'
  BY <1>2 DEF ObsOK, BackOK, RowsAreTrue, ClosingNow
<1>6. CallOK'
  BY <1>2, <1>3, IdleCall DEF EndJob
<1>7. TimedOK' /\ StopOK'
  BY <1>1, <1>2, <1>3 DEF TimedOK, StopOK
<1>8. ChainOK'
  BY <1>1, <1>2, <1>3, EndedChain
<1> QED
  BY <1>4, <1>5, <1>6, <1>7, <1>8

-----------------------------------------------------------------------------
(* Events.                                                                 *)

(* A first chunk becomes the current one, with the timer that cuts it, or  *)
(* nothing happens.                                                        *)
LEMMA FirstChunkAt ==
  ASSUME Values, NEW f \in Files, FirstChunk(f)
  PROVE  /\ timers' \subseteq {"idle", "max", "stuck", "retry"}
         /\ row' \in [Files -> {"none", "open", "closed"}]
         /\ current' \in 0..MaxFiles
         /\ \/ UNCHANGED <<current, row, timers>>
            \/ /\ pc # "stopCall" /\ hears /\ current = 0 /\ current' = f
               /\ row' = [row EXCEPT ![f] = "open"] /\ "max" \in timers'
<1>1. CASE pc = "stopCall" \/ current # 0 \/ ~hears
  BY <1>1 DEF FirstChunk, Values
<1>2. CASE ~(pc = "stopCall" \/ current # 0 \/ ~hears)
  <2>1. current' = f /\ row' = [row EXCEPT ![f] = "open"] /\ timers' = Rearmed(timers)
    BY <1>2 DEF FirstChunk, Opened
  <2> QED
    BY <1>2, <2>1 DEF Rearmed, Values, Files
<1> QED
  BY <1>1, <1>2

(* The event leaves the wire in order.                                     *)
LEMMA Delivered ==
  ASSUME Inv, Deliver, UNCHANGED <<obs, files, due>>
  PROVE  ObsOK' /\ (NoChange => NoChange')
<1>1. /\ Len(wire) \in Nat /\ Len(wire) > 0 /\ Len(wire') = Len(wire) - 1
      /\ \A i \in 1..Len(wire') : i + 1 \in 1..Len(wire) /\ wire'[i] = wire[i + 1]
  BY WireAt DEF Inv, Safe, Values
<1>2. \A i \in 1..Len(wire') : wire'[i][2] <= files
  BY <1>1 DEF Inv, Safe, ObsOK
<1>3. ASSUME NEW i \in 1..Len(wire'), NEW j \in 1..Len(wire'), i < j
      PROVE  wire'[i][2] < wire'[j][2]
  <2>1. i + 1 \in 1..Len(wire) /\ j + 1 \in 1..Len(wire) /\ i + 1 < j + 1
    BY <1>1, <1>3
  <2>2. wire[i + 1][2] < wire[j + 1][2]
    BY <2>1 DEF Inv, Safe, ObsOK
  <2> QED
    BY <1>1, <2>2
<1>4. NoChange => NoChange'
  BY <1>1 DEF NoChange
<1> QED
  BY <1>2, <1>3, <1>4 DEF Inv, Safe, ObsOK

(* The events behind the one delivered are of later files.                 *)
LEMMA LaterFiles ==
  ASSUME Inv, Deliver, NEW i \in 1..Len(wire')
  PROVE  /\ wire[1][2] < wire'[i][2]
         /\ wire'[i][1] = "changed" => current < wire'[i][2]
<1>1. /\ Len(wire) \in Nat /\ 1 \in 1..Len(wire)
      /\ i + 1 \in 1..Len(wire) /\ 1 < i + 1 /\ wire'[i] = wire[i + 1]
  BY WireAt DEF Inv, Safe, Values
<1>2. wire[1][2] < wire[i + 1][2]
  BY <1>1 DEF Inv, Safe, ObsOK
<1>3. wire[i + 1][1] = "changed" => current < wire[i + 1][2]
  BY <1>1 DEF Inv, Safe, BackOK
<1> QED
  BY <1>1, <1>2, <1>3

(* OBS announces a first file.                                             *)
LEMMA StartedEventStep == ASSUME Inv, StartedEvent PROVE Safe'
<1> USE DEF Inv, Safe
<1>1. /\ Deliver /\ UNCHANGED <<running, chain, pc, stopped, gone, connected, hears, active, waitVars, obs,
                                files, due, asked, signals, histVars>>
  BY DEF StartedEvent
<1>2. /\ Head(wire)[2] \in Files /\ Head(wire) = wire[1] /\ wire' \in Seq(WireType)
      /\ Len(wire) \in Nat /\ Len(wire) > 0
  BY <1>1, WireAt DEF Values
<1>3. PICK f \in Files : f = wire[1][2] /\ FirstChunk(f)
  BY <1>2 DEF StartedEvent
<1>4. f <= files
  BY <1>2, <1>3 DEF ObsOK
<1>5. /\ timers' \subseteq {"idle", "max", "stuck", "retry"}
      /\ row' \in [Files -> {"none", "open", "closed"}]
      /\ current' \in 0..MaxFiles
      /\ \/ UNCHANGED <<current, row, timers>>
         \/ /\ pc # "stopCall" /\ hears /\ current = 0 /\ current' = f
            /\ row' = [row EXCEPT ![f] = "open"] /\ "max" \in timers'
  BY <1>3, FirstChunkAt
<1> USE DEF waitVars, histVars
<1>6. Values'
  BY <1>1, <1>2, <1>5 DEF Values
<1>7. ObsOK' /\ (NoChange => NoChange')
  BY <1>1, Delivered
<1>8. BackOK'
  <2>1. \A i \in 1..Len(wire') : f < wire'[i][2]
                                 /\ (wire'[i][1] = "changed" => current < wire'[i][2])
    BY <1>1, <1>3, LaterFiles
  <2> QED
    BY <1>1, <1>4, <1>5, <2>1 DEF BackOK, Values
<1>9. RowsAreTrue'
  BY <1>1, <1>5 DEF RowsAreTrue, ClosingNow, Values, Files, EndOK
<1>10. CallOK'
  BY <1>1, <1>7 DEF CallOK
<1>11. TimedOK'
  BY <1>1, <1>5 DEF TimedOK, Cuts
<1>12. ChainOK' /\ StopOK'
  BY <1>1 DEF ChainOK, StopOK, Wanted, DownAfter
<1> QED
  BY <1>6, <1>7, <1>8, <1>9, <1>10, <1>11, <1>12

(* OBS goes over to another file: the event tells which one ended, and a   *)
(* split that waits takes it only if it is the file it set out to end.     *)
LEMMA ChangedEventStep == ASSUME Inv, ChangedEvent PROVE Safe'
<1> USE DEF Inv, Safe
<1>1. /\ Deliver /\ Head(wire)[1] = "changed"
      /\ UNCHANGED <<running, stopped, gone, connected, hears, active, obs, files, due, asked, signals,
                     unstopped>>
  BY DEF ChangedEvent
<1>2. /\ Head(wire)[2] \in Files /\ Head(wire) = wire[1] /\ wire' \in Seq(WireType)
      /\ Len(wire) \in Nat /\ 1 \in 1..Len(wire)
  BY <1>1, WireAt DEF Values
<1>3. PICK f \in Files : f = Head(wire)[2]
  BY <1>2
<1>4. f <= files /\ current < f
  BY <1>1, <1>2, <1>3 DEF ObsOK, BackOK
<1>5. ObsOK' /\ (NoChange => NoChange')
  BY <1>1, Delivered
<1>6. \A i \in 1..Len(wire') : f < wire'[i][2]
                               /\ (wire'[i][1] = "changed" => current < wire'[i][2])
  BY <1>1, <1>2, <1>3, LaterFiles
<1>7. CASE UNCHANGED <<current, timers, row, waitVars, chain, pc, unclaimed>>
  <2> USE DEF waitVars
  <2>1. Values'
    BY <1>1, <1>2, <1>7 DEF Values
  <2>2. BackOK'
    BY <1>1, <1>6, <1>7 DEF BackOK
  <2>3. RowsAreTrue'
    BY <1>1, <1>7 DEF RowsAreTrue, ClosingNow
  <2>4. CallOK'
    BY <1>1, <1>5, <1>7 DEF CallOK
  <2>5. TimedOK'
    BY <1>1, <1>7 DEF TimedOK, Cuts
  <2>6. ChainOK' /\ StopOK'
    BY <1>1, <1>7 DEF ChainOK, StopOK, Wanted, DownAfter
  <2> QED
    BY <1>5, <2>1, <2>2, <2>3, <2>4, <2>5, <2>6
<1>8. CASE ~(pc = "stopCall" \/ ~hears)
  <2>1. /\ current' = f /\ stale' = stale \ {current}
        /\ unclaimed' = IF Claims(current) \/ current = 0 THEN unclaimed
                        ELSE unclaimed \cup {current}
        /\ timers' = Rearmed(timers)
    BY <1>3, <1>8 DEF ChangedEvent
  <2>2. "max" \in timers' /\ timers' \subseteq {"idle", "max", "stuck", "retry"}
    BY <2>1 DEF Rearmed, Values
  <2>3. unclaimed' \subseteq Files /\ stale' \subseteq 0..MaxFiles /\ current' \in 0..MaxFiles
    BY <2>1 DEF Values, Files
  <2>4. TimedOK' /\ ~gone'
    BY <1>1, <1>8, <2>2 DEF TimedOK, EndOK
  <2>5. CASE Claims(current) /\ pc = "splitWait"
    <3>1. /\ waiter' = "none" /\ expected' = 0 /\ EndJob /\ pc' = "idle"
          /\ row' = [g \in Files |-> IF g = f THEN "open"
                                     ELSE IF g = current THEN "closed" ELSE row[g]]
      BY <1>3, <1>8, <2>5 DEF ChangedEvent, EndJob
    <3>2. chain # <<>> /\ chain[1] \in SplitKinds /\ waiter = "armed"
      BY <2>5 DEF CallOK, JobFits, Claims
    <3>3. Values'
      BY <1>1, <1>2, <2>2, <2>3, <3>1, <3>2, EndAt, BoundsAssumption DEF Values
    <3>4. BackOK'
      <4>1. \A g \in Files : row'[g] # "none" => g <= files
        BY <1>4, <3>1 DEF BackOK, Values
      <4> QED
        BY <1>1, <1>4, <1>6, <1>8, <2>1, <3>1, <4>1 DEF BackOK, Values
    <3>5. RowsAreTrue'
      <4>1. ASSUME NEW g \in Files, row'[g] = "open"
            PROVE  g = current' \/ g \in unclaimed'
        BY <2>1, <2>5, <3>1, <3>2, <4>1 DEF RowsAreTrue, ClosingNow
      <4>2. ASSUME NEW g \in Files, row'[g] = "closed"
            PROVE  g # obs' \/ g \in unstopped'
        BY <1>1, <1>4, <3>1, <4>2 DEF RowsAreTrue, ObsOK, Values, Files
      <4> QED
        BY <2>4, <4>1, <4>2 DEF RowsAreTrue
    <3>6. CallOK'
      BY <3>1, IdleCall
    <3>7. ChainOK'
      BY <1>1, <3>1, <3>2, EndedChain DEF SplitKinds
    <3>8. StopOK'
      <4>1. Wanted' => Wanted
        BY <1>1 DEF Wanted
      <4> QED
        BY <1>1, <3>1, <3>2, <4>1, EndedStop DEF SplitKinds
    <3> QED
      BY <1>5, <2>4, <3>3, <3>4, <3>5, <3>6, <3>7, <3>8
  <2>6. CASE ~(Claims(current) /\ pc = "splitWait")
    <3>1. /\ waiter' = (IF Claims(current) THEN "hit" ELSE waiter)
          /\ row' = [row EXCEPT ![f] = "open"]
          /\ UNCHANGED <<expected, chain, pc>>
      BY <1>3, <1>8, <2>6 DEF ChangedEvent
    <3>2. Values'
      BY <1>1, <1>2, <2>2, <2>3, <3>1 DEF Values
    <3>3. BackOK'
      <4>1. \A g \in Files : row'[g] # "none" => g <= files
        BY <1>4, <3>1 DEF BackOK, Values
      <4> QED
        BY <1>1, <1>4, <1>6, <1>8, <2>1, <3>1, <4>1 DEF BackOK, Values
    <3>4. RowsAreTrue'
      <4>1. ASSUME NEW g \in Files, row'[g] = "open", g # f
            PROVE  ClosingNow(g)' \/ g \in unclaimed'
        <5>1. row[g] = "open" /\ g # 0
          BY <3>1, <4>1 DEF Values, Files
        <5>2. g = current \/ ClosingNow(g) \/ g \in unclaimed
          BY <5>1 DEF RowsAreTrue
        <5>3. CASE g = current
          BY <2>1, <3>1, <5>1, <5>3 DEF ClosingNow, Claims
        <5>4. CASE ClosingNow(g)
          BY <3>1, <5>4 DEF ClosingNow, Claims
        <5> QED
          BY <2>1, <5>2, <5>3, <5>4
      <4>2. ASSUME NEW g \in Files, row'[g] = "closed"
            PROVE  g # obs' \/ g \in unstopped'
        BY <1>1, <3>1, <4>2 DEF RowsAreTrue, Values
      <4> QED
        BY <2>1, <2>4, <4>1, <4>2 DEF RowsAreTrue
    <3>5. CallOK'
      <4>1. waiter' = "hit" => pc' = "splitCall" /\ expected' < files'
        <5>1. CASE Claims(current)
          <6>1. pc = "splitCall" /\ expected = current
            BY <2>6, <5>1 DEF Claims
          <6> QED
            BY <1>1, <1>4, <3>1, <6>1 DEF Values, Files
        <5>2. CASE ~Claims(current)
          BY <1>1, <3>1, <5>2 DEF CallOK
        <5> QED
          BY <5>1, <5>2
      <4>2. waiter' # "none" => pc' \in {"splitCall", "splitWait"}
        BY <3>1 DEF CallOK, Claims
      <4> QED
        BY <1>1, <1>5, <3>1, <4>1, <4>2 DEF CallOK
    <3>6. ChainOK' /\ StopOK'
      BY <1>1, <3>1 DEF ChainOK, StopOK, Wanted, DownAfter
    <3> QED
      BY <1>5, <2>4, <3>2, <3>3, <3>4, <3>5, <3>6
  <2> QED
    BY <2>5, <2>6
<1> QED
  BY <1>7, <1>8 DEF ChangedEvent

(* OBS carries out a split.                                                *)
LEMMA ObsSwitchesStep == ASSUME Inv, ObsSwitches PROVE Safe'
<1> USE DEF Inv, Safe
<1>1. /\ due > 0 /\ due' = due - 1 /\ files' = files + 1 /\ obs' = files + 1
      /\ wire' = Append(wire, <<"changed", files + 1>>)
      /\ UNCHANGED <<recVars, chain, pc, stopped, gone, backVars, waitVars, asked, row, signals,
                     histVars>>
  BY DEF ObsSwitches
<1> USE DEF recVars, backVars, waitVars, histVars
<1>2. /\ files \in Nat /\ due \in Nat /\ files + due <= MaxFiles /\ obs # 0
      /\ files + 1 \in Files /\ files' \in 0..MaxFiles /\ due' \in Nat
  BY <1>1, BoundsAssumption DEF ObsOK, Values, Files
<1>3. <<"changed", files + 1>> \in WireType
  BY <1>2 DEF WireType
<1>4. /\ wire' \in Seq(WireType) /\ Len(wire) \in Nat /\ Len(wire') = Len(wire) + 1
      /\ wire'[Len(wire) + 1] = <<"changed", files + 1>>
      /\ \A i \in 1..Len(wire) : wire'[i] = wire[i]
  BY <1>1, <1>3, AppendAt DEF Values
<1>5. \A i \in 1..Len(wire) : wire[i] \in WireType /\ wire[i][2] \in Nat
  BY DEF Values, WireType, Files
<1>6. Values'
  BY <1>1, <1>2, <1>4 DEF Values
<1>7. ObsOK'
  <2>1. obs' \in {0, files'} /\ files' + due' <= MaxFiles /\ (obs' = 0 => due' = 0)
    BY <1>1, <1>2
  <2>2. \A i \in 1..Len(wire') : wire'[i][2] <= files'
    BY <1>1, <1>2, <1>4, <1>5 DEF ObsOK
  <2>3. ASSUME NEW i \in 1..Len(wire'), NEW j \in 1..Len(wire'), i < j
        PROVE  wire'[i][2] < wire'[j][2]
    <3>1. i \in 1..Len(wire) /\ wire'[i] = wire[i] /\ wire[i][2] <= files /\ wire[i][2] \in Nat
      BY <1>4, <1>5, <2>3 DEF ObsOK
    <3>2. CASE j = Len(wire) + 1
      BY <1>2, <1>4, <3>1, <3>2
    <3>3. CASE j \in 1..Len(wire)
      BY <1>4, <2>3, <3>1, <3>3 DEF ObsOK
    <3> QED
      BY <1>4, <3>2, <3>3
  <2> QED
    BY <2>1, <2>2, <2>3 DEF ObsOK
<1>8. BackOK'
  <2>1. ASSUME NEW i \in 1..Len(wire'), wire'[i][1] = "changed"
        PROVE  current' < wire'[i][2]
    BY <1>1, <1>2, <1>4, <2>1 DEF BackOK, Values
  <2> QED
    BY <1>1, <1>2, <2>1 DEF BackOK, Values, Files
<1>9. RowsAreTrue'
  <2>1. ASSUME NEW g \in Files, row'[g] = "closed" PROVE g # obs'
    <3>1. row[g] # "none"
      BY <1>1, <2>1
    <3>2. g <= files
      BY <3>1 DEF BackOK
    <3> QED
      BY <1>1, <1>2, <3>2 DEF Files
  <2> QED
    BY <1>1, <2>1 DEF RowsAreTrue, ClosingNow
<1>10. CallOK'
  BY <1>1, <1>2 DEF CallOK, NoChange, Values
<1>11. TimedOK'
  BY <1>1 DEF TimedOK, Cuts
<1>12. ChainOK' /\ StopOK'
  BY <1>1, <1>2 DEF ChainOK, StopOK, Wanted, DownAfter
<1> QED
  BY <1>6, <1>7, <1>8, <1>9, <1>10, <1>11, <1>12

-----------------------------------------------------------------------------
(* Answers.                                                                *)

Answers == {"ok", "inactive", "failed"}

(* What may change around the job in progress when OBS handles a request,  *)
(* or when the job gives it up.                                            *)
Around ==
  /\ obs' \in 0..MaxFiles /\ files' \in 0..MaxFiles /\ files <= files' /\ due' \in Nat
  /\ wire' \in Seq(WireType) /\ asked' \in Seq(Requests)
  /\ ObsOK'
  /\ UNCHANGED <<stopped, gone, signals>>
  /\ Wanted' => Wanted
  /\ \A i \in 1..Len(wire') : wire'[i][1] = "changed" => i \in 1..Len(wire) /\ wire'[i] = wire[i]
  /\ \A f \in Files : row[f] = "closed" => f # obs' \/ f \in unstopped

(* An "ok" is the answer to the request the job waits for.                 *)
AnswerFits(answer) ==
  /\ answer = "ok" /\ pc = "startCall" => asked' = <<>> /\ NoChange'
  /\ answer = "ok" /\ pc = "stopCall" => asked' = <<>> /\ obs' = 0

(* The backend still lags behind OBS.                                      *)
LEMMA AroundBack ==
  ASSUME Inv, Around, current' = current \/ current' = 0, expected' = expected \/ expected' = 0,
         \A g \in Files : row'[g] # "none" => g <= files
  PROVE  BackOK'
<1>1. current \in Nat /\ expected \in Nat /\ files \in Nat /\ files' \in Nat /\ files <= files'
  BY DEF Inv, Safe, Values, Around
<1>2. current <= files /\ expected <= files
  BY DEF Inv, Safe, BackOK
<1>3. ASSUME NEW i \in 1..Len(wire'), wire'[i][1] = "changed"
      PROVE  current' < wire'[i][2]
  <2>1. i \in 1..Len(wire) /\ wire'[i] = wire[i]
    BY <1>3 DEF Around
  <2>2. current < wire[i][2]
    BY <1>3, <2>1 DEF Inv, Safe, BackOK
  <2>3. wire[i] \in WireType
    BY <2>1 DEF Inv, Safe, Values
  <2>4. wire[i][2] \in Nat /\ wire[i][2] > 0
    BY <2>3 DEF WireType, Files
  <2> QED
    BY <1>1, <2>1, <2>2, <2>4
<1>4. \A g \in Files : row'[g] # "none" => g <= files'
  BY <1>1 DEF Files
<1> QED
  BY <1>1, <1>2, <1>3, <1>4 DEF BackOK

(* StartRecord is answered or not.                                         *)
LEMMA AnsweredStart ==
  ASSUME Inv, NEW answer \in Answers, Answered(answer), Around, AnswerFits(answer),
         pc = "startCall"
  PROVE  Safe'
<1> USE DEF Inv, Safe
<1>1. chain # <<>> /\ chain[1] \in {"start", "retry"} /\ connected /\ waiter = "none"
  BY DEF CallOK, JobFits, Values
<1>2. /\ UNCHANGED <<running, timers, connected, current, waitVars, row, histVars>>
      /\ \/ EndJob
         \/ answer = "ok" /\ pc' = "startWait" /\ UNCHANGED chain
  BY DEF Answered, StartEnds
<1> USE DEF waitVars, histVars
<1>3. BackOK'
  BY <1>1, <1>2, AroundBack DEF BackOK
<1>4. RowsAreTrue'
  BY <1>2 DEF RowsAreTrue, ClosingNow, Around
<1>5. CASE EndJob
  <2>1. Values'
    BY <1>1, <1>2, <1>5, EndAt DEF Values, Around
  <2>2. CallOK'
    BY <1>1, <1>2, <1>5, IdleCall DEF EndJob
  <2>3. TimedOK'
    <3>1. chain[1] \notin Cutting
      BY <1>1 DEF Cutting, SplitKinds
    <3> QED
      BY <1>1, <1>2, <1>5, <3>1, EndedTimed DEF Around
  <2>4. ChainOK'
    BY <1>1, <1>2, <1>5, EndedChain DEF Around
  <2>5. StopOK'
    BY <1>1, <1>2, <1>5, EndedStop DEF Around
  <2> QED
    BY <1>3, <1>4, <2>1, <2>2, <2>3, <2>4, <2>5 DEF Around
<1>6. CASE answer = "ok" /\ pc' = "startWait" /\ UNCHANGED chain
  <2>1. Values'
    BY <1>2, <1>6 DEF Values, Around
  <2>2. CallOK'
    BY <1>1, <1>2, <1>6 DEF CallOK, Calls, JobFits, AnswerFits
  <2>3. TimedOK'
    BY <1>2, <1>6 DEF TimedOK, Cuts, Around
  <2>4. ChainOK'
    BY <1>2, <1>6 DEF ChainOK, DownAfter, Around
  <2>5. StopOK'
    BY <1>2, <1>6 DEF StopOK, DownAfter, Around
  <2> QED
    BY <1>3, <1>4, <2>1, <2>2, <2>3, <2>4, <2>5 DEF Around
<1> QED
  BY <1>2, <1>5, <1>6

(* GetRecordStatus is answered or not: the newest file may be the first    *)
(* chunk, and no event has overtaken it.                                   *)
LEMMA AnsweredCheck ==
  ASSUME Inv, NEW answer \in Answers, Answered(answer), Around, pc = "startCheck"
  PROVE  Safe'
<1> USE DEF Inv, Safe
<1>1. /\ chain # <<>> /\ chain[1] \in {"start", "retry"} /\ connected /\ waiter = "none"
      /\ NoChange
  BY DEF CallOK, JobFits, Values
<1>2. /\ UNCHANGED <<running, connected, waitVars, histVars>> /\ EndJob
      /\ \/ obs # 0 /\ FirstChunk(obs)
         \/ UNCHANGED <<current, row, timers>>
  BY DEF Answered, StartEnds, StartScans
<1> USE DEF waitVars, histVars
<1>3. /\ timers' \subseteq {"idle", "max", "stuck", "retry"}
      /\ row' \in [Files -> {"none", "open", "closed"}]
      /\ current' \in 0..MaxFiles
      /\ \/ UNCHANGED <<current, row, timers>>
         \/ /\ obs # 0 /\ obs = files /\ current = 0 /\ current' = obs
            /\ row' = [row EXCEPT ![obs] = "open"] /\ "max" \in timers'
  <2>1. CASE UNCHANGED <<current, row, timers>>
    BY <2>1 DEF Values
  <2>2. CASE obs # 0 /\ FirstChunk(obs)
    <3>1. obs \in Files /\ obs = files
      BY <2>2 DEF Values, Files, ObsOK
    <3> QED
      BY <2>2, <3>1, FirstChunkAt
  <2> QED
    BY <1>2, <2>1, <2>2
<1>4. Values'
  BY <1>1, <1>2, <1>3, EndAt DEF Values, Around
<1>5. BackOK'
  <2>1. \A i \in 1..Len(wire') : wire'[i][1] # "changed"
    BY <1>1 DEF NoChange, Around
  <2>2. \A g \in Files : row'[g] # "none" => g <= files
    BY <1>3 DEF BackOK, Values
  <2>3. files \in Nat /\ files' \in Nat /\ files <= files' /\ expected \in Nat
    BY DEF Around, Values
  <2>4. current' <= files /\ expected' <= files /\ expected' \in Nat /\ current' \in Nat
    BY <1>2, <1>3, <2>3 DEF BackOK
  <2>5. \A g \in Files : row'[g] # "none" => g <= files'
    BY <2>2, <2>3 DEF Files
  <2>6. current' <= files' /\ expected' <= files'
    BY <2>3, <2>4
  <2> QED
    BY <2>1, <2>5, <2>6 DEF BackOK
<1>6. RowsAreTrue'
  <2>1. ~gone /\ ~gone'
    BY <1>1 DEF EndOK, Around
  <2>2. /\ \A f \in Files : row[f] = "open" => f = current \/ f \in unclaimed
        /\ \A f \in Files : row[f] = "closed" => f # obs' \/ f \in unstopped
    BY <1>1, <2>1 DEF RowsAreTrue, ClosingNow, Around
  <2>3. ASSUME NEW f \in Files, row'[f] = "open" PROVE f = current' \/ f \in unclaimed
    <3>1. CASE UNCHANGED <<current, row, timers>>
      BY <2>2, <2>3, <3>1
    <3>2. CASE current = 0 /\ current' = obs /\ row' = [row EXCEPT ![obs] = "open"]
      <4>1. f = obs \/ row[f] = "open"
        BY <2>3, <3>2 DEF Values
      <4>2. f # 0
        BY DEF Files
      <4> QED
        BY <2>2, <3>2, <4>1, <4>2
    <3> QED
      BY <1>3, <3>1, <3>2
  <2>4. ASSUME NEW f \in Files, row'[f] = "closed" PROVE row[f] = "closed"
    <3>1. CASE row' = row
      BY <2>4, <3>1
    <3>2. CASE row' = [row EXCEPT ![obs] = "open"]
      BY <2>4, <3>2 DEF Values
    <3> QED
      BY <1>3, <3>1, <3>2
  <2>5. unclaimed' = unclaimed /\ unstopped' = unstopped
    BY <1>2
  <2> QED
    BY <2>1, <2>2, <2>3, <2>4, <2>5 DEF RowsAreTrue
<1>7. CallOK'
  BY <1>1, <1>2, IdleCall DEF EndJob
<1>8. TimedOK'
  <2>1. CASE UNCHANGED <<current, row, timers>>
    <3>1. chain[1] \notin Cutting
      BY <1>1 DEF Cutting, SplitKinds
    <3> QED
      BY <1>1, <1>2, <2>1, <3>1, EndedTimed DEF Around
  <2>2. CASE "max" \in timers'
    BY <2>2 DEF TimedOK
  <2> QED
    BY <1>3, <2>1, <2>2
<1>9. ChainOK'
  BY <1>1, <1>2, EndedChain DEF Around
<1>10. StopOK'
  BY <1>1, <1>2, EndedStop DEF Around
<1> QED
  BY <1>4, <1>5, <1>6, <1>7, <1>8, <1>9, <1>10 DEF Around

(* SplitRecordFile is answered or not: the chunk whose end was announced   *)
(* meanwhile is closed, unless the answer is a failure.                    *)
LEMMA AnsweredSplit ==
  ASSUME Inv, NEW answer \in Answers, Answered(answer), Around, pc = "splitCall"
  PROVE  Safe'
<1> USE DEF Inv, Safe
<1>1. /\ chain # <<>> /\ chain[1] \in SplitKinds /\ connected
      /\ expected \in Nat /\ expected \in 0..MaxFiles /\ 0 \in 0..MaxFiles
      /\ waiter = "hit" => expected < files
  BY BoundsAssumption DEF CallOK, JobFits, Values
<1>2. /\ UNCHANGED <<running, status, inMatch, backVars, stale, unstopped>>
      /\ unclaimed' = IF answer # "ok" /\ waiter = "hit"
                      THEN unclaimed \cup ({expected} \ {0}) ELSE unclaimed
  BY DEF Answered
<1>3. unclaimed' \subseteq Files
  BY <1>1, <1>2 DEF Values, Files
<1>4. CASE /\ waiter = "armed" /\ pc' = "splitWait"
           /\ UNCHANGED <<chain, waiter, expected, row, timers>>
  <2>1. Values'
    BY <1>2, <1>3, <1>4 DEF Values, Around, backVars
  <2>2. BackOK'
    BY <1>1, <1>2, <1>4, AroundBack DEF BackOK, backVars
  <2>3. RowsAreTrue'
    BY <1>2, <1>4 DEF RowsAreTrue, ClosingNow, Around, backVars
  <2>4. CallOK'
    BY <1>1, <1>2, <1>4 DEF CallOK, Calls, JobFits, backVars
  <2>5. TimedOK'
    BY <1>2, <1>4 DEF TimedOK, Cuts, backVars, Around
  <2>6. ChainOK'
    BY <1>2, <1>4 DEF ChainOK, DownAfter, Around
  <2>7. StopOK'
    BY <1>2, <1>4 DEF StopOK, DownAfter, Around, backVars
  <2> QED
    BY <2>1, <2>2, <2>3, <2>4, <2>5, <2>6, <2>7 DEF Around
<1>5. CASE Split(IF answer = "ok" /\ waiter = "hit" THEN expected ELSE 0)
  <2>1. PICK closed \in Nat :
          closed = IF answer = "ok" /\ waiter = "hit" THEN expected ELSE 0
    BY <1>1
  <2>2. Split(closed)
    BY <1>5, <2>1
  <2>3. closed = 0 \/ (closed = expected /\ waiter = "hit")
    BY <2>1
  <2>4. UNCHANGED <<running, stopped, gone, backVars, unstopped>> /\ (Wanted' => Wanted)
    BY <1>2 DEF Around
  <2>5. /\ chain' \in Seq(JobKinds) /\ row' \in [Files -> {"none", "open", "closed"}]
        /\ timers' \subseteq {"idle", "max", "stuck", "retry"}
        /\ CallOK' /\ TimedOK' /\ ChainOK' /\ StopOK'
    BY <1>1, <2>2, <2>3, <2>4, SplitEnds
  <2>6. /\ waiter' = "none" /\ expected' = 0 /\ pc' = "idle"
        /\ row' = IF closed = 0 THEN row ELSE [row EXCEPT ![closed] = "closed"]
    BY <2>2 DEF Split, EndJob
  <2>7. Values'
    BY <1>1, <1>2, <1>3, <2>5, <2>6 DEF Values, Around, backVars
  <2>8. BackOK'
    <3>1. \A g \in Files : row'[g] # "none" => g <= files
      BY <1>1, <2>3, <2>6 DEF BackOK, Values
    <3> QED
      BY <1>1, <1>2, <2>6, <3>1, AroundBack DEF backVars
  <2>9. RowsAreTrue'
    <3>1. ASSUME NEW g \in Files, row'[g] = "open"
          PROVE  g = current' \/ g \in unclaimed'
      <4>1. row[g] = "open" /\ g # closed /\ g # 0
        BY <2>6, <3>1 DEF Values, Files
      <4>2. g = current \/ ClosingNow(g) \/ g \in unclaimed
        BY <4>1 DEF RowsAreTrue
      <4>3. CASE ClosingNow(g)
        BY <1>2, <2>1, <4>1, <4>3 DEF ClosingNow
      <4> QED
        BY <1>2, <4>2, <4>3 DEF backVars
    <3>2. ASSUME NEW g \in Files, row'[g] = "closed"
          PROVE  g # obs' \/ g \in unstopped'
      <4>1. CASE row[g] = "closed"
        BY <1>2, <4>1 DEF Around
      <4>2. CASE row[g] # "closed"
        <5>1. g = closed /\ g # 0
          BY <2>6, <3>2, <4>2 DEF Values, Files
        <5> QED
          BY <1>1, <2>3, <5>1 DEF Around, ObsOK, Values
      <4> QED
        BY <4>1, <4>2
    <3>3. ~gone'
      BY <1>1 DEF EndOK, Around
    <3> QED
      BY <3>1, <3>2, <3>3 DEF RowsAreTrue
  <2> QED
    BY <2>5, <2>7, <2>8, <2>9 DEF Around
<1> QED
  BY <1>4, <1>5 DEF Answered

(* StopRecord is answered or not: the chunk is closed, and OBS has stopped *)
(* if it was answered.                                                     *)
LEMMA AnsweredStop ==
  ASSUME Inv, NEW answer \in Answers, Answered(answer), Around, AnswerFits(answer),
         pc = "stopCall"
  PROVE  Safe'
<1> USE DEF Inv, Safe
<1>1. /\ chain # <<>> /\ chain[1] \in {"down", "stop"} /\ connected /\ waiter = "none"
      /\ Job = chain[1]
  BY TailAt DEF CallOK, JobFits, Values, Job
<1>2. /\ row' = IF current = 0 THEN row ELSE [row EXCEPT ![current] = "closed"]
      /\ unstopped' = IF answer = "ok" THEN unstopped ELSE unstopped \cup {current}
      /\ UNCHANGED <<waitVars, unclaimed>>
      /\ active' = FALSE /\ current' = 0 /\ UNCHANGED <<recVars, connected>>
      /\ \/ chain[1] = "down" /\ EndJob
         \/ chain[1] = "stop" /\ pc' = "disconnect" /\ UNCHANGED chain
  BY <1>1 DEF Answered, StopContinuousEnds
<1>3. answer = "ok" => obs' = 0 /\ ~Wanted'
  BY DEF AnswerFits, Wanted
<1>4. Values'
  <2>1. chain' \in Seq(JobKinds)
    <3>1. CASE EndJob
      BY <1>1, <3>1, EndAt DEF Values
    <3>2. CASE UNCHANGED chain
      BY <3>2 DEF Values
    <3> QED
      BY <1>2, <3>1, <3>2
  <2>2. timers' \subseteq {"idle", "max", "stuck", "retry"}
    BY <1>2 DEF Values, recVars
  <2>3. row' \in [Files -> {"none", "open", "closed"}] /\ unstopped' \subseteq 0..MaxFiles
    BY <1>2 DEF Values
  <2>4. pc' \in {"idle", "disconnect"}
    BY <1>2 DEF EndJob
  <2> QED
    BY <1>2, <2>1, <2>2, <2>3, <2>4, BoundsAssumption DEF Values, Around, waitVars
<1>5. BackOK'
  <2>1. \A g \in Files : row'[g] # "none" => g <= files
    BY <1>2 DEF BackOK, Values
  <2> QED
    BY <1>2, <2>1, AroundBack DEF waitVars
<1>6. RowsAreTrue'
  <2>1. ASSUME NEW g \in Files, row'[g] = "open" PROVE g \in unclaimed'
    BY <1>1, <1>2, <2>1 DEF RowsAreTrue, ClosingNow, Values, Files
  <2>2. ASSUME NEW g \in Files, row'[g] = "closed" PROVE g # obs' \/ g \in unstopped'
    <3>1. CASE answer = "ok"
      BY <1>3, <3>1 DEF Files
    <3>2. CASE answer # "ok" /\ g # current
      BY <1>2, <2>2, <3>2 DEF Around, Values
    <3>3. CASE answer # "ok" /\ g = current
      BY <1>2, <3>3
    <3> QED
      BY <3>1, <3>2, <3>3
  <2> QED
    BY <2>1, <2>2 DEF RowsAreTrue
<1>7. CallOK'
  <2>1. CASE EndJob
    BY <1>1, <1>2, <2>1, IdleCall DEF waitVars, EndJob
  <2>2. CASE chain[1] = "stop" /\ pc' = "disconnect" /\ UNCHANGED chain
    BY <1>1, <1>2, <2>2 DEF CallOK, Calls, JobFits, waitVars
  <2> QED
    BY <1>2, <2>1, <2>2
<1>8. TimedOK'
  BY <1>2 DEF TimedOK
<1>9. ChainOK'
  <2>1. CASE chain[1] = "down" /\ EndJob
    BY <1>1, <1>2, <2>1, EndedChain DEF Around, recVars
  <2>2. CASE UNCHANGED chain
    BY <1>2, <2>2 DEF ChainOK, DownAfter, Around, recVars
  <2> QED
    BY <1>2, <2>1, <2>2
<1>10. StopOK'
  BY <1>2, <1>3 DEF StopOK
<1> QED
  BY <1>4, <1>5, <1>6, <1>7, <1>8, <1>9, <1>10 DEF Around

(* Whatever the answer is, the job it is for goes on safely.               *)
LEMMA AnsweredStep ==
  ASSUME Inv, NEW answer \in Answers, Answered(answer), Around, AnswerFits(answer)
  PROVE  Safe'
BY AnsweredStart, AnsweredCheck, AnsweredSplit, AnsweredStop DEF Answered

(* A call is given up: the request stays with OBS, or is lost.             *)
LEMMA CallTimesOutStep == ASSUME Inv, CallTimesOut PROVE Safe'
<1> USE DEF Inv, Safe
<1>1. /\ pc \in Calls /\ Answered("failed")
      /\ asked' = (IF Len(asked) = MaxAsked THEN SubSeq(asked, 1, MaxAsked - 1) ELSE asked)
      /\ UNCHANGED <<stopped, gone, obsVars, signals>>
  BY DEF CallTimesOut, Calls
<1>2. asked # <<>> /\ asked \in Seq(Requests) /\ Len(asked) \in Nat /\ Len(asked) > 0
  BY <1>1 DEF CallOK, Values
<1>3. /\ asked' \in Seq(Requests)
      /\ \A i \in 1..Len(asked') : i \in 1..Len(asked) /\ asked'[i] = asked[i]
  <2>1. CASE Len(asked) = MaxAsked
    BY <1>1, <1>2, <2>1, FrontAt, BoundsAssumption
  <2>2. CASE Len(asked) # MaxAsked
    BY <1>1, <1>2, <2>2
  <2> QED
    BY <2>1, <2>2
<1>4. ObsOK'
  BY <1>1 DEF ObsOK, obsVars
<1>5. Wanted' => Wanted
  BY <1>1, <1>3 DEF Wanted, obsVars
<1>6. \A f \in Files : row[f] = "closed" => f # obs' \/ f \in unstopped
  BY <1>1 DEF RowsAreTrue, obsVars
<1>7. Around
  BY <1>1, <1>3, <1>4, <1>5, <1>6 DEF Around, Values, obsVars
<1>8. AnswerFits("failed") /\ "failed" \in Answers
  BY DEF AnswerFits, Answers
<1> QED
  BY <1>1, <1>7, <1>8, AnsweredStep

(* OBS handles the request at the head. If the job waits for it, it is the *)
(* request the job made.                                                   *)
LEMMA Handled ==
  ASSUME Inv, ObsHandles
  PROVE  \E answer \in Answers :
           Respond(answer) /\ Around /\ (Awaited => AnswerFits(answer))
<1> USE DEF Inv, Safe
<1>1. /\ asked # <<>> /\ wire = <<>> /\ asked' = Tail(asked) /\ UNCHANGED <<stopped, gone, signals>>
  BY DEF ObsHandles
<1>2. /\ asked' \in Seq(Requests) /\ Len(asked) \in Nat /\ Len(asked) > 0
      /\ Len(asked') = Len(asked) - 1 /\ Head(asked) = asked[1]
      /\ \A i \in 1..Len(asked') : i + 1 \in 1..Len(asked) /\ asked'[i] = asked[i + 1]
      /\ Len(asked) = 1 => asked' = <<>>
  BY <1>1, TailAt DEF Values
<1>3. Awaited => pc \in Calls /\ Head(asked) = RequestOf[pc] /\ asked' = <<>>
  BY <1>2 DEF Awaited, CallOK, Calls
<1>4. (\E i \in 1..Len(asked') : asked'[i] = "StartRecord") => Wanted
  BY <1>2 DEF Wanted
<1>5. Head(asked) = "StartRecord" => Wanted
  BY <1>2 DEF Wanted
<1>6. CASE UNCHANGED <<obs, files, due, wire>>
  <2>1. Around
    <3>1. ObsOK'
      BY <1>6 DEF ObsOK
    <3>2. Wanted' => Wanted
      BY <1>4, <1>6 DEF Wanted
    <3> QED
      BY <1>1, <1>2, <1>6, <3>1, <3>2 DEF Around, Values, RowsAreTrue
  <2>2. CASE Respond("failed")
    BY <2>1, <2>2 DEF AnswerFits, Answers
  <2>3. CASE /\ Head(asked) = "GetRecordStatus"
             /\ Respond(IF obs # 0 THEN "ok" ELSE "inactive")
    <3>1. Awaited => pc \notin {"startCall", "stopCall"}
      BY <1>3, <2>3 DEF RequestOf, Calls
    <3> QED
      BY <2>1, <2>3, <3>1 DEF AnswerFits, Answers
  <2>4. CASE Head(asked) = "StartRecord" /\ obs = 0 /\ Respond("ok")
    <3>1. Awaited => pc # "stopCall"
      BY <1>3, <2>4 DEF RequestOf, Calls
    <3>2. NoChange'
      BY <1>1, <1>6, <2>4 DEF NoChange, ObsOK
    <3> QED
      BY <1>3, <2>1, <2>4, <3>1, <3>2 DEF AnswerFits, Answers
  <2>5. CASE Head(asked) = "SplitRecordFile" /\ due' = due + 1
    BY <1>6, <2>5 DEF Values
  <2>6. CASE Head(asked) = "StopRecord" /\ obs # 0 /\ obs' = 0
    BY <1>6, <2>6
  <2> QED
    BY <2>2, <2>3, <2>4, <2>5, <2>6 DEF ObsHandles
<1>7. CASE /\ Head(asked) = "StartRecord" /\ obs = 0 /\ Respond("ok") /\ due' = due
           /\ files < MaxFiles /\ files' = files + 1 /\ obs' = files + 1
           /\ wire' \in {<<>>, <<<<"started", files + 1>>>>}
  <2>1. due = 0 /\ files \in Nat /\ files + 1 \in Files
    BY <1>7, BoundsAssumption DEF ObsOK, Values, Files
  <2>2. /\ wire' \in Seq(WireType) /\ Len(wire') \in Nat /\ Len(wire') <= 1
        /\ \A i \in 1..Len(wire') : wire'[i] = <<"started", files + 1>> /\ i = 1
    <3>1. <<"started", files + 1>> \in WireType
      BY <2>1 DEF WireType
    <3>2. CASE wire' = <<>>
      BY <3>2
    <3>3. CASE wire' = <<<<"started", files + 1>>>>
      BY <3>1, <3>3
    <3> QED
      BY <1>7, <3>2, <3>3
  <2>3. ObsOK'
    <3>1. obs' \in {0, files'} /\ files' + due' <= MaxFiles /\ obs' # 0
      BY <1>7, <2>1, BoundsAssumption
    <3>2. \A i \in 1..Len(wire') : wire'[i][2] <= files'
      BY <1>7, <2>1, <2>2
    <3>3. \A i, j \in 1..Len(wire') : ~(i < j)
      BY <2>2
    <3> QED
      BY <3>1, <3>2, <3>3 DEF ObsOK
  <2>4. \A i \in 1..Len(wire') : wire'[i][1] # "changed"
    BY <2>2
  <2>5. \A f \in Files : row[f] = "closed" => f # obs'
    BY <1>7, <2>1 DEF BackOK, Values, Files
  <2>6. Wanted' => Wanted
    BY <1>5, <1>7
  <2>7. obs' \in 0..MaxFiles /\ files' \in 0..MaxFiles /\ files <= files' /\ due' \in Nat
    BY <1>7, <2>1 DEF Files
  <2>8. Around
    BY <1>1, <1>2, <2>2, <2>3, <2>4, <2>5, <2>6, <2>7 DEF Around
  <2>9. Awaited => pc # "stopCall"
    BY <1>3, <1>7 DEF RequestOf, Calls
  <2>10. NoChange'
    BY <1>7, <2>1, <2>4 DEF NoChange
  <2> QED
    BY <1>3, <1>7, <2>8, <2>9, <2>10 DEF AnswerFits, Answers
<1>8. CASE /\ Head(asked) = "SplitRecordFile" /\ obs # 0 /\ files + due < MaxFiles
           /\ Respond("ok") /\ due' = due + 1 /\ UNCHANGED <<obs, files, wire>>
  <2>1. ObsOK'
    BY <1>8, BoundsAssumption DEF ObsOK, Values
  <2>2. Wanted' => Wanted
    BY <1>4, <1>8 DEF Wanted
  <2>3. Around
    BY <1>1, <1>2, <1>8, <2>1, <2>2 DEF Around, Values, RowsAreTrue
  <2>4. Awaited => pc \notin {"startCall", "stopCall"}
    BY <1>3, <1>8 DEF RequestOf, Calls
  <2> QED
    BY <1>8, <2>3, <2>4 DEF AnswerFits, Answers
<1>9. CASE /\ Head(asked) = "StopRecord" /\ Respond("ok")
           /\ obs' = 0 /\ due' = 0 /\ UNCHANGED <<files, wire>>
  <2>1. ObsOK'
    BY <1>1, <1>9, BoundsAssumption DEF ObsOK, Values
  <2>2. Wanted' => Wanted
    BY <1>4, <1>9 DEF Wanted
  <2>3. Around
    BY <1>1, <1>2, <1>9, <2>1, <2>2, BoundsAssumption DEF Around, Values, Files
  <2>4. Awaited => pc # "startCall"
    BY <1>3, <1>9 DEF RequestOf, Calls
  <2> QED
    BY <1>3, <1>9, <2>3, <2>4 DEF AnswerFits, Answers
<1> QED
  BY <1>6, <1>7, <1>8, <1>9 DEF ObsHandles

(* A request nobody waits for any more changes nothing of the recorder,    *)
(* and leaves the one that is waited for the last.                         *)
LEMMA IgnoredStep ==
  ASSUME Inv, ObsHandles, Around, ~Awaited,
         UNCHANGED <<recVars, chain, pc, backVars, waitVars, row, histVars>>
  PROVE  Safe'
<1> USE DEF Inv, Safe, recVars, backVars, waitVars, histVars
<1>1. asked # <<>> /\ asked' = Tail(asked)
  BY DEF ObsHandles
<1>2. /\ Len(asked) \in Nat /\ Len(asked) > 0
      /\ Len(asked') = Len(asked) - 1 /\ asked' \in Seq(Requests)
      /\ \A i \in 1..Len(asked') : asked'[i] = asked[i + 1]
  BY <1>1, TailAt DEF Values
<1>3. Values'
  BY DEF Values, Around
<1>4. BackOK'
  BY AroundBack DEF BackOK
<1>5. RowsAreTrue'
  BY DEF RowsAreTrue, ClosingNow, Around
<1>6. CallOK'
  <2>1. pc \in Calls => Len(asked) > 1
    BY <1>2 DEF Awaited, Calls
  <2>2. pc \in Calls => asked' # <<>> /\ asked'[Len(asked')] = RequestOf[pc]
    BY <1>2, <2>1 DEF CallOK
  <2>3. pc \notin {"startWait", "startCheck"}
    BY <1>1, <1>2, <2>1 DEF CallOK, Calls
  <2>4. waiter = "hit" => expected < files'
    BY DEF CallOK, Around, Values
  <2> QED
    BY <2>2, <2>3, <2>4 DEF CallOK
<1>7. TimedOK'
  BY DEF TimedOK, Cuts, Around
<1>8. ChainOK' /\ StopOK'
  BY DEF ChainOK, StopOK, DownAfter, Around
<1> QED
  BY <1>3, <1>4, <1>5, <1>6, <1>7, <1>8 DEF Around

(* OBS handles a request.                                                  *)
LEMMA ObsHandlesStep == ASSUME Inv, ObsHandles PROVE Safe'
<1>1. PICK answer \in Answers :
        Respond(answer) /\ Around /\ (Awaited => AnswerFits(answer))
  BY Handled
<1> QED
  BY <1>1, AnsweredStep, IgnoredStep DEF Respond

-----------------------------------------------------------------------------
(* Who hears, and what is left when OBS is gone.                           *)

(* A first chunk is heard of.                                              *)
LEMMA FirstEnd ==
  ASSUME EndOK, NEW f, FirstChunk(f)
  PROVE  current' # 0 => hears \/ gone
BY DEF EndOK, FirstChunk

(* An answer leaves the connection as it is.                               *)
LEMMA AnsweredEnd ==
  ASSUME Inv, NEW answer, Answered(answer)
  PROVE  /\ connected /\ ~gone /\ UNCHANGED <<connected, hears>> /\ pc' # "processStop"
         /\ current' # 0 => hears \/ gone
<1>1. pc \in Calls
  BY DEF Answered, Calls
<1>2. connected /\ ~gone
  BY <1>1 DEF Inv, Safe, CallOK, Calls, EndOK
<1>3. EndOK
  BY DEF Inv
<1>4. UNCHANGED <<connected, hears>>
  BY DEF Answered, StopContinuousEnds, backVars
<1>5. current' # 0 => hears \/ gone
  <2>1. CASE pc = "startCall"
    BY <1>3, <2>1 DEF Answered, EndOK
  <2>2. CASE pc = "startCheck"
    <3>1. UNCHANGED current \/ \E f : FirstChunk(f)
      BY <2>2 DEF Answered, StartScans
    <3> QED
      BY <1>3, <3>1, FirstEnd DEF EndOK
  <2>3. CASE pc = "splitCall"
    BY <1>3, <2>3 DEF Answered, EndOK, backVars
  <2>4. CASE pc = "stopCall"
    BY <2>4 DEF Answered, StopContinuousEnds
  <2> QED
    BY <1>1, <2>1, <2>2, <2>3, <2>4 DEF Calls
<1>6. pc' # "processStop"
  BY DEF Answered, StartEnds, StartScans, Split, StopContinuousEnds, EndJob
<1> QED
  BY <1>2, <1>4, <1>5, <1>6

(* Nothing is heard or asked when OBS is gone.                             *)
LEMMA NextEnd == Inv /\ [Next]_vars => EndOK'
<1> SUFFICES ASSUME Inv, [Next]_vars PROVE EndOK'
  OBVIOUS
<1> USE DEF Inv
<1>1. CASE World
  <2>1. /\ UNCHANGED <<pc, gone, connected, hears, current, obs, asked, wire>>
        /\ stopped => stopped'
    BY <1>1 DEF World, WowUp, WowDown, SegmentOpen, SegmentClose, Stop, backVars, obsVars
  <2> QED
    BY <2>1 DEF EndOK
<1>2. CASE Timer
  <2>1. UNCHANGED <<pc, gone, stopped, connected, hears, current, obs, asked, wire>>
    BY <1>2 DEF Timer, IdleFires, MaxFires, StuckFires, RetryFires, backVars, obsVars
  <2> QED
    BY <2>1 DEF EndOK
<1>3. CASE JobStep
  <2>1. CASE StartAtOnce \/ SplitUnconnected \/ DownUnconnected \/ NoBackend
    <3>1. /\ pc = "idle" /\ pc' = "idle" /\ (current' = current \/ current' = 0)
          /\ UNCHANGED <<gone, stopped, connected, hears, obs, asked, wire>>
      BY <2>1 DEF StartAtOnce, SplitUnconnected, DownUnconnected, NoBackend, Begin,
         Split, StartEnds, EndJob, backVars, obsVars
    <3> QED
      BY <3>1 DEF EndOK
  <2>2. CASE StartAsks
    BY <2>2 DEF StartAsks, EndOK
  <2>3. CASE StartWaited \/ SplitAsks \/ SplitWaitExpires \/ StopAsks
    <3>1. connected
      BY <2>3 DEF StartWaited, SplitAsks, SplitWaitExpires, StopAsks, Safe, CallOK
    <3>2. UNCHANGED <<gone, stopped, connected, hears, current>> /\ pc' # "processStop"
      BY <2>3 DEF StartWaited, SplitAsks, SplitWaitExpires, StopAsks, StartEnds, Split, EndJob,
         backVars
    <3> QED
      BY <3>1, <3>2 DEF EndOK
  <2>4. CASE StopAtOnce
    <3>1. /\ pc = "idle" /\ (~connected <=> pc' = "processStop")
          /\ UNCHANGED <<gone, stopped, connected, hears, current, obs, asked, wire>>
      BY <2>4 DEF StopAtOnce, Begin, backVars, obsVars
    <3> QED
      BY <3>1 DEF EndOK
  <2>5. CASE Disconnected
    <3>1. connected
      BY <2>5 DEF Disconnected, Safe, CallOK
    <3>2. /\ pc' = "processStop" /\ current' = 0 /\ ~connected' /\ UNCHANGED gone
      BY <2>5 DEF Disconnected
    <3> QED
      BY <3>1, <3>2 DEF EndOK
  <2>6. CASE ProcessStopped
    <3>1. pc = "processStop" /\ chain # <<>> /\ chain[1] = "stop"
      BY <2>6 DEF ProcessStopped, Safe, CallOK, JobFits
    <3>2. stopped
      BY <3>1 DEF Safe, ChainOK, Values
    <3>3. ~connected
      BY <2>6 DEF ProcessStopped, Safe, EndOK
    <3> QED
      BY <2>6, <3>2, <3>3 DEF ProcessStopped, EndOK
  <2>7. CASE CallTimesOut
    <3>1. UNCHANGED <<stopped, gone>> /\ Answered("failed")
      BY <2>7 DEF CallTimesOut
    <3> QED
      BY <3>1, AnsweredEnd DEF EndOK
  <2> QED
    BY <1>3, <2>1, <2>2, <2>3, <2>4, <2>5, <2>6, <2>7 DEF JobStep
<1>4. CASE Obs
  <2>1. CASE ObsHandles
    <3>1. UNCHANGED <<stopped, gone>> /\ asked # <<>> /\ \E answer : Respond(answer)
      BY <2>1 DEF ObsHandles
    <3>2. PICK answer : Respond(answer)
      BY <3>1
    <3>3. CASE Answered(answer)
      BY <3>1, <3>3, AnsweredEnd DEF EndOK
    <3>4. CASE UNCHANGED <<pc, backVars>>
      BY <3>1, <3>4 DEF EndOK, backVars
    <3> QED
      BY <3>2, <3>3, <3>4 DEF Respond
  <2>2. CASE ObsSwitches
    <3>1. ~gone
      BY <2>2 DEF ObsSwitches, EndOK, Safe, ObsOK, Values
    <3> QED
      BY <2>2, <3>1 DEF ObsSwitches, EndOK, backVars
  <2>3. CASE StartedEvent
    <3>1. /\ wire # <<>> /\ UNCHANGED <<pc, gone, stopped, connected, hears>>
          /\ \E f : FirstChunk(f)
      BY <2>3 DEF StartedEvent, Deliver
    <3> QED
      BY <3>1, FirstEnd DEF EndOK
  <2>4. CASE ChangedEvent
    <3>1. wire # <<>> /\ UNCHANGED <<gone, stopped, connected, hears>>
      BY <2>4 DEF ChangedEvent, Deliver
    <3>2. UNCHANGED <<current, pc>> \/ hears
      BY <2>4 DEF ChangedEvent
    <3>3. UNCHANGED pc \/ (connected /\ pc' = "idle")
      BY <2>4 DEF ChangedEvent, Claims, EndJob, Safe, CallOK
    <3> QED
      BY <3>1, <3>2, <3>3 DEF EndOK
  <2> QED
    BY <1>4, <2>1, <2>2, <2>3, <2>4 DEF Obs
<1>5. CASE UNCHANGED vars
  BY <1>5 DEF vars, EndOK, backVars, obsVars
<1> QED
  BY <1>1, <1>2, <1>3, <1>4, <1>5 DEF Next

-----------------------------------------------------------------------------
(* The invariant holds initially.                                          *)
LEMMA InitInv == Init => Inv
<1> SUFFICES ASSUME Init PROVE Inv
  OBVIOUS
<1>1. Flags
  BY Zenon DEF Init, Flags
<1>2. Values
  BY BoundsAssumption DEF Init, Values
<1>3. ObsOK /\ BackOK /\ CallOK
  BY BoundsAssumption DEF Init, ObsOK, BackOK, CallOK, Calls
<1>4. TimedOK /\ ChainOK /\ StopOK /\ RowsAreTrue /\ EndOK
  BY DEF Init, TimedOK, ChainOK, StopOK, Wanted, RowsAreTrue, EndOK
<1> QED
  BY <1>1, <1>2, <1>3, <1>4 DEF Inv, Safe

(* Every step keeps it.                                                    *)
LEMMA NextInv == Inv /\ [Next]_vars => Inv'
<1> SUFFICES ASSUME Inv, [Next]_vars PROVE Inv'
  OBVIOUS
<1>1. Flags' /\ EndOK'
  BY NextFlags, NextEnd DEF Inv
<1> SUFFICES Safe'
  BY <1>1 DEF Inv
<1>2. CASE World
  BY <1>2, WowUpStep, WowDownStep, SegmentOpenStep, SegmentCloseStep, StopStep DEF World
<1>3. CASE Timer
  BY <1>3, ChunkTimerStep, RetryFiresStep DEF Timer
<1>4. CASE JobStep
  BY <1>4, StartAtOnceStep, StartAsksStep, StartWaitedStep, SplitUnconnectedStep,
     SplitAsksStep, SplitWaitExpiresStep, StopAsksStep, StopAtOnceStep,
     DisconnectedStep, ProcessStoppedStep, DownUnconnectedStep, NoBackendStep, CallTimesOutStep
     DEF JobStep
<1>5. CASE Obs
  BY <1>5, ObsHandlesStep, ObsSwitchesStep, StartedEventStep, ChangedEventStep DEF Obs
<1>6. CASE UNCHANGED vars
  <2> USE <1>6 DEF vars, Inv, Safe, backVars, waitVars, obsVars, histVars, recVars
  <2>1. Values' /\ ObsOK' /\ BackOK'
    BY DEF Values, ObsOK, BackOK
  <2>2. CallOK' /\ TimedOK'
    BY DEF CallOK, NoChange, TimedOK, Cuts
  <2>3. ChainOK' /\ StopOK' /\ RowsAreTrue'
    BY DEF ChainOK, StopOK, Wanted, DownAfter, RowsAreTrue, ClosingNow
  <2> QED
    BY <2>1, <2>2, <2>3
<1> QED
  BY <1>2, <1>3, <1>4, <1>5, <1>6 DEF Next

(* The invariant holds in every reachable state.                           *)
THEOREM InductiveInvariant == Spec => []Inv
<1> QED
  BY InitInv, NextInv, PTL DEF Spec

(* The state of recorder, backend and OBS stays well-typed: no event names *)
(* a file that OBS did not write, however many answers come late.          *)
THEOREM TypeCorrect == Spec => []TypeOK
<1>1. Inv => TypeOK
  BY DEF Inv, Safe, Flags, Values, WireType, JobKinds, TypeOK
<1> QED
  BY <1>1, InductiveInvariant, PTL

(* However events, answers and timeouts meet, the index shows as open only *)
(* the chunk OBS writes, one whose end was announced to nobody or one that *)
(* stop() came upon, with events coming until OBS is gone; and as closed   *)
(* none that OBS writes, unless it did not confirm that it stopped.        *)
THEOREM RowsAreTrueHolds == Spec => []RowsAreTrue
<1>1. Inv => RowsAreTrue
  BY DEF Inv, Safe
<1> QED
  BY <1>1, InductiveInvariant, PTL

(* While the game is up and OBS lives, whatever is recorded is going to be *)
(* cut.                                                                    *)
THEOREM ChunkIsTimedHolds == Spec => []ChunkIsTimed
<1>1. Inv => ChunkIsTimed
  BY DEF Inv, Safe, TimedOK, Cuts, Cutting, SplitKinds, ChunkIsTimed
<1> QED
  BY <1>1, InductiveInvariant, PTL

(* When the game has ended and nothing is under way, OBS does not record,  *)
(* in whatever order the starts and ends of the game, stop() and its job   *)
(* came, unless a StopRecord was not confirmed.                            *)
THEOREM DownStopsObsHolds == Spec => []DownStopsObs
<1>1. Inv => DownStopsObs
  BY DEF Inv, Safe, EndOK, ChainOK, StopOK, Wanted, DownAfter, DownStopsObs
<1> QED
  BY <1>1, InductiveInvariant, PTL
=============================================================================
