--------------------------- MODULE RecorderProofs ---------------------------
(***************************************************************************)
(* Proofs about the recorder, for any number of waiting jobs and stray     *)
(* timers (the invariant is a predicate of the service, which every piece  *)
(* of code between two requests establishes, and one relation between the  *)
(* service and OBS); about the end of the application; and about the index *)
(* of recordings.                                                          *)
(***************************************************************************)
EXTENDS Recorder, QuitLifecycle, RecordingsStore, SequenceTheorems, WellFoundedInduction,
        FiniteSetTheorems, TLAPS

(* What holds of the service in the middle of a job's code: it records only*)
(* what it started, and no dead client passes for a connection.            *)
Sound(s) ==
  /\ s \in Service
  /\ s.recording => s.weStarted
  /\ s.connected => s.client # "dead"

(* And when the job waits: a StopRecord is only sent for a recording that  *)
(* gladlog started, and doClose has left the recording state by then.      *)
Waiting(s) ==
  /\ Sound(s)
  /\ s.at \in RequestsOf(s.job)
  /\ s.at \in StopRequests => s.weStarted
  /\ s.at = "stop" => ~s.recording

(* Gladlog's belief and OBS's recording.                                   *)
Belief(w, rec, behind) ==
  /\ rec = "ours" => w
  /\ w => rec = "ours" \/ behind

IInv == /\ TypeOK
        /\ Waiting(svc)
        /\ Belief(svc.weStarted, obs.rec, hist.behind)
        /\ ~hist.stolen

-----------------------------------------------------------------------------
(* The end of a job leaves a sound service waiting, or idle.               *)
LEMMA IdleOK ==
  ASSUME NEW s, Sound(s)
  PROVE  Waiting(Idle(s)) /\ Idle(s).weStarted = s.weStarted
BY DEF Sound, Waiting, Idle, Service, RequestsOf, StopRequests, Requests

LEMMA FinishOK ==
  ASSUME NEW s, Sound(s), s.job \in Jobs
  PROVE  Waiting(Finish(s)) /\ Finish(s).weStarted = s.weStarted
<1>1. CASE s.job # "stop"
  BY <1>1, IdleOK DEF Finish
<1>2. CASE s.job = "stop" /\ s.client # "none"
  BY <1>2 DEF Finish, Sound, Waiting, Service, RequestsOf, StopRequests, Requests
<1>3. CASE s.job = "stop" /\ s.client = "none"
  <2> DEFINE t == Idle(s)
  <2>1. Waiting(t) /\ t.weStarted = s.weStarted
    BY IdleOK
  <2>2. Finish(s) = [t EXCEPT !.connected = FALSE]
    BY <1>3 DEF Finish
  <2> HIDE DEF t
  <2> QED BY <2>1, <2>2 DEF Waiting, Sound, Service
<1> QED BY <1>1, <1>2, <1>3

(* The collection of an orphan is begun only for one gladlog started.      *)
LEMMA CollectOK ==
  ASSUME NEW s, Sound(s), s.job \in Closing
  PROVE  Waiting(Collect(s)) /\ Collect(s).weStarted = s.weStarted
<1>1. CASE s.client = "none" \/ ~s.weStarted
  BY <1>1, FinishOK DEF Collect, Closing, Jobs, Signals
<1>2. CASE ~(s.client = "none" \/ ~s.weStarted)
  BY <1>2 DEF Collect, Sound, Waiting, Service, RequestsOf, StopRequests, Requests, Closing
<1> QED BY <1>1, <1>2

LEMMA ConnectedOK ==
  ASSUME NEW s, Sound(s), s.job \in Jobs
  PROVE  Waiting(Connected(s)) /\ Connected(s).weStarted = s.weStarted
<1>1. CASE s.job = "open" /\ s.client = "none"
  BY <1>1, FinishOK DEF Connected
<1>2. CASE s.job = "open" /\ s.client # "none"
  BY <1>2 DEF Connected, Sound, Waiting, Service, RequestsOf, StartRequests, StopRequests, Requests
<1>3. CASE s.job = "startup"
  BY <1>3, FinishOK DEF Connected
<1>4. CASE s.job \in Closing
  BY <1>4, CollectOK DEF Connected, Closing
<1> QED BY <1>1, <1>2, <1>3, <1>4 DEF Jobs, Signals, Closing

LEMMA EnsureConnectedOK ==
  ASSUME NEW s, Sound(s), s.job \in Jobs
  PROVE  Waiting(EnsureConnected(s)) /\ EnsureConnected(s).weStarted = s.weStarted
<1>1. CASE s.connected /\ s.client # "none"
  BY <1>1, ConnectedOK DEF EnsureConnected
<1>2. CASE ~(s.connected /\ s.client # "none")
  <2> DEFINE l == s.leaked \/ s.client \in {"opening", "live"}
             t == [s EXCEPT !.client = "opening", !.at = "connect", !.leaked = l]
  <2>1. EnsureConnected(s) = t
    BY <1>2 DEF EnsureConnected
  <2>2. l \in BOOLEAN
    OBVIOUS
  <2>3. s.job \in Jobs /\ s \in Service /\ (s.recording => s.weStarted)
    BY DEF Sound
  <2> HIDE DEF l
  <2>4. /\ t.at = "connect" /\ t.job = s.job /\ t.client = "opening"
        /\ t.recording = s.recording /\ t.weStarted = s.weStarted /\ t \in Service
    BY <2>2, <2>3 DEF Service, Requests
  <2> HIDE DEF t
  <2>5. "connect" \in RequestsOf(s.job)
    BY DEF RequestsOf, Jobs, Signals
  <2> QED BY <2>1, <2>3, <2>4, <2>5 DEF Sound, Waiting, StopRequests
<1> QED BY <1>1, <1>2

LEMMA DoCloseOK ==
  ASSUME NEW s, Sound(s), s.job \in Closing
  PROVE  Waiting(DoClose(s)) /\ DoClose(s).weStarted = s.weStarted
<1> DEFINE t == [s EXCEPT !.valve = FALSE]
<1>1. Sound(t) /\ t.job \in Closing /\ t.weStarted = s.weStarted
  BY DEF Sound, Service
<1>2. t.job \in Jobs
  BY <1>1 DEF Closing, Jobs, Signals
<1>3. DoClose(s) = IF ~t.recording
                   THEN IF t.weStarted THEN EnsureConnected(t) ELSE Finish(t)
                   ELSE IF t.client = "none" THEN Finish(t)
                   ELSE [t EXCEPT !.recording = FALSE, !.at = "stop"]
  BY DEF DoClose
<1> HIDE DEF t
<1>4. CASE ~t.recording \/ t.client = "none"
  BY <1>1, <1>2, <1>3, <1>4, EnsureConnectedOK, FinishOK
<1>5. CASE t.recording /\ t.client # "none"
  <2>1. DoClose(s) = [t EXCEPT !.recording = FALSE, !.at = "stop"]
    BY <1>3, <1>5
  <2>2. t.weStarted
    BY <1>1, <1>5 DEF Sound
  <2> QED BY <1>1, <2>1, <2>2 DEF Sound, Waiting, Service, RequestsOf, StopRequests, Requests, Closing
<1> QED BY <1>4, <1>5

(* A closing socket takes the connection and the recording state with it,  *)
(* and leaves the ownership.                                               *)
LEMMA OnClosedOK ==
  ASSUME NEW s, s \in Service, NEW c \in {"none", "dead"}, NEW l \in BOOLEAN
  PROVE  /\ Sound(OnClosed([s EXCEPT !.client = c]))
         /\ Sound(OnClosed([s EXCEPT !.leaked = l]))
         /\ OnClosed([s EXCEPT !.client = c]).weStarted = s.weStarted
         /\ OnClosed([s EXCEPT !.leaked = l]).weStarted = s.weStarted
BY DEF OnClosed, Sound, Service

LEMMA OnClosedWaits ==
  ASSUME NEW s, Waiting(s), NEW l \in BOOLEAN
  PROVE  /\ Waiting(OnClosed([s EXCEPT !.client = "dead"]))
         /\ Waiting(OnClosed([s EXCEPT !.leaked = l]))
<1>1. s \in Service
  BY DEF Waiting, Sound
<1>2. CASE s.at # "stop"
  BY <1>1, <1>2 DEF OnClosed, Waiting, Sound, Service
<1>3. CASE s.at = "stop"
  BY <1>1, <1>3 DEF OnClosed, Waiting, Sound, Service
<1> QED BY <1>2, <1>3

(* A start that succeeded. *)
LEMMA StartedOK ==
  ASSUME NEW s, Sound(s), s.job \in Jobs, s.valve => s.strays < MaxStrays
  PROVE  Waiting(Started(s)) /\ Started(s).weStarted
<1> DEFINE n == s.strays + (IF s.valve THEN 1 ELSE 0)
           t == [s EXCEPT !.recording = TRUE, !.weStarted = TRUE, !.valve = TRUE, !.strays = n]
<1>1. Started(s) = Finish(t)
  BY DEF Started
<1>2. n \in 0..MaxStrays
  BY RecorderAssumption DEF Sound, Service, RecorderAssumption
<1> HIDE DEF n
<1>3. Sound(t) /\ t.job \in Jobs /\ t.weStarted
  BY <1>2 DEF Sound, Service
<1> HIDE DEF t
<1> QED BY <1>1, <1>3, FinishOK

(* The end of a StopRecord: ownership ends with a stop that was answered,  *)
(* and with any attempt on an orphan.                                      *)
LEMMA AfterStopOK ==
  ASSUME NEW s, Waiting(s), s.at \in StopRequests, NEW ok \in BOOLEAN
  PROVE  /\ Waiting(AfterStop(s, ok))
         /\ AfterStop(s, ok).weStarted = (s.at = "stop" /\ ~ok)
<1>1. s.job \in Jobs /\ s.weStarted /\ s \in Service
  BY DEF Waiting, Sound, Service, RequestsOf, StopRequests
<1>2. CASE s.at = "stop"
  <2> DEFINE w == s.weStarted /\ ~ok
             t == [s EXCEPT !.weStarted = w]
  <2>1. AfterStop(s, ok) = Finish(t)
    BY <1>2 DEF AfterStop
  <2>2. w \in BOOLEAN /\ w = ~ok
    BY <1>1
  <2> HIDE DEF w
  <2>3. Sound(t) /\ t.job \in Jobs /\ t.weStarted = w
    BY <1>1, <1>2, <2>2 DEF Waiting, Sound, Service
  <2> HIDE DEF t
  <2> QED BY <1>2, <2>1, <2>2, <2>3, FinishOK
<1>3. CASE s.at # "stop"
  <2> DEFINE t == [s EXCEPT !.recording = FALSE, !.weStarted = FALSE, !.valve = FALSE]
  <2>1. Sound(t) /\ t.job = s.job /\ ~t.weStarted /\ t.at = s.at /\ t \in Service
    BY <1>1 DEF Waiting, Sound, Service
  <2>2. AfterStop(s, ok) =
          CASE s.at = "reconcile" -> Connected(t)
            [] s.at = "orphan" /\ s.job = "open" ->
                 IF t.client = "none" THEN Finish(t) ELSE [t EXCEPT !.at = "restart"]
            [] OTHER -> Finish(t)
    BY <1>3 DEF AfterStop
  <2>3. s.at = "reconcile" \/ s.at = "orphan"
    BY <1>3 DEF StopRequests
  <2>4. AfterStop(s, ok).weStarted = FALSE => AfterStop(s, ok).weStarted = (s.at = "stop" /\ ~ok)
    BY <1>3
  <2>5. t.weStarted = FALSE /\ t.job \in Jobs
    BY <1>1, <2>1
  <2> HIDE DEF t
  <2>6. CASE s.at = "reconcile"
    <3>1. AfterStop(s, ok) = Connected(t)
      BY <2>2, <2>6
    <3> QED BY <2>1, <2>4, <2>5, <3>1, ConnectedOK
  <2>7. CASE s.at # "reconcile" /\ (s.job # "open" \/ t.client = "none")
    <3>1. AfterStop(s, ok) = Finish(t)
      BY <2>2, <2>7, <2>3
    <3> QED BY <2>1, <2>4, <2>5, <3>1, FinishOK
  <2>8. CASE s.at # "reconcile" /\ s.job = "open" /\ t.client # "none"
    <3>1. AfterStop(s, ok) = [t EXCEPT !.at = "restart"]
      BY <2>2, <2>8, <2>3
    <3> QED BY <1>3, <2>1, <2>8, <3>1
            DEF Sound, Waiting, Service, RequestsOf, StartRequests, StopRequests, Requests
  <2> QED BY <2>6, <2>7, <2>8
<1> QED BY <1>2, <1>3

(* OBS's word on whether it records leads to a StopRecord only for a       *)
(* recording gladlog started.                                              *)
LEMMA ReconciledOK ==
  ASSUME NEW s, Sound(s), s.job \in Jobs, s.at = "status", s.at \in RequestsOf(s.job),
         NEW active \in BOOLEAN
  PROVE  Waiting(Reconciled(s, active)) /\ Reconciled(s, active).weStarted = s.weStarted
<1>1. CASE active /\ ~s.recording /\ s.weStarted /\ s.client # "none"
  BY <1>1 DEF Reconciled, Sound, Waiting, Service, RequestsOf, StopRequests, Requests, Jobs, Signals
<1>2. CASE ~(active /\ ~s.recording /\ s.weStarted /\ s.client # "none") /\ ~active /\ s.recording
  <2> DEFINE t == [s EXCEPT !.recording = FALSE, !.valve = FALSE]
  <2>1. Sound(t) /\ t.job \in Jobs /\ t.weStarted = s.weStarted
    BY DEF Sound, Service
  <2>2. Reconciled(s, active) = Connected(t)
    BY <1>2 DEF Reconciled
  <2> HIDE DEF t
  <2> QED BY <2>1, <2>2, ConnectedOK
<1>3. CASE ~(active /\ ~s.recording /\ s.weStarted /\ s.client # "none") /\ ~(~active /\ s.recording)
  <2>1. Reconciled(s, active) = Connected(s)
    BY <1>3 DEF Reconciled
  <2> QED BY <2>1, ConnectedOK
<1> QED BY <1>1, <1>2, <1>3

-----------------------------------------------------------------------------
LEMMA InitOK == Init => IInv
<1> SUFFICES ASSUME Init PROVE IInv
  OBVIOUS
<1>1. 0 \in 0..MaxStrays
  BY RecorderAssumption DEF RecorderAssumption
<1>2. svc \in Service /\ svc.at \in RequestsOf(svc.job)
  BY <1>1 DEF Init, Service, RequestsOf
<1>3. queue \in Seq(Jobs)
  <2>1. <<>> \in Seq(Jobs)
    OBVIOUS
  <2>2. <<"startup">> \in Seq(Jobs)
    BY DEF Jobs
  <2> QED BY <2>1, <2>2 DEF Init
<1>4. obs \in [rec : Recordings, late : {"none", "start", "stop"}]
  BY DEF Init, Recordings
<1>5. hist \in [behind : BOOLEAN, stolen : BOOLEAN, failed : BOOLEAN]
  BY DEF Init
<1>6. Waiting(svc)
  BY <1>2 DEF Init, Waiting, Sound, StopRequests
<1>7. Belief(svc.weStarted, obs.rec, hist.behind) /\ ~hist.stolen
  BY DEF Init, Belief
<1> QED BY <1>2, <1>3, <1>4, <1>5, <1>6, <1>7 DEF IInv, TypeOK

(* What a step must show when it leaves OBS alone: that the service waits  *)
(* again, and believes what it believed.                                   *)
LEMMA ServiceStep ==
  ASSUME IInv, Waiting(svc)', svc'.weStarted = svc.weStarted,
         queue' \in Seq(Jobs), UNCHANGED obs,
         UNCHANGED hist \/ \E b \in BOOLEAN : hist' = [hist EXCEPT !.failed = b]
  PROVE  IInv'
<1>1. /\ hist' \in [behind : BOOLEAN, stolen : BOOLEAN, failed : BOOLEAN]
      /\ hist'.behind = hist.behind /\ hist'.stolen = hist.stolen
  BY DEF IInv, TypeOK
<1>2. svc' \in Service /\ svc'.at \in RequestsOf(svc'.job)
  BY DEF Waiting, Sound
<1> QED BY <1>1, <1>2 DEF IInv, TypeOK

(* And when it leaves the service and the queue alone.                     *)
LEMMA ObsStep ==
  ASSUME IInv, UNCHANGED <<svc, queue>>,
         obs' \in [rec : Recordings, late : {"none", "start", "stop"}],
         hist' \in [behind : BOOLEAN, stolen : BOOLEAN, failed : BOOLEAN],
         hist'.stolen = hist.stolen,
         obs'.rec = "ours" => obs.rec = "ours",
         hist.behind => hist'.behind,
         obs.rec = "ours" => obs'.rec = "ours" \/ hist'.behind
  PROVE  IInv'
BY DEF IInv, TypeOK, Waiting, Sound, Belief

LEMMA SignalStep ==
  ASSUME IInv, NEW k \in Signals, Signal(k)
  PROVE  IInv'
<1> DEFINE q == svc.quitting \/ k = "stop"
<1>1. svc' = [svc EXCEPT !.quitting = q] /\ UNCHANGED <<obs, hist>>
  BY DEF Signal
<1>2. q \in BOOLEAN
  OBVIOUS
<1> HIDE DEF q
<1>3. Waiting(svc)' /\ svc'.weStarted = svc.weStarted
  BY <1>1, <1>2 DEF IInv, Waiting, Sound, Service
<1>4. queue' \in Seq(Jobs)
  BY DEF Signal, Jobs, IInv, TypeOK
<1> QED BY <1>1, <1>3, <1>4, ServiceStep

LEMMA TimerStep ==
  ASSUME IInv, ValveFires \/ StrayFires
  PROVE  IInv'
<1>1. queue' \in Seq(Jobs) /\ UNCHANGED <<obs, hist>>
  BY DEF ValveFires, StrayFires, Jobs, IInv, TypeOK
<1>2. CASE ValveFires
  <2>1. Waiting(svc)' /\ svc'.weStarted = svc.weStarted
    BY <1>2 DEF ValveFires, IInv, Waiting, Sound, Service
  <2> QED BY <1>1, <2>1, ServiceStep
<1>3. CASE StrayFires
  <2> DEFINE n == svc.strays - 1
  <2>1. svc' = [svc EXCEPT !.strays = n]
    BY <1>3 DEF StrayFires
  <2>2. n \in 0..MaxStrays
    BY <1>3, RecorderAssumption DEF StrayFires, RecorderAssumption, IInv, Waiting, Sound, Service
  <2> HIDE DEF n
  <2>3. Waiting(svc)' /\ svc'.weStarted = svc.weStarted
    BY <2>1, <2>2 DEF IInv, Waiting, Sound, Service
  <2> QED BY <1>1, <2>3, ServiceStep
<1> QED BY <1>2, <1>3

LEMMA BeginStep ==
  ASSUME IInv, Begin
  PROVE  IInv'
<1> DEFINE j == Head(queue)
           s == [svc EXCEPT !.job = j]
<1>1. /\ queue # <<>> /\ queue' = Tail(queue) /\ UNCHANGED obs
      /\ hist' = [hist EXCEPT !.failed = FALSE]
      /\ svc' = CASE s.job = "open" -> IF s.recording THEN Finish(s) ELSE EnsureConnected(s)
                   [] s.job = "startup" -> EnsureConnected(s)
                   [] OTHER -> DoClose(s)
  BY DEF Begin
<1>2. j \in Jobs /\ queue' \in Seq(Jobs)
  BY <1>1 DEF IInv, TypeOK
<1> HIDE DEF j
<1>3. Sound(s) /\ s.job = j /\ s.weStarted = svc.weStarted
  BY <1>2 DEF IInv, Waiting, Sound, Service
<1> HIDE DEF s
<1>4. CASE j = "open" \/ j = "startup"
  <2>1. svc' = Finish(s) \/ svc' = EnsureConnected(s)
    BY <1>1, <1>3, <1>4
  <2>2. Waiting(svc') /\ svc'.weStarted = svc.weStarted
    BY <1>2, <1>3, <2>1, FinishOK, EnsureConnectedOK
  <2> QED BY <1>1, <1>2, <2>2, ServiceStep DEF Waiting, Sound
<1>5. CASE ~(j = "open" \/ j = "startup")
  <2>1. svc' = DoClose(s)
    BY <1>1, <1>3, <1>5
  <2>2. j \in Closing
    BY <1>2, <1>5 DEF Jobs, Signals, Closing
  <2>3. Waiting(svc') /\ svc'.weStarted = svc.weStarted
    BY <1>3, <2>1, <2>2, DoCloseOK
  <2> QED BY <1>1, <1>2, <2>3, ServiceStep DEF Waiting, Sound
<1> QED BY <1>4, <1>5

(* While a job waits for a request it is one of the jobs, and the service  *)
(* is sound.                                                               *)
LEMMA Awaiting ==
  ASSUME IInv, svc.at # "idle"
  PROVE  Sound(svc) /\ svc.job \in Jobs /\ svc \in Service /\ queue \in Seq(Jobs)
BY DEF IInv, TypeOK, Waiting, Sound, Service, RequestsOf

LEMMA ConnectStep ==
  ASSUME IInv, ConnectAnswered \/ ConnectRefused \/ ConnectTimesOut
  PROVE  IInv'
<1>1. Sound(svc) /\ svc.job \in Jobs /\ svc \in Service /\ queue \in Seq(Jobs)
  BY Awaiting DEF ConnectAnswered, ConnectRefused, ConnectTimesOut
<1>2. CASE ConnectAnswered
  <2> DEFINE s == [svc EXCEPT !.connected = TRUE]
  <2>1. CASE svc.client = "none"
    <3>1. svc' = Connected(s)
      BY <1>2, <2>1, <1>1 DEF ConnectAnswered, Service
    <3>2. Sound(s) /\ s.job \in Jobs /\ s.weStarted = svc.weStarted
      BY <1>1, <2>1 DEF Sound, Service
    <3> HIDE DEF s
    <3>3. Waiting(svc') /\ svc'.weStarted = svc.weStarted
      BY <3>1, <3>2, ConnectedOK
    <3> QED BY <1>1, <1>2, <3>3, ServiceStep DEF ConnectAnswered, Waiting, Sound
  <2>2. CASE svc.client = "opening"
    <3>1. svc' = [s EXCEPT !.client = "live", !.at = "status"]
      BY <1>2, <2>2, <1>1 DEF ConnectAnswered, Service
    <3>2. s \in Service /\ s.job = svc.job /\ s.weStarted = svc.weStarted /\ s.recording = svc.recording
      BY <1>1 DEF Service
    <3> HIDE DEF s
    <3>3. "status" \in RequestsOf(svc.job)
      BY <1>1 DEF RequestsOf, Jobs, Signals
    <3>4. Waiting(svc') /\ svc'.weStarted = svc.weStarted
      BY <1>1, <3>1, <3>2, <3>3 DEF Waiting, Sound, Service, Requests, StopRequests
    <3> QED BY <1>1, <1>2, <3>4, ServiceStep DEF ConnectAnswered, Waiting, Sound
  <2> QED BY <1>2, <2>1, <2>2 DEF ConnectAnswered
<1>3. CASE ConnectRefused
  <2> DEFINE c == IF svc.client = "none" THEN svc.client ELSE "dead"
             s == OnClosed([svc EXCEPT !.client = c])
  <2>1. svc' = Finish(s) /\ hist' = [hist EXCEPT !.failed = TRUE] /\ UNCHANGED <<queue, obs>>
    BY <1>3 DEF ConnectRefused, Failed
  <2>2. c \in {"none", "dead"}
    OBVIOUS
  <2>3. s.job = svc.job
    BY <1>1 DEF OnClosed, Service
  <2> HIDE DEF c
  <2>4. Sound(s) /\ s.weStarted = svc.weStarted
    BY <1>1, <2>2, OnClosedOK
  <2> HIDE DEF s
  <2>5. Waiting(svc') /\ svc'.weStarted = svc.weStarted
    BY <1>1, <2>1, <2>3, <2>4, FinishOK
  <2> QED BY <1>1, <2>1, <2>5, ServiceStep DEF Waiting, Sound
<1>4. CASE ConnectTimesOut
  <2>1. Waiting(svc') /\ svc'.weStarted = svc.weStarted
    BY <1>1, <1>4, FinishOK DEF ConnectTimesOut
  <2> QED BY <1>1, <1>4, <2>1, ServiceStep DEF ConnectTimesOut, Failed, Waiting, Sound
<1> QED BY <1>2, <1>3, <1>4

LEMMA StatusStep ==
  ASSUME IInv, StatusAnswered \/ StatusFails
  PROVE  IInv'
<1>1. Sound(svc) /\ svc.job \in Jobs /\ queue \in Seq(Jobs) /\ svc.at \in RequestsOf(svc.job)
  BY Awaiting DEF StatusAnswered, StatusFails, IInv, TypeOK
<1>2. Waiting(svc') /\ svc'.weStarted = svc.weStarted
  <2>1. CASE StatusAnswered
    <3> DEFINE active == obs.rec # "no"
    <3>1. svc' = Reconciled(svc, active) /\ svc.at = "status" /\ active \in BOOLEAN
      BY <2>1 DEF StatusAnswered
    <3> HIDE DEF active
    <3> QED BY <1>1, <3>1, ReconciledOK
  <2>2. CASE StatusFails
    BY <1>1, <2>2, ConnectedOK DEF StatusFails
  <2> QED BY <2>1, <2>2
<1>3. UNCHANGED <<queue, obs>> /\ (UNCHANGED hist \/ hist' = [hist EXCEPT !.failed = TRUE])
  BY DEF StatusAnswered, StatusFails, Failed
<1> QED BY <1>1, <1>2, <1>3, ServiceStep DEF Waiting, Sound

(* The end of stop(): the connection is given up.                          *)
LEMMA DisconnectStep ==
  ASSUME IInv, DisconnectEnds
  PROVE  IInv'
<1>1. Sound(svc) /\ svc.job \in Jobs /\ svc \in Service /\ queue \in Seq(Jobs)
  BY Awaiting DEF DisconnectEnds
<1>2. Waiting(svc') /\ svc'.weStarted = svc.weStarted
  <2>1. CASE svc' = [Idle(svc) EXCEPT !.connected = FALSE]
    <3> DEFINE s == Idle(svc)
    <3>1. Waiting(s) /\ s.weStarted = svc.weStarted
      BY <1>1, IdleOK
    <3>2. svc' = [s EXCEPT !.connected = FALSE]
      BY <2>1
    <3> HIDE DEF s
    <3> QED BY <3>1, <3>2 DEF Waiting, Sound, Service
  <2>2. CASE svc' = Idle(OnClosed([svc EXCEPT !.client = "dead"]))
    <3>1. /\ Sound(OnClosed([svc EXCEPT !.client = "dead"]))
          /\ OnClosed([svc EXCEPT !.client = "dead"]).weStarted = svc.weStarted
      BY <1>1, OnClosedOK
    <3> QED BY <2>2, <3>1, IdleOK
  <2> QED BY <2>1, <2>2 DEF DisconnectEnds
<1> QED BY <1>1, <1>2, ServiceStep DEF DisconnectEnds, Waiting, Sound

LEMMA StartStep ==
  ASSUME IInv, StartAnswered \/ StartRefused \/ StartFails
  PROVE  IInv'
<1>1. /\ Sound(svc) /\ svc.job \in Jobs /\ svc \in Service /\ queue \in Seq(Jobs)
      /\ svc.at \in RequestsOf(svc.job) /\ svc.at \in StartRequests
  BY Awaiting DEF StartAnswered, StartRefused, StartFails, StartRequests, IInv, TypeOK
<1>2. CASE StartAnswered
  <2>1. /\ svc' = Started(svc) /\ obs' = [obs EXCEPT !.rec = "ours"]
        /\ hist' = [hist EXCEPT !.behind = FALSE] /\ queue' = queue
        /\ svc.valve => svc.strays < MaxStrays
    BY <1>2 DEF StartAnswered
  <2>2. Waiting(svc') /\ svc'.weStarted
    BY <1>1, <2>1, StartedOK
  <2>3. /\ obs' \in [rec : Recordings, late : {"none", "start", "stop"}] /\ obs'.rec = "ours"
        /\ hist' \in [behind : BOOLEAN, stolen : BOOLEAN, failed : BOOLEAN]
        /\ hist'.stolen = hist.stolen
    BY <2>1 DEF IInv, TypeOK, Recordings
  <2> QED BY <1>1, <2>1, <2>2, <2>3 DEF IInv, TypeOK, Waiting, Sound, Belief
<1>3. CASE StartRefused
  <2>1. Waiting(svc') /\ svc'.weStarted = svc.weStarted
    <3>1. CASE svc.at = "start" /\ svc.weStarted /\ svc.client # "none"
      <4>1. svc' = [svc EXCEPT !.at = "orphan"]
        BY <1>3, <3>1 DEF StartRefused
      <4>2. svc.job = "open"
        BY <1>1, <3>1 DEF RequestsOf, Jobs, Signals, StopRequests
      <4> QED BY <1>1, <3>1, <4>1, <4>2 DEF Waiting, Sound, Service, Requests, RequestsOf, StopRequests
    <3>2. CASE ~(svc.at = "start" /\ svc.weStarted /\ svc.client # "none")
      <4>1. svc' = Finish(svc)
        BY <1>3, <3>2 DEF StartRefused
      <4> QED BY <1>1, <4>1, FinishOK
    <3> QED BY <3>1, <3>2
  <2> QED BY <1>1, <1>3, <2>1, ServiceStep DEF StartRefused, Failed, Waiting, Sound
<1>4. CASE StartFails
  <2>1. Waiting(svc') /\ svc'.weStarted = svc.weStarted
    BY <1>1, <1>4, FinishOK DEF StartFails
  <2>2. /\ obs' \in [rec : Recordings, late : {"none", "start", "stop"}]
        /\ obs'.rec = obs.rec \/ (obs.rec = "no" /\ obs'.rec = "silent")
    BY <1>4 DEF StartFails, IInv, TypeOK, Recordings
  <2>3. /\ hist' \in [behind : BOOLEAN, stolen : BOOLEAN, failed : BOOLEAN]
        /\ hist'.stolen = hist.stolen /\ hist'.behind = hist.behind /\ queue' = queue
    BY <1>4 DEF StartFails, Failed, IInv, TypeOK
  <2> QED BY <1>1, <2>1, <2>2, <2>3 DEF IInv, TypeOK, Waiting, Sound, Belief
<1> QED BY <1>2, <1>3, <1>4

(* A StopRecord that was answered ended our recording, or the user's after *)
(* ours had ended unseen.                                                  *)
LEMMA StopStep ==
  ASSUME IInv, StopAnswered \/ StopFails
  PROVE  IInv'
<1>1. /\ Waiting(svc) /\ svc.at \in StopRequests /\ svc.weStarted /\ queue \in Seq(Jobs)
      /\ obs.rec = "ours" \/ hist.behind
      /\ queue' = queue
  BY DEF StopAnswered, StopFails, IInv, TypeOK, Waiting, Belief
<1>2. CASE StopAnswered
  <2>1. /\ svc' = AfterStop(svc, TRUE) /\ obs' = [obs EXCEPT !.rec = "no"]
        /\ hist' = [hist EXCEPT !.stolen = @ \/ (obs.rec = "users" /\ ~hist.behind),
                                !.behind = FALSE]
    BY <1>2 DEF StopAnswered
  <2>2. Waiting(svc') /\ ~svc'.weStarted
    BY <1>1, <2>1, AfterStopOK
  <2>3. obs' \in [rec : Recordings, late : {"none", "start", "stop"}] /\ obs'.rec = "no"
    BY <2>1 DEF IInv, TypeOK, Recordings
  <2>4. hist' = [hist EXCEPT !.stolen = FALSE, !.behind = FALSE]
    <3>1. (hist.stolen \/ (obs.rec = "users" /\ ~hist.behind)) = FALSE
      BY <1>1 DEF IInv
    <3> QED BY <2>1, <3>1
  <2>5. /\ hist' \in [behind : BOOLEAN, stolen : BOOLEAN, failed : BOOLEAN]
        /\ ~hist'.stolen
    BY <2>4 DEF IInv, TypeOK
  <2> QED BY <1>1, <2>2, <2>3, <2>5 DEF IInv, TypeOK, Waiting, Sound, Belief
<1>3. CASE StopFails
  <2>1. svc' = AfterStop(svc, FALSE)
    BY <1>3 DEF StopFails
  <2>2. Waiting(svc') /\ svc'.weStarted = (svc.at = "stop")
    BY <1>1, <2>1, AfterStopOK
  <2>3. /\ obs' \in [rec : Recordings, late : {"none", "start", "stop"}]
        /\ obs'.rec = GivenUp \/ obs'.rec = "no"
    BY <1>3 DEF StopFails, GivenUp, IInv, TypeOK, Recordings
  <2>4. /\ hist' \in [behind : BOOLEAN, stolen : BOOLEAN, failed : BOOLEAN]
        /\ hist'.stolen = hist.stolen
        /\ hist.behind => hist'.behind
        /\ obs'.rec = GivenUp \/ (obs.rec = "ours" => hist'.behind)
    <3>1. CASE obs'.rec = GivenUp /\ Failed
      BY <3>1 DEF Failed, IInv, TypeOK
    <3>2. CASE hist' = [hist EXCEPT !.failed = TRUE, !.behind = @ \/ obs.rec = "ours"]
      <4> DEFINE b == hist.behind \/ obs.rec = "ours"
      <4>1. hist' = [hist EXCEPT !.failed = TRUE, !.behind = b] /\ b \in BOOLEAN
        BY <3>2
      <4> HIDE DEF b
      <4>2. /\ hist' \in [behind : BOOLEAN, stolen : BOOLEAN, failed : BOOLEAN]
            /\ hist'.stolen = hist.stolen /\ hist'.behind = b
        BY <4>1 DEF IInv, TypeOK
      <4> QED BY <4>2 DEF b
    <3>3. \/ obs' = [obs EXCEPT !.rec = GivenUp] /\ Failed
          \/ obs' = [rec |-> GivenUp, late |-> "stop"] /\ Failed
          \/ hist' = [hist EXCEPT !.failed = TRUE, !.behind = @ \/ obs.rec = "ours"]
      BY <1>3 DEF StopFails
    <3>4. obs' = [obs EXCEPT !.rec = GivenUp] \/ obs' = [rec |-> GivenUp, late |-> "stop"]
            => obs'.rec = GivenUp
      BY DEF IInv, TypeOK
    <3> QED BY <3>1, <3>2, <3>3, <3>4
  <2>5. Belief(svc'.weStarted, obs'.rec, hist'.behind)
    <3>1. CASE svc.at = "stop"
      <4>1. svc'.weStarted /\ GivenUp = obs.rec
        BY <2>2, <3>1 DEF GivenUp
      <4> QED BY <1>1, <2>3, <2>4, <4>1 DEF Belief
    <3>2. CASE svc.at # "stop"
      <4>1. ~svc'.weStarted /\ GivenUp # "ours"
        BY <2>2, <3>2 DEF GivenUp
      <4> QED BY <2>3, <4>1 DEF Belief
    <3> QED BY <3>1, <3>2
  <2> QED BY <1>1, <2>2, <2>3, <2>4, <2>5 DEF IInv, TypeOK, Waiting, Sound
<1> QED BY <1>2, <1>3

(* OBS, its user and the sockets.                                          *)
LEMMA WorldStep ==
  ASSUME IInv, World
  PROVE  IInv'
<1> DEFINE gone == hist.behind \/ obs.rec = "ours"
<1>1. CASE LateRequest \/ UserStarts \/ UserStops
  <2>1. /\ obs' \in [rec : Recordings, late : {"none", "start", "stop"}]
        /\ UNCHANGED <<svc, queue>>
        /\ obs'.rec = "ours" => obs.rec = "ours"
    BY <1>1 DEF LateRequest, UserStarts, UserStops, IInv, TypeOK, Recordings
  <2>2. \/ UNCHANGED hist /\ (obs.rec = "ours" => obs'.rec = "ours")
        \/ hist' = [hist EXCEPT !.behind = gone]
    BY <1>1 DEF LateRequest, UserStarts, UserStops, IInv, TypeOK, Recordings
  <2>3. gone \in BOOLEAN /\ (hist.behind => gone) /\ (obs.rec = "ours" => gone)
    OBVIOUS
  <2> HIDE DEF gone
  <2>4. /\ hist' \in [behind : BOOLEAN, stolen : BOOLEAN, failed : BOOLEAN]
        /\ hist'.stolen = hist.stolen
        /\ hist.behind => hist'.behind
        /\ obs.rec = "ours" => obs'.rec = "ours" \/ hist'.behind
    BY <2>2, <2>3 DEF IInv, TypeOK
  <2> QED BY <2>1, <2>4, ObsStep
<1>2. CASE LateConnection
  <2>1. Waiting(svc)' /\ svc'.weStarted = svc.weStarted
    BY <1>2 DEF LateConnection, IInv, Waiting, Sound, Service
  <2> QED BY <1>2, <2>1, ServiceStep DEF LateConnection, IInv, TypeOK
<1>3. CASE SocketCloses \/ FormerSocketCloses
  <2>1. \/ svc' = OnClosed([svc EXCEPT !.client = "dead"])
        \/ \E l \in BOOLEAN : svc' = OnClosed([svc EXCEPT !.leaked = l])
    BY <1>3 DEF SocketCloses, FormerSocketCloses
  <2>2. Waiting(svc) /\ svc \in Service
    BY DEF IInv, Waiting, Sound
  <2>3. Waiting(svc') /\ svc'.weStarted = svc.weStarted
    BY <2>1, <2>2, OnClosedWaits, OnClosedOK
  <2> QED BY <1>3, <2>3, ServiceStep DEF SocketCloses, FormerSocketCloses, IInv, TypeOK, Waiting, Sound
<1>4. CASE TestConnection
  <2> DEFINE c == IF svc.connected THEN svc.client ELSE "none"
             l == svc.leaked \/ (~svc.connected /\ svc.client \in {"opening", "live"})
             b == hist.failed \/ ~svc.connected
  <2>1. /\ svc' = [svc EXCEPT !.connected = TRUE, !.client = c, !.leaked = l]
        /\ hist' = [hist EXCEPT !.failed = b] /\ UNCHANGED <<queue, obs>>
    BY <1>4 DEF TestConnection
  <2>2. /\ l \in BOOLEAN /\ b \in BOOLEAN
        /\ c \in {"none", "opening", "live"}
    BY DEF IInv, Waiting, Sound, Service
  <2> HIDE DEF c, l, b
  <2>3. Waiting(svc)' /\ svc'.weStarted = svc.weStarted
    BY <2>1, <2>2 DEF IInv, Waiting, Sound, Service
  <2> QED BY <2>1, <2>2, <2>3, ServiceStep DEF IInv, TypeOK
<1> QED BY <1>1, <1>2, <1>3, <1>4 DEF World

LEMMA NextStep ==
  ASSUME IInv, [Next]_vars
  PROVE  IInv'
<1>1. CASE UNCHANGED vars
  BY <1>1 DEF vars, IInv, TypeOK, Waiting, Sound, Belief
<1>2. CASE \E k \in Signals : Signal(k)
  BY <1>2, SignalStep
<1>3. CASE ValveFires \/ StrayFires
  BY <1>3, TimerStep
<1>4. CASE Begin
  BY <1>4, BeginStep
<1>5. CASE Answer \/ TimeOut
  BY <1>5, ConnectStep, StatusStep, StartStep, StopStep, DisconnectStep DEF Answer, TimeOut
<1>6. CASE World
  BY <1>6, WorldStep
<1> QED BY <1>1, <1>2, <1>3, <1>4, <1>5, <1>6 DEF Next

LEMMA Inductive == Spec => []IInv
<1>1. IInv /\ [Next]_vars => IInv'
  BY NextStep
<1> QED BY InitOK, <1>1, PTL DEF Spec

-----------------------------------------------------------------------------
(* The service waits only for answers its job can ask for, and OBS and the *)
(* queue stay well-typed (recorder.ts: one promise chain).                 *)
THEOREM TypeCorrect == Spec => []TypeOK
<1>1. IInv => TypeOK
  BY DEF IInv
<1> QED BY Inductive, <1>1, PTL

(* Whatever answers are lost or late, a recording gladlog started is known *)
(* for its own until it is over or given up (recorder.ts, weStartedRecording). *)
THEOREM KnownDebtHolds == Spec => []KnownDebt
<1>1. IInv => KnownDebt
  BY DEF IInv, Belief, KnownDebt
<1> QED BY Inductive, <1>1, PTL

(* gladlog never stops a recording of the user's unless one of its own has *)
(* ended behind its back (reconcileWithReality, the already-active fallback). *)
THEOREM LeavesUsersRecordingHolds == Spec => []LeavesUsersRecording
<1>1. IInv => LeavesUsersRecording
  BY DEF IInv, LeavesUsersRecording
<1> QED BY Inductive, <1>1, PTL

(* No connection test, late answer or closing socket makes a dead client   *)
(* pass for a connection (ensureConnected, testConnection).                *)
THEOREM ConnectedNotDeadHolds == Spec => []ConnectedNotDead
<1>1. IInv => ConnectedNotDead
  BY DEF IInv, Waiting, Sound, ConnectedNotDead
<1> QED BY Inductive, <1>1, PTL

-----------------------------------------------------------------------------
(* The end of the application: the safety properties of QuitLifecycle, for *)
(* any number of checks and clicks.                                        *)

(* The phase tells how far the one cleanup is.                             *)
CleanupInv ==
  /\ chains = (IF phase = "idle" THEN 0 ELSE 1)
  /\ phase = "finishing" => host # "up"
  /\ app # "running" => phase = "finishing"
  /\ installers > 0 => phase = "finishing"

(* Until the only call of install() has gone on, electron-updater has not  *)
(* been called, and as long as it has not, only the exit can install.      *)
InstallerInv ==
  /\ ~installing => installs = 0
  /\ ~installing \/ installs > 0 => ~handed
  /\ ~handed /\ app # "gone" => installers = 0
  /\ installers <= 1

(* QuitTypeOK in two parts, for two provers.                               *)
Flags ==
  /\ thenQuit \in BOOLEAN /\ installing \in BOOLEAN /\ downloaded \in BOOLEAN
  /\ handed \in BOOLEAN /\ quitSoon \in BOOLEAN

Values ==
  /\ phase \in {"idle", "stopping", "finishing"}
  /\ recorder \in {"on", "pending", "stopped", "failed"}
  /\ host \in {"up", "stopped", "failed"} /\ chains \in Nat
  /\ update \in {"idle", "checking", "downloading", "ready", "error"}
  /\ installs \in 0..1
  /\ watchdog \in {"off", "armed", "fired", "thrown"}
  /\ feed \in {"quiet", "checking", "downloading"}
  /\ installers \in Nat
  /\ app \in {"running", "closing", "gone"}
  /\ checks \in 0..MaxChecks /\ clicks \in 0..MaxClicks

QuitInv == Values /\ CleanupInv /\ InstallerInv

(* The two parts are the type invariant.                                   *)
LEMMA TypesTogether == Flags /\ Values => QuitTypeOK
  BY DEF Flags, Values, QuitTypeOK

(* Flags and invariant hold initially.                                     *)
LEMMA QuitInitInv == QuitInit => Flags /\ QuitInv
<1>1. QuitInit => Flags
  BY Zenon DEF QuitInit, Flags
<1>2. QuitInit => Values
  BY QuitAssumption DEF QuitInit, Values
<1>3. QuitInit => CleanupInv /\ InstallerInv
  BY DEF QuitInit, CleanupInv, InstallerInv
<1> QED
  BY <1>1, <1>2, <1>3 DEF QuitInv

(* before-quit leaves it Boolean who started the cleanup.                  *)
LEMMA BeforeQuitFlag ==
  Values /\ thenQuit \in BOOLEAN /\ BeforeQuit => thenQuit' \in BOOLEAN
<1> SUFFICES ASSUME Values, thenQuit \in BOOLEAN, BeforeQuit PROVE thenQuit' \in BOOLEAN
  OBVIOUS
<1>1. phase \in {"idle", "stopping", "finishing"}
  BY DEF Values
<1>2. CASE phase = "idle"
  <2>1. thenQuit' = TRUE
    BY <1>2 DEF BeforeQuit, StartCleanup
  <2> QED
    BY <2>1, Zenon
<1>3. CASE phase # "idle"
  <2>1. thenQuit' = thenQuit
    BY <1>1, <1>3 DEF BeforeQuit, lifecycleVars
  <2> QED
    BY <2>1, Zenon
<1> QED
  BY <1>2, <1>3

(* The flags stay Boolean.                                                 *)
LEMMA QuitNextFlags == Flags /\ Values /\ [QuitNext]_quitVars => Flags'
<1> SUFFICES ASSUME Flags, Values, [QuitNext]_quitVars PROVE Flags'
  OBVIOUS
<1> USE DEF Flags, lifecycleVars, updaterVars, backendVars
<1>1. CASE AskToQuit
  BY <1>1, BeforeQuitFlag, Zenon DEF AskToQuit
<1>2. CASE RecorderStops
  BY <1>2, Zenon DEF RecorderStops
<1>3. CASE Settled
  BY <1>3, Zenon DEF Settled
<1>4. CASE Check
  BY <1>4, Zenon DEF Check
<1>5. CASE FeedEvent
  BY <1>5, Zenon DEF FeedEvent
<1>6. CASE Install
  BY <1>6, Zenon DEF Install, StartCleanup
<1>7. CASE HandOver
  BY <1>7, Zenon DEF HandOver
<1>8. CASE QuitForUpdate
  BY <1>8, BeforeQuitFlag, Zenon DEF QuitForUpdate
<1>9. CASE WatchdogFires
  BY <1>9, Zenon DEF WatchdogFires
<1>10. CASE Exit
  BY <1>10, Zenon DEF Exit
<1>11. CASE UNCHANGED quitVars
  BY <1>11, Zenon DEF quitVars
<1> QED
  BY <1>1, <1>2, <1>3, <1>4, <1>5, <1>6, <1>7, <1>8, <1>9, <1>10, <1>11 DEF QuitNext

(* Every action keeps the invariant.                                       *)
LEMMA QuitNextInv == Flags /\ QuitInv /\ [QuitNext]_quitVars => QuitInv'
<1> SUFFICES ASSUME Flags, QuitInv, [QuitNext]_quitVars PROVE QuitInv'
  OBVIOUS
<1> USE QuitAssumption DEF Flags, QuitInv, Values, CleanupInv, InstallerInv, lifecycleVars,
        updaterVars, backendVars
<1>1. CASE AskToQuit
  <2> USE DEF AskToQuit, Turn, BeforeQuit, Dispose
  <2>1. CASE phase = "finishing"
    BY <1>1, <2>1
  <2>2. CASE phase = "stopping"
    BY <1>1, <2>2
  <2>3. CASE phase = "idle"
    BY <1>1, <2>3 DEF StartCleanup
  <2> QED
    BY <2>1, <2>2, <2>3
<1>2. CASE RecorderStops
  BY <1>2 DEF RecorderStops
<1>3. CASE Settled
  <2> USE DEF Settled
  <2>1. CASE thenQuit
    BY <1>3, <2>1 DEF Dispose
  <2>2. CASE ~thenQuit
    BY <1>3, <2>2
  <2> QED
    BY <2>1, <2>2
<1>4. CASE Check
  BY <1>4 DEF Check
<1>5. CASE FeedEvent
  BY <1>5 DEF FeedEvent
<1>6. CASE Install
  <2> USE DEF Install, Turn, MayInstall
  <2>1. CASE phase = "idle"
    BY <1>6, <2>1 DEF StartCleanup
  <2>2. CASE phase # "idle"
    BY <1>6, <2>2
  <2> QED
    BY <2>1, <2>2
<1>7. CASE HandOver
  BY <1>7 DEF HandOver, Waits
<1>8. CASE QuitForUpdate
  <2> USE DEF QuitForUpdate, Turn, BeforeQuit, Dispose
  <2>1. CASE app = "running" /\ phase = "finishing"
    BY <1>8, <2>1
  <2>2. CASE app = "running" /\ phase = "stopping"
    BY <1>8, <2>2
  <2>3. CASE app = "running" /\ phase = "idle"
    BY <1>8, <2>3 DEF StartCleanup
  <2>4. CASE app # "running"
    BY <1>8, <2>4
  <2> QED
    BY <2>1, <2>2, <2>3, <2>4
<1>9. CASE WatchdogFires
  BY <1>9 DEF WatchdogFires
<1>10. CASE Exit
  BY <1>10 DEF Exit, Turn
<1>11. CASE UNCHANGED quitVars
  BY <1>11 DEF quitVars
<1> QED
  BY <1>1, <1>2, <1>3, <1>4, <1>5, <1>6, <1>7, <1>8, <1>9, <1>10, <1>11 DEF QuitNext

(* The invariant holds in every reachable state.                           *)
THEOREM QuitInductive == QuitSpec => [](Flags /\ QuitInv)
<1>1. QuitInit => Flags /\ QuitInv
  BY QuitInitInv
<1>2. Flags /\ QuitInv /\ [QuitNext]_quitVars => Flags' /\ QuitInv'
  BY QuitNextFlags, QuitNextInv DEF QuitInv
<1> QED
  BY <1>1, <1>2, PTL DEF QuitSpec

(* The state of lifecycle, updater and electron-updater stays well-typed;  *)
(* of install() at most one call waits for the cleanup.                    *)
THEOREM QuitTypeCorrect == QuitSpec => []QuitTypeOK
<1>1. Flags /\ QuitInv => QuitTypeOK
  BY TypesTogether DEF QuitInv
<1> QED
  BY <1>1, QuitInductive, PTL

(* However quits, clicks and answers of OBS meet: neither the end of the   *)
(* application nor an installer comes before the one cleanup is over.      *)
THEOREM NothingBeforeCleanupHolds == QuitSpec => []NothingBeforeCleanup
<1>1. QuitInv => NothingBeforeCleanup
  BY DEF QuitInv, CleanupInv, NothingBeforeCleanup
<1> QED
  BY <1>1, QuitInductive, PTL

(* However often the user clicks and whatever the handover does, at most   *)
(* one installer is started.                                               *)
THEOREM OneInstallerHolds == QuitSpec => []OneInstaller
<1>1. QuitInv => OneInstaller
  BY DEF QuitInv, InstallerInv, OneInstaller
<1> QED
  BY <1>1, QuitInductive, PTL

-----------------------------------------------------------------------------
(***************************************************************************)
(* The index of recordings: every property of RecordingsStore that holds,  *)
(* for any number of files and matches and any limits.                     *)
(***************************************************************************)

(* Types of a row, and of the index.                                       *)
RowSet == [start : 0..MaxTime, stop : 0..MaxTime, matches : Seq(Matches)]
IndexSet == [Files -> RowSet]

(* A recording has m.                                                      *)
Carried(I, m) == \E f \in Files : m \in Carries(I, f)

(* The row says of its recording that it may show m.                       *)
Shows(r, m) == r.start # 0 /\ r.start < end[m] /\ (r.stop = 0 \/ Overlap(r, m) > 0)

(* J is I with matches added.                                              *)
Grown(I, J) ==
  /\ J \in IndexSet
  /\ \A f \in Files : /\ J[f].start = I[f].start /\ J[f].stop = I[f].stop
                      /\ Carries(I, f) \subseteq Carries(J, f)

(* Nobody shares a match, and a file without a row carries none.           *)
Sole(I) ==
  /\ \A f, g \in Files : Carries(I, f) \cap Carries(I, g) # {} => f = g
  /\ \A f \in Files : I[f].start = 0 => I[f].matches = <<>>

(* Types of the log's times.                                               *)
MatchTimes == start \in [Matches -> 0..MaxTime] /\ end \in [Matches -> 0..MaxTime]

(* Induction from 0 up to N, for a set.                                    *)
LEMMA FromZeroUp ==
  ASSUME NEW N \in Nat, NEW T, 0 \in T, \A n \in 0..N : n \in T /\ n < N => n + 1 \in T
  PROVE  \A n \in 0..N : n \in T
<1> DEFINE U == {n \in 0..N : n \notin T}
<1>1. U = {}
  <2> SUFFICES ASSUME U # {} PROVE FALSE
    OBVIOUS
  <2>1. U \subseteq Nat
    OBVIOUS
  <2>2. \E x \in U : \A y \in U : ~(<<y, x>> \in OpToRel(<, Nat))
    <3> HIDE DEF U
    <3> QED BY <2>1, NatLessThanWellFounded, WFMin
  <2>3. PICK x \in U : \A y \in U : ~(<<y, x>> \in OpToRel(<, Nat))
    BY <2>2
  <2>4. x \in 0..N /\ x \notin T /\ x # 0
    BY <2>3
  <2>5. x - 1 \in 0..N /\ x - 1 < x /\ x - 1 \in Nat /\ x \in Nat
    BY <2>4
  <2>6. <<x - 1, x>> \in OpToRel(<, Nat)
    BY <2>5 DEF OpToRel
  <2>7. x - 1 \in T
    BY <2>3, <2>5, <2>6
  <2>8. (x - 1) + 1 \in T
    BY <2>4, <2>5, <2>7
  <2> QED BY <2>4, <2>8
<1> QED BY <1>1

(* The indexes that the first n matches of ms may leave, for each n up to  *)
(* k.                                                                      *)
Steps(I, ms, k, g) ==
  [n \in 0..k |-> IF n = 0 THEN {I} ELSE UNION {Associate(J, ms[n]) : J \in g[n - 1]}]

(* The recursive function of AssociateAll exists.                          *)
LEMMA AssociateAllSteps ==
  ASSUME NEW I, NEW ms, Len(ms) \in Nat
  PROVE  \E g : g = Steps(I, ms, Len(ms), g) /\ AssociateAll(I, ms) = g[Len(ms)]
<1>1. PICK L \in Nat : L = Len(ms)
  OBVIOUS
<1> DEFINE T == {k \in 0..L : \E g : g = Steps(I, ms, k, g)}
<1>2. 0 \in T
  <2>1. [n \in 0..0 |-> {I}] = Steps(I, ms, 0, [n \in 0..0 |-> {I}])
    BY DEF Steps
  <2> QED BY <1>1, <2>1
<1>3. ASSUME NEW k \in 0..L, k \in T, k < L PROVE k + 1 \in T
  <2>1. PICK g : g = Steps(I, ms, k, g)
    BY <1>3
  <2> DEFINE h == Steps(I, ms, k + 1, g)
  <2>2. ASSUME NEW n \in 0..k PROVE h[n] = g[n]
    <3>1. n \in 0..(k + 1) /\ n \in 0..k
      BY <2>2
    <3>2. h[n] = IF n = 0 THEN {I} ELSE UNION {Associate(J, ms[n]) : J \in g[n - 1]}
      BY <3>1 DEF Steps
    <3>3. Steps(I, ms, k, g)[n] = IF n = 0 THEN {I} ELSE UNION {Associate(J,
              ms[n]) : J \in g[n - 1]}
      BY <3>1 DEF Steps
    <3> QED BY <2>1, <3>2, <3>3
  <2>3. h = Steps(I, ms, k + 1, h)
    <3>1. ASSUME NEW n \in 0..(k + 1)
          PROVE  (IF n = 0 THEN {I} ELSE UNION {Associate(J, ms[n]) : J \in g[n - 1]})
               = (IF n = 0 THEN {I} ELSE UNION {Associate(J, ms[n]) : J \in h[n - 1]})
      <4>1. CASE n = 0
        BY <4>1
      <4>2. CASE n # 0
        <5>1. n - 1 \in 0..k
          BY <3>1, <4>2
        <5>2. h[n - 1] = g[n - 1]
          BY <2>2, <5>1
        <5> HIDE DEF h
        <5> QED BY <4>2, <5>2
      <4> QED BY <4>1, <4>2
    <3>2. Steps(I, ms, k + 1, g) = Steps(I, ms, k + 1, h)
      <4> HIDE DEF h
      <4> QED BY <3>1 DEF Steps
    <3> QED BY <3>2
  <2>4. k + 1 \in 0..L
    BY <1>3
  <2> HIDE DEF h
  <2> QED BY <2>3, <2>4
<1>4. \A n \in 0..L : n \in T
  <2> HIDE DEF T
  <2> QED BY <1>2, <1>3, FromZeroUp
<1>5. L \in T
  BY <1>4
<1>6. \E g : g = Steps(I, ms, L, g)
  BY <1>5
<1> DEFINE after == CHOOSE g : g = Steps(I, ms, L, g)
<1>7. after = Steps(I, ms, L, after)
  BY <1>6
<1>8. AssociateAll(I, ms) = after[L]
  BY <1>1 DEF AssociateAll, Steps
<1> HIDE DEF after
<1> QED BY <1>1, <1>7, <1>8

(* What a row of an index is made of.                                      *)
LEMMA IndexTypes ==
  ASSUME NEW I \in IndexSet, NEW f \in Files
  PROVE  /\ I[f] \in RowSet /\ I[f].start \in 0..MaxTime /\ I[f].stop \in 0..MaxTime
         /\ I[f].matches \in Seq(Matches)
  BY DEF IndexSet, RowSet

(* A row that may show m is one that associate() may choose.               *)
LEMMA ShowsCandidate ==
  ASSUME MatchTimes, NEW I \in IndexSet, NEW m \in Matches, NEW f \in Files, Shows(I[f], m)
  PROVE  f \in Candidates(I, m)
<1>1. /\ I[f].start \in Nat /\ I[f].stop \in Nat /\ start[m] \in Nat /\ end[m] \in Nat
      /\ Tolerance \in Nat
  BY IndexTypes, BoundsAssumption DEF MatchTimes
<1>2. f \in Indexed(I) /\ I[f].start <= end[m] + Tolerance
  BY <1>1 DEF Shows, Indexed
<1>3. CASE I[f].stop = 0
  BY <1>2, <1>3 DEF Candidates, Overlap, Unknown
<1>4. CASE I[f].stop # 0
  <2>1. Overlap(I[f], m) > 0 /\ Overlap(I[f], m) = Shared(I[f].start, I[f].stop, m)
    BY <1>4 DEF Shows, Overlap
  <2>2. I[f].stop >= start[m]
    BY <1>1, <2>1 DEF Shared, Larger, Smaller
  <2>3. I[f].stop >= start[m] - Tolerance
    BY <1>1, <2>2
  <2>4. Overlap(I[f], m) # 0
    BY <2>1
  <2> QED BY <1>2, <2>3, <2>4 DEF Candidates
<1> QED BY <1>3, <1>4

(* associate() adds one match to at most one row: to one of them, if a row *)
(* may show it and none has it yet.                                        *)
LEMMA AssociateOne ==
  ASSUME MatchTimes, NEW I \in IndexSet, NEW m \in Matches, NEW J \in Associate(I, m)
  PROVE  /\ Grown(I, J)
         /\ (\E f \in Files : Shows(I[f], m)) => Carried(J, m)
         /\ Sole(I) => Sole(J)
<1>1. CASE (\E f \in Files : m \in Carries(I, f)) \/ Candidates(I, m) = {}
  <2>1. J = I
    BY <1>1 DEF Associate
  <2> QED BY <1>1, <2>1, ShowsCandidate DEF Grown, Carried
<1>2. CASE ~((\E f \in Files : m \in Carries(I, f)) \/ Candidates(I, m) = {})
  <2>1. PICK f \in Hits(I, m) : J = [I EXCEPT ![f].matches = Append(@, m)]
    BY <1>2 DEF Associate
  <2>2. f \in Files /\ I[f].start # 0
    BY <2>1 DEF Hits, Candidates, Indexed
  <2>3. PICK s : s = I[f].matches
    OBVIOUS
  <2>4. s \in Seq(Matches)
    BY <2>2, <2>3, IndexTypes
  <2>5. /\ Append(s, m) \in Seq(Matches)
        /\ ToSet(Append(s, m)) = ToSet(s) \cup {m}
    <3>1. /\ Append(s, m) \in Seq(Matches) /\ Len(Append(s, m)) = Len(s) + 1 /\ Len(s) \in Nat
          /\ \A i \in 1..Len(s) : Append(s, m)[i] = s[i]
          /\ Append(s, m)[Len(s) + 1] = m
      BY <2>4
    <3>2. DOMAIN s = 1..Len(s) /\ DOMAIN Append(s, m) = 1..(Len(s) + 1)
      BY <2>4, <3>1
    <3>3. \A i \in DOMAIN s : i \in DOMAIN Append(s, m) /\ Append(s, m)[i] = s[i]
      BY <3>1, <3>2
    <3>4. Len(s) + 1 \in DOMAIN Append(s, m)
      BY <3>1, <3>2
    <3>5. \A i \in DOMAIN Append(s, m) : i \in DOMAIN s \/ i = Len(s) + 1
      BY <3>1, <3>2
    <3>6. \A i \in DOMAIN Append(s, m) : Append(s, m)[i] = m \/ \E j \in DOMAIN s : Append(s,
              m)[i] = s[j]
      BY <3>1, <3>3, <3>5
    <3> QED BY <3>1, <3>3, <3>4, <3>6 DEF ToSet
  <2>6. J = [I EXCEPT ![f] = [I[f] EXCEPT !.matches = Append(s, m)]]
    BY <2>1, <2>3
  <2>7. /\ [I[f] EXCEPT !.matches = Append(s, m)] \in RowSet
        /\ [I[f] EXCEPT !.matches = Append(s, m)].start = I[f].start
        /\ [I[f] EXCEPT !.matches = Append(s, m)].stop = I[f].stop
        /\ [I[f] EXCEPT !.matches = Append(s, m)].matches = Append(s, m)
    BY <2>2, <2>5, IndexTypes DEF RowSet
  <2>8. J \in IndexSet /\ \A g \in Files : J[g]
            = IF g = f THEN [I[f] EXCEPT !.matches = Append(s, m)] ELSE I[g]
    BY <2>2, <2>6, <2>7 DEF IndexSet
  <2>9. Grown(I, J)
    BY <2>3, <2>5, <2>7, <2>8 DEF Grown, Carries
  <2>10. Carried(J, m)
    BY <2>2, <2>5, <2>7, <2>8 DEF Carried, Carries
  <2>11. ASSUME Sole(I) PROVE Sole(J)
    <3>1. \A g \in Files : Carries(J, g) = IF g = f THEN Carries(I, g) \cup {m} ELSE Carries(I, g)
      BY <2>3, <2>5, <2>7, <2>8 DEF Carries
    <3>2. \A g \in Files : m \notin Carries(I, g)
      BY <1>2
    <3>3. \A g, h \in Files : Carries(J, g) \cap Carries(J, h) # {} => g = h
      <4> SUFFICES ASSUME NEW g \in Files, NEW h \in Files, NEW l, l \in Carries(J, g),
              l \in Carries(J, h)
                   PROVE  g = h
        OBVIOUS
      <4>1. CASE l = m
        BY <3>1, <3>2, <4>1
      <4>2. CASE l # m
        BY <2>11, <3>1, <4>2 DEF Sole
      <4> QED BY <4>1, <4>2
    <3>4. \A g \in Files : J[g].start = 0 => J[g].matches = <<>>
      BY <2>2, <2>7, <2>8, <2>11 DEF Sole
    <3> QED BY <3>3, <3>4 DEF Sole
  <2> QED BY <2>9, <2>10, <2>11
<1> QED BY <1>1, <1>2

(* Matches in a row do not change what it shows.                           *)
LEMMA GrownShows ==
  ASSUME NEW I, NEW J, Grown(I, J), NEW m, NEW f \in Files
  PROVE  Shows(J[f], m) <=> Shows(I[f], m)
  BY DEF Grown, Shows, Overlap

(* Two additions are one.                                                  *)
LEMMA GrownAgain ==
  ASSUME NEW I, NEW J, NEW K, Grown(I, J), Grown(J, K)
  PROVE  Grown(I, K) /\ \A m : Carried(J, m) => Carried(K, m)
  BY DEF Grown, Carried

(* doClose: of each match of the buffer the same holds as of one.          *)
LEMMA AssociateEach ==
  ASSUME MatchTimes, NEW I \in IndexSet, NEW ms \in Seq(Matches), NEW J \in AssociateAll(I, ms)
  PROVE  /\ Grown(I, J)
         /\ \A i \in 1..Len(ms) : (\E f \in Files : Shows(I[f], ms[i])) => Carried(J, ms[i])
         /\ Sole(I) => Sole(J)
<1>1. PICK L \in Nat : L = Len(ms)
  OBVIOUS
<1>2. PICK g : g = Steps(I, ms, L, g) /\ AssociateAll(I, ms) = g[L]
  BY <1>1, AssociateAllSteps
<1> DEFINE Good(K, n) == /\ Grown(I, K)
                         /\ \A i \in 1..n : (\E f \in Files : Shows(I[f], ms[i])) => Carried(K,
                              ms[i])
                         /\ Sole(I) => Sole(K)
           T == {n \in 0..L : \A K \in g[n] : Good(K, n)}
<1>3. 0 \in T
  <2>1. g[0] = {I}
    BY <1>1, <1>2 DEF Steps
  <2>2. Good(I, 0)
    BY DEF Grown
  <2> QED BY <1>1, <2>1, <2>2
<1>4. ASSUME NEW n \in 0..L, n \in T, n < L PROVE n + 1 \in T
  <2>1. n + 1 \in 1..L /\ n + 1 \in 0..L /\ n + 1 # 0 /\ (n + 1) - 1 = n
    BY <1>1, <1>4
  <2>2. g[n + 1] = UNION {Associate(K, ms[n + 1]) : K \in g[n]}
    <3>1. Steps(I, ms, L, g)[n + 1] = UNION {Associate(K, ms[n + 1]) : K \in g[(n + 1) - 1]}
      BY <2>1 DEF Steps
    <3> QED BY <1>2, <2>1, <3>1
  <2>3. ms[n + 1] \in Matches
    BY <1>1, <2>1
  <2>4. ASSUME NEW K2 \in g[n + 1] PROVE Good(K2, n + 1)
    <3>1. PICK K \in g[n] : K2 \in Associate(K, ms[n + 1])
      BY <2>2
    <3>2. Good(K, n)
      BY <1>4, <3>1
    <3>3. K \in IndexSet
      BY <3>2 DEF Grown
    <3>4. /\ Grown(K, K2) /\ ((\E f \in Files : Shows(K[f], ms[n + 1])) => Carried(K2, ms[n + 1]))
          /\ Sole(K) => Sole(K2)
      BY <2>3, <3>1, <3>3, AssociateOne
    <3>5. Grown(I, K2) /\ \A m : Carried(K, m) => Carried(K2, m)
      BY <3>2, <3>4, GrownAgain
    <3>6. \A i \in 1..(n + 1) : i = n + 1 \/ i \in 1..n
      BY <1>4
    <3>7. (\E f \in Files : Shows(I[f], ms[n + 1])) => Carried(K2, ms[n + 1])
      BY <3>2, <3>4, GrownShows
    <3> QED BY <3>2, <3>4, <3>5, <3>6, <3>7
  <2> QED BY <2>1, <2>4
<1>5. \A n \in 0..L : n \in T
  <2> HIDE DEF T
  <2> QED BY <1>3, <1>4, FromZeroUp
<1>6. \A K \in g[L] : Good(K, L)
  BY <1>5
<1> QED BY <1>1, <1>2, <1>6

(* What prune() does to a row: it goes with its file, or it stays, and may *)
(* get an end if it had none.                                              *)
Pruned(r, s, f) ==
  /\ s.start = r.start /\ s.matches = r.matches
  /\ \/ s.stop = r.stop
     \/ r.start # 0 /\ r.stop = 0 /\ now - Modified(f) >= Grace /\ s.stop = Modified(f)

(* The row goes: its recording is over.                                    *)
Gone(r, s, f) == s = NoRow /\ (r.stop # 0 \/ now - Modified(f) >= Grace)

(* Rows that were reclaimed, and the others.                               *)
LEMMA ReclaimedRows ==
  ASSUME NEW I \in IndexSet, now \in 1..MaxTime, till \in [Files -> 0..MaxTime], NEW J,
         J = Reclaimed(I)
  PROVE  J \in IndexSet /\ \A f \in Files : J[f] \in RowSet /\ Pruned(I[f], J[f], f)
<1>1. \A f \in Files : Modified(f) \in 0..MaxTime
  BY BoundsAssumption DEF Modified
<1>2. J = [f \in Files |-> IF f \in Live(I) /\ now - Modified(f) >= Grace
                   THEN [I[f] EXCEPT !.stop = Modified(f)] ELSE I[f]]
  BY DEF Reclaimed
<1>3. ASSUME NEW f \in Files PROVE J[f] \in RowSet /\ Pruned(I[f], J[f], f)
  <2>1. I[f] \in RowSet
    BY IndexTypes
  <2>2. CASE f \in Live(I) /\ now - Modified(f) >= Grace
    <3>1. J[f] = [I[f] EXCEPT !.stop = Modified(f)]
      BY <1>2, <2>2
    <3>2. J[f] \in RowSet /\ J[f].start = I[f].start /\ J[f].matches = I[f].matches
              /\ J[f].stop = Modified(f)
      BY <1>1, <2>1, <3>1 DEF RowSet
    <3> QED BY <2>2, <3>2 DEF Pruned, Live, Indexed
  <2>3. CASE ~(f \in Live(I) /\ now - Modified(f) >= Grace)
    <3>1. J[f] = I[f]
      BY <1>2, <2>3
    <3> QED BY <2>1, <3>1 DEF Pruned
  <2> QED BY <2>2, <2>3
<1>4. J = [f \in Files |-> J[f]]
  BY <1>2
<1> QED BY <1>3, <1>4 DEF IndexSet

(* prune() on the index I and the files D.                                 *)
LEMMA PruneRows ==
  ASSUME NEW I \in IndexSet, NEW D \in SUBSET Files, now \in 1..MaxTime,
         till \in [Files -> 0..MaxTime],
         Prune(I, D)
  PROVE  /\ index' \in IndexSet /\ disk' \in SUBSET D
         /\ \A f \in Files : (Gone(I[f], index'[f], f) /\ f \notin disk') \/ Pruned(I[f],
              index'[f], f)
<1> DEFINE J == Reclaimed(I)
<1>2. J \in IndexSet /\ \A f \in Files : J[f] \in RowSet /\ Pruned(I[f], J[f], f)
  BY ReclaimedRows
<1> DEFINE out == Closed(J) \ KeptForBytes(J, KeptForCount(J) \cup KeptOrphans(J))
<1>3. PICK held \in HeldFiles(out) :
          /\ disk' = D \ (out \ held)
          /\ index' = [f \in Files |-> IF f \in out \ held THEN NoRow ELSE J[f]]
  BY DEF Prune
<1>4. NoRow \in RowSet
  BY BoundsAssumption DEF NoRow, RowSet
<1> HIDE DEF J, out
<1>5. index' \in IndexSet /\ disk' \in SUBSET D
  BY <1>2, <1>3, <1>4 DEF IndexSet
<1>6. ASSUME NEW f \in Files, f \in out \ held
      PROVE  Gone(I[f], index'[f], f) /\ f \notin disk'
  <2>1. J[f].stop # 0
    BY <1>6 DEF out, Closed, Live
  <2> QED BY <1>2, <1>3, <1>6, <2>1 DEF Gone, Pruned
<1>7. \A f \in Files : f \notin out \ held => Pruned(I[f], index'[f], f)
  BY <1>2, <1>3
<1> QED BY <1>5, <1>6, <1>7

-----------------------------------------------------------------------------
(* No match is over before it began, nor in the future.                    *)
MatchesOver == \A m \in Matches : end[m] <= now /\ (end[m] # 0 => start[m] # 0)

(* Files begin in their order; one that has not begun has no row, and no   *)
(* row is closed that was not opened.                                      *)
FilesBegun ==
  /\ \E k \in 0..MaxFiles : \A f \in Files : from[f] # 0 <=> f <= k
  /\ \A f \in Files : from[f] = 0 => till[f] = 0 /\ index[f].start = 0 /\ index[f].stop = 0
  /\ \A f \in Files : index[f].stop # 0 => index[f].start # 0

(* The file being written has begun, has not ended, and its row, which a   *)
(* managed one has, is open.                                               *)
CurrentOpen ==
  current # 0 => /\ from[current] # 0 /\ till[current] = 0 /\ index[current].stop = 0
                 /\ mode = "managed" => index[current].start # 0

(* The matches of the buffer are over, and none of them is without a       *)
(* recording that an open or a closed row may show it on. A row still open *)
(* has to be included: when it is closed, it shows what it might have      *)
(* shown.                                                                  *)
Claimed ==
  \A i \in 1..Len(buffer) :
    /\ end[buffer[i]] # 0
    /\ \A f \in Files : Shows(index[f], buffer[i]) => owner[buffer[i]] # 0

(* The inductive invariant.                                                *)
RecordingsInv ==
  RecordingsTypeOK /\ MatchesOver /\ FilesBegun /\ CurrentOpen /\ Claimed

(* J is I with a row for f that begins at at.                              *)
Opened(I, J, f, at) ==
  /\ J \in IndexSet
  /\ \A g \in Files : /\ J[g].start = IF g = f THEN at ELSE I[g].start
                      /\ J[g].stop = IF g = f THEN 0 ELSE I[g].stop
                      /\ J[g].matches = IF g = f THEN <<>> ELSE I[g].matches

(* openChunk()                                                             *)
LEMMA OpenRowAt ==
  ASSUME NEW I \in IndexSet, NEW f \in Files, NEW at \in 0..MaxTime, NEW J, J = OpenRow(I, f, at)
  PROVE  Opened(I, J, f, at)
<1> DEFINE r == [NoRow EXCEPT !.start = at]
<1>0. 0 \in 0..MaxTime /\ <<>> \in Seq(Matches)
  BY BoundsAssumption
<1>a. r = [start |-> at, stop |-> 0, matches |-> <<>>]
  BY DEF NoRow
<1>1. r \in RowSet /\ r.start = at /\ r.stop = 0 /\ r.matches = <<>>
  BY <1>0, <1>a DEF RowSet
<1>2. J = [I EXCEPT ![f] = r]
  BY DEF OpenRow
<1> HIDE DEF r
<1>3. J \in IndexSet /\ \A g \in Files : J[g] = IF g = f THEN r ELSE I[g]
  BY <1>1, <1>2 DEF IndexSet
<1> QED BY <1>1, <1>3 DEF Opened

(* closeChunk()                                                            *)
LEMMA CloseRowAt ==
  ASSUME NEW I \in IndexSet, NEW f \in Files, now \in 1..MaxTime
  PROVE  /\ CloseRow(I, f) \in IndexSet
         /\ \A g \in Files : /\ CloseRow(I, f)[g].start = I[g].start
                             /\ CloseRow(I, f)[g].stop = IF g = f THEN now ELSE I[g].stop
                             /\ CloseRow(I, f)[g].matches = I[g].matches
<1>0. I[f] \in RowSet
  BY IndexTypes
<1> DEFINE r == [I[f] EXCEPT !.stop = now]
<1>1. r \in RowSet /\ r.start = I[f].start /\ r.stop = now /\ r.matches = I[f].matches
  BY <1>0 DEF RowSet
<1>2. CloseRow(I, f) = [I EXCEPT ![f] = r]
  BY DEF CloseRow
<1> HIDE DEF r
<1>3. [I EXCEPT ![f] = r] \in IndexSet /\ \A g \in Files : [I EXCEPT ![f] = r][g]
          = IF g = f THEN r ELSE I[g]
  BY <1>1 DEF IndexSet
<1> QED BY <1>1, <1>2, <1>3

(* The next file has not begun.                                            *)
LEMMA NextFile ==
  ASSUME FilesBegun, from \in [Files -> 0..MaxTime]
  PROVE  NewFile \in Nat \ {0} /\ \A f \in Files : from[f] # 0 <=> f < NewFile
<1>1. PICK k \in 0..MaxFiles : \A f \in Files : from[f] # 0 <=> f <= k
  BY DEF FilesBegun
<1>2. {f \in Files : from[f] # 0} = 1..k
  BY <1>1, BoundsAssumption DEF Files
<1>3. Cardinality(1..k) = k
  BY <1>1, FS_Interval
<1>4. NewFile = k + 1 /\ k \in Nat
  <2>1. NewFile = Cardinality(1..k) + 1
    BY <1>2 DEF NewFile
  <2> QED BY <1>1, <1>3, <2>1
<1> QED BY <1>1, <1>4, BoundsAssumption DEF Files

(* A row that is reclaimed, or goes, shows nothing it did not show before. *)
LEMMA PruneClaims ==
  ASSUME now \in 1..MaxTime, till \in [Files -> 0..MaxTime],
         NEW I \in IndexSet, NEW D \in SUBSET Files, Prune(I, D),
         UNCHANGED worldVars, UNCHANGED buffer,
         \A i \in 1..Len(buffer) :
           /\ end[buffer[i]] # 0
           /\ \A f \in Files : Shows(I[f], buffer[i]) => owner'[buffer[i]] # 0
  PROVE  Claimed'
<1> SUFFICES ASSUME NEW i \in 1..Len(buffer), NEW f \in Files, Shows(index'[f], buffer[i])
             PROVE  Shows(I[f], buffer[i])
  BY DEF Claimed, Shows, Overlap, Shared, worldVars
<1>1. (Gone(I[f], index'[f], f) /\ f \notin disk') \/ Pruned(I[f], index'[f], f)
  BY PruneRows
<1>2. index'[f].start # 0
  BY DEF Shows
<1>3. Pruned(I[f], index'[f], f)
  BY <1>1, <1>2 DEF Gone, NoRow
<1> QED BY <1>3 DEF Pruned, Shows, Overlap

(* The files stay in their order.                                          *)
LEMMA FileBeginsKeeps ==
  ASSUME RecordingsTypeOK, FilesBegun, FileBegins(NewFile),
         NEW I \in IndexSet,
         \A f \in Files \ {NewFile} : from[f] = 0 => I[f].start = 0 /\ I[f].stop = 0,
         \A f \in Files : from[f] = 0 /\ f # NewFile => till'[f] = 0,
         \A f \in Files : Gone(I[f], index'[f], f) \/ Pruned(I[f], index'[f], f),
         \A f \in Files : I[f].stop # 0 => I[f].start # 0
  PROVE  FilesBegun' /\ current' \in Files /\ from' \in [Files -> 0..MaxTime]
         /\ current' = NewFile /\ from[NewFile] = 0 /\ from'[NewFile] = now
<1>1. /\ NewFile \in Files /\ current' = NewFile /\ from' = [from EXCEPT ![NewFile] = now]
      /\ from \in [Files -> 0..MaxTime] /\ now \in 1..MaxTime
  BY DEF FileBegins, RecordingsTypeOK
<1>2. NewFile \in Nat \ {0} /\ \A f \in Files : from[f] # 0 <=> f < NewFile
  BY <1>1, NextFile
<1>3. \A f \in Files : from'[f] = IF f = NewFile THEN now ELSE from[f]
  BY <1>1
<1>4. from' \in [Files -> 0..MaxTime]
  BY <1>1
<1>5. from[NewFile] = 0
  BY <1>1, <1>2
<1>6. PICK n \in Nat : n = NewFile
  BY <1>2
<1>7. n \in 0..MaxFiles /\ \A f \in Files : from'[f] # 0 <=> f <= n
  BY <1>1, <1>2, <1>3, <1>6, BoundsAssumption DEF Files
<1>8. ASSUME NEW f \in Files, from'[f] = 0
      PROVE  till'[f] = 0 /\ index'[f].start = 0 /\ index'[f].stop = 0
  <2>1. f # NewFile /\ from[f] = 0
    BY <1>1, <1>3, <1>8
  <2> QED BY <2>1 DEF Gone, Pruned, NoRow
<1>9. \A f \in Files : index'[f].stop # 0 => index'[f].start # 0
  BY DEF Gone, Pruned, NoRow
<1> QED BY <1>1, <1>3, <1>4, <1>5, <1>7, <1>8, <1>9 DEF FilesBegun

(* Types of the signals heard, and of the owners.                          *)
ToldSet == [Matches -> SUBSET {"open", "meta", "close"}]
OwnerSet == [Matches -> 0..MaxFiles]

(* What a claim needs: the rows of I show no match of the buffer that has  *)
(* no owner.                                                               *)
Claims(I, o) ==
  \A i \in 1..Len(buffer) :
    /\ end[buffer[i]] # 0
    /\ \A f \in Files : Shows(I[f], buffer[i]) => o[buffer[i]] # 0

(* A file begins.                                                          *)
LEMMA OpenFileStep ==
  ASSUME RecordingsInv, FileBegins(NewFile), UNCHANGED worldVars, UNCHANGED buffer,
         told' \in ToldSet, owner' \in OwnerSet, till' \in [Files -> 0..MaxTime],
         index' \in IndexSet, disk' \in SUBSET Files,
         NEW I \in IndexSet,
         \A f \in Files \ {NewFile} : from[f] = 0 => I[f].start = 0 /\ I[f].stop = 0,
         \A f \in Files : from[f] = 0 => till'[f] = 0,
         \A f \in Files : Gone(I[f], index'[f], f) \/ Pruned(I[f], index'[f], f),
         \A f \in Files : I[f].stop # 0 => I[f].start # 0,
         I[NewFile].stop = 0, mode = "managed" => I[NewFile].start # 0,
         Claimed'
  PROVE  RecordingsInv'
<1>1. /\ FilesBegun' /\ current' \in Files /\ from' \in [Files -> 0..MaxTime]
      /\ current' = NewFile /\ from[NewFile] = 0 /\ from'[NewFile] = now
  BY FileBeginsKeeps DEF RecordingsInv
<1>a. current' \in 0..MaxFiles
  BY <1>1, BoundsAssumption DEF Files
<1>2. RecordingsTypeOK'
  BY <1>1, <1>a DEF RecordingsInv, RecordingsTypeOK, worldVars, ToldSet, OwnerSet, IndexSet,
     RowSet
<1>3. MatchesOver'
  BY DEF RecordingsInv, MatchesOver, worldVars
<1>4. CurrentOpen'
  <2>1. PICK f \in Files : f = NewFile
    BY <1>1
  <2>2. till[f] = 0 /\ till'[f] = 0 /\ now \in 1..MaxTime
    BY <1>1, <2>1 DEF RecordingsInv, FilesBegun, RecordingsTypeOK
  <2>3. Modified(f) = now /\ ~(now - Modified(f) >= Grace)
    BY <2>2, BoundsAssumption DEF Modified
  <2>4. index'[f].stop = 0 /\ (mode = "managed" => index'[f].start # 0)
    BY <2>1, <2>3 DEF Gone, Pruned
  <2> QED BY <1>1, <2>1, <2>2, <2>4 DEF CurrentOpen, worldVars
<1> QED BY <1>1, <1>2, <1>3, <1>4 DEF RecordingsInv

(* The current file ends.                                                  *)
LEMMA EndStep ==
  ASSUME RecordingsInv, current # 0, FileEnds(current), current' = 0, UNCHANGED from,
         UNCHANGED worldVars, UNCHANGED buffer,
         told' \in ToldSet, owner' \in OwnerSet,
         index' \in IndexSet, disk' \in SUBSET Files,
         NEW I \in IndexSet,
         \A f \in Files : from[f] = 0 => I[f].start = 0 /\ I[f].stop = 0,
         \A f \in Files : I[f].stop # 0 => I[f].start # 0,
         \A f \in Files : Gone(I[f], index'[f], f) \/ Pruned(I[f], index'[f], f),
         Claimed'
  PROVE  RecordingsInv'
<1>1. /\ till' = [till EXCEPT ![current] = now] /\ till \in [Files -> 0..MaxTime]
      /\ now \in 1..MaxTime /\ current \in Files
  BY BoundsAssumption DEF FileEnds, RecordingsInv, RecordingsTypeOK, Files
<1>2. till' \in [Files -> 0..MaxTime] /\ \A f \in Files : f # current => till'[f] = till[f]
  BY <1>1
<1>a. current' \in 0..MaxFiles
  BY BoundsAssumption
<1>3. RecordingsTypeOK'
  BY <1>2, <1>a DEF RecordingsInv, RecordingsTypeOK, worldVars, ToldSet, OwnerSet, IndexSet,
     RowSet
<1>4. MatchesOver'
  BY DEF RecordingsInv, MatchesOver, worldVars
<1>5. FilesBegun'
  <2>1. \A f \in Files : from[f] = 0 => f # current
    BY DEF RecordingsInv, CurrentOpen
  <2>2. \A f \in Files : from[f] = 0 => till'[f] = 0 /\ index'[f].start = 0 /\ index'[f].stop = 0
    BY <1>2, <2>1 DEF RecordingsInv, FilesBegun, Gone, Pruned, NoRow
  <2>3. \A f \in Files : index'[f].stop # 0 => index'[f].start # 0
    BY DEF Gone, Pruned, NoRow
  <2> QED BY <2>2, <2>3 DEF RecordingsInv, FilesBegun
<1>6. CurrentOpen'
  BY DEF CurrentOpen
<1> QED BY <1>3, <1>4, <1>5, <1>6 DEF RecordingsInv

(* What the steps below use of the types.                                  *)
LEMMA InvTypes ==
  ASSUME RecordingsInv
  PROVE  /\ now \in 1..MaxTime /\ now \in 0..MaxTime /\ till \in [Files -> 0..MaxTime]
              /\ from \in [Files -> 0..MaxTime]
         /\ index \in IndexSet /\ disk \in SUBSET Files /\ owner \in OwnerSet /\ told \in ToldSet
         /\ buffer \in Seq(Matches) /\ MatchTimes /\ (current # 0 => current \in Files)
<1>1. current # 0 => current \in Files
  BY BoundsAssumption DEF RecordingsInv, RecordingsTypeOK, Files
<1>2. now \in 1..MaxTime /\ now \in 0..MaxTime
  BY BoundsAssumption DEF RecordingsInv, RecordingsTypeOK
<1> QED BY <1>1, <1>2 DEF RecordingsInv, RecordingsTypeOK, IndexSet, RowSet, OwnerSet, ToldSet,
       MatchTimes

(* A row that begins now shows nothing that is over; one that is closed    *)
(* shows what it may have shown before.                                    *)
LEMMA OpenClaims ==
  ASSUME RecordingsInv, NEW f \in Files
  PROVE  Claims(OpenRow(index, f, now), owner)
<1> SUFFICES ASSUME NEW i \in 1..Len(buffer), NEW g \in Files,
                    Shows(OpenRow(index, f, now)[g], buffer[i])
             PROVE  owner[buffer[i]] # 0
  BY DEF Claims, RecordingsInv, Claimed
<1>1. buffer[i] \in Matches /\ now \in 0..MaxTime /\ now \in Nat
  BY InvTypes, BoundsAssumption
<1>2. end[buffer[i]] <= now /\ end[buffer[i]] \in Nat
  <2>1. end[buffer[i]] <= now
    BY <1>1 DEF RecordingsInv, MatchesOver
  <2>2. end[buffer[i]] \in 0..MaxTime /\ MaxTime \in Nat
    BY <1>1, InvTypes, BoundsAssumption DEF MatchTimes
  <2> QED BY <2>1, <2>2
<1>a. Opened(index, OpenRow(index, f, now), f, now)
  BY <1>1, InvTypes, OpenRowAt
<1>3. /\ OpenRow(index, f, now)[g].start = IF g = f THEN now ELSE index[g].start
      /\ OpenRow(index, f, now)[g].stop = IF g = f THEN 0 ELSE index[g].stop
  BY <1>a DEF Opened
<1>4. g # f
  BY <1>1, <1>2, <1>3 DEF Shows
<1>5. Shows(index[g], buffer[i])
  BY <1>3, <1>4 DEF Shows, Overlap
<1> QED BY <1>5 DEF RecordingsInv, Claimed

(* A recording that overlaps with a match began before its end.            *)
LEMMA SharedPositive ==
  ASSUME MatchTimes, NEW m \in Matches, NEW a \in 0..MaxTime, NEW b \in 0..MaxTime, Shared(a, b,
         m) > 0
  PROVE  a < end[m]
  BY BoundsAssumption DEF Shared, Larger, Smaller, MatchTimes

(* A row that is closed shows what it might have shown while it was open.  *)
LEMMA CloseClaims ==
  ASSUME now \in 1..MaxTime, MatchTimes, buffer \in Seq(Matches), NEW I \in IndexSet,
         NEW f \in Files,
         I[f].stop = 0, NEW o, Claims(I, o)
  PROVE  Claims(CloseRow(I, f), o)
<1> SUFFICES ASSUME NEW i \in 1..Len(buffer), NEW g \in Files,
                    Shows(CloseRow(I, f)[g], buffer[i])
             PROVE  Shows(I[g], buffer[i])
  BY DEF Claims
<1>1. /\ CloseRow(I, f)[g].start = I[g].start
      /\ CloseRow(I, f)[g].stop = IF g = f THEN now ELSE I[g].stop
  BY CloseRowAt
<1> QED BY <1>1 DEF Shows, Overlap

(* A file is cut: the next one begins with a row of its own.               *)
LEMMA CutStep ==
  ASSUME RecordingsInv, Cut, mode = "managed", UNCHANGED worldVars, UNCHANGED buffer,
         told' \in ToldSet
  PROVE  RecordingsInv'
<1>1. /\ FileBegins(NewFile) /\ FileEnds(current) /\ owner' = owner /\ current # 0
      /\ NewFile \in Files /\ current \in Files
  BY InvTypes DEF Cut, FileBegins
<1>2. PICK n \in Files : n = NewFile
  BY <1>1
<1>3. from[n] = 0 /\ from[current] # 0 /\ current # n
  BY <1>1, <1>2, NextFile, InvTypes DEF RecordingsInv, CurrentOpen
<1>4. /\ till' \in [Files -> 0..MaxTime]
      /\ \A f \in Files : from[f] = 0 => till'[f] = 0
  <2>1. till' = [till EXCEPT ![current] = now] /\ till \in [Files -> 0..MaxTime]
            /\ now \in 0..MaxTime
    BY <1>1, InvTypes DEF FileEnds
  <2>2. \A f \in Files : from[f] = 0 => f # current /\ till[f] = 0
    BY <1>3 DEF RecordingsInv, FilesBegun
  <2> QED BY <2>1, <2>2
<1>5. PICK I : I = OpenRow(index, n, now)
  OBVIOUS
<1>6. /\ I \in IndexSet
      /\ \A g \in Files : /\ I[g].start = IF g = n THEN now ELSE index[g].start
                          /\ I[g].stop = IF g = n THEN 0 ELSE index[g].stop
  <2>1. Opened(index, I, n, now)
    BY <1>5, InvTypes, OpenRowAt
  <2> QED BY <2>1 DEF Opened
<1>a. now # 0
  BY InvTypes
<1>7. Claims(I, owner)
  BY <1>5, OpenClaims
<1>8. disk \cup {n} \in SUBSET Files
  BY InvTypes
<1>9. CASE Prune(CloseRow(I, current), disk \cup {n})
  <2>1. PICK K : K = CloseRow(I, current)
    OBVIOUS
  <2>2. /\ K \in IndexSet
        /\ \A g \in Files : /\ K[g].start = I[g].start
                            /\ K[g].stop = IF g = current THEN now ELSE I[g].stop
    BY <1>1, <1>6, <2>1, InvTypes, CloseRowAt
  <2>3. I[current].stop = 0
    BY <1>1, <1>3, <1>6 DEF RecordingsInv, CurrentOpen
  <2>4. Claims(K, owner)
    BY <1>1, <1>6, <1>7, <2>1, <2>3, InvTypes, CloseClaims
  <2>5. Prune(K, disk \cup {n})
    BY <1>9, <2>1
  <2>6. /\ index' \in IndexSet /\ disk' \in SUBSET Files
        /\ \A f \in Files : Gone(K[f], index'[f], f) \/ Pruned(K[f], index'[f], f)
    BY <1>8, <2>2, <2>5, InvTypes, PruneRows
  <2>7. Claimed'
    BY <1>1, <1>8, <2>2, <2>4, <2>5, InvTypes, PruneClaims DEF Claims
  <2>8. K[n].stop = 0
    BY <1>3, <1>6, <2>2
  <2>9. \A f \in Files \ {n} : from[f] = 0 => K[f].start = 0 /\ K[f].stop = 0
    BY <1>3, <1>6, <2>2 DEF RecordingsInv, FilesBegun
  <2>10. \A f \in Files : K[f].stop # 0 => K[f].start # 0
    BY <1>1, <1>6, <1>a, <2>2 DEF RecordingsInv, FilesBegun, CurrentOpen
  <2>11. K[n].start # 0
    BY <1>6, <1>a, <2>2
  <2> QED BY <1>1, <1>2, <1>4, <2>2, <2>6, <2>7, <2>8, <2>9, <2>10, <2>11, InvTypes, OpenFileStep
<1>10. CASE index' = I /\ disk' = disk \cup {n}
  <2>1. Claimed'
    BY <1>1, <1>7, <1>10 DEF Claims, Claimed, Shows, Overlap, Shared, worldVars
  <2>2. \A f \in Files : Pruned(I[f], index'[f], f)
    BY <1>10 DEF Pruned
  <2>3. \A f \in Files \ {n} : from[f] = 0 => I[f].start = 0 /\ I[f].stop = 0
    BY <1>6 DEF RecordingsInv, FilesBegun
  <2>4. (\A f \in Files : I[f].stop # 0 => I[f].start # 0) /\ I[n].stop = 0 /\ I[n].start # 0
    BY <1>6, <1>a DEF RecordingsInv, FilesBegun
  <2> QED BY <1>1, <1>2, <1>4, <1>6, <1>8, <1>10, <2>1, <2>2, <2>3, <2>4, InvTypes, OpenFileStep
<1> QED BY <1>2, <1>5, <1>9, <1>10 DEF Cut

(* OBS begins to record.                                                   *)
LEMMA FirstChunkStep == ASSUME RecordingsInv, FirstChunk PROVE RecordingsInv'
<1>1. /\ FileBegins(NewFile) /\ owner' = owner /\ till' = till /\ NewFile \in Files
      /\ UNCHANGED worldVars /\ UNCHANGED buffer /\ told' = told
      /\ disk' = disk \cup {NewFile} /\ index' = OpenRow(index, NewFile, now)
  BY DEF FirstChunk, FileBegins
<1>2. PICK n \in Files : n = NewFile
  BY <1>1
<1>3. PICK I : I = OpenRow(index, n, now)
  OBVIOUS
<1>4. /\ I \in IndexSet
      /\ \A g \in Files : /\ I[g].start = IF g = n THEN now ELSE index[g].start
                          /\ I[g].stop = IF g = n THEN 0 ELSE index[g].stop
  <2>1. Opened(index, I, n, now)
    BY <1>3, InvTypes, OpenRowAt
  <2> QED BY <2>1 DEF Opened
<1>5. Claims(I, owner)
  BY <1>3, OpenClaims
<1>6. index' = I
  BY <1>1, <1>2, <1>3
<1>7. Claimed'
  BY <1>1, <1>5, <1>6 DEF Claims, Claimed, Shows, Overlap, Shared, worldVars
<1>8. \A f \in Files : Pruned(I[f], index'[f], f)
  BY <1>6 DEF Pruned
<1>9. \A f \in Files \ {n} : from[f] = 0 => I[f].start = 0 /\ I[f].stop = 0
  BY <1>4 DEF RecordingsInv, FilesBegun
<1>10. \A f \in Files : from[f] = 0 => till'[f] = 0
  BY <1>1 DEF RecordingsInv, FilesBegun
<1>11. disk' \in SUBSET Files
  BY <1>1, InvTypes
<1>12. (\A f \in Files : I[f].stop # 0 => I[f].start # 0) /\ I[n].stop = 0 /\ I[n].start # 0
  <2>1. now # 0
    BY InvTypes
  <2> QED BY <1>4, <2>1 DEF RecordingsInv, FilesBegun
<1> QED BY <1>1, <1>2, <1>4, <1>6, <1>7, <1>8, <1>9, <1>10, <1>11, <1>12, InvTypes, OpenFileStep

(* The game ended.                                                         *)
LEMMA StopContinuousStep == ASSUME RecordingsInv, StopContinuous PROVE RecordingsInv'
<1>1. /\ FileEnds(current) /\ current # 0 /\ current' = 0 /\ owner' = owner /\ from' = from
      /\ UNCHANGED worldVars /\ UNCHANGED buffer /\ told' = told
      /\ Prune(CloseRow(index, current), disk) /\ mode = "managed"
  BY DEF StopContinuous
<1>2. PICK K : K = CloseRow(index, current)
  OBVIOUS
<1>3. /\ K \in IndexSet
      /\ \A g \in Files : /\ K[g].start = index[g].start
                          /\ K[g].stop = IF g = current THEN now ELSE index[g].stop
  BY <1>1, <1>2, InvTypes, CloseRowAt
<1>4. Claims(K, owner)
  <2>1. Claims(index, owner) /\ index[current].stop = 0
    BY <1>1 DEF RecordingsInv, Claimed, Claims, CurrentOpen
  <2> QED BY <1>1, <1>2, <2>1, InvTypes, CloseClaims
<1>5. /\ index' \in IndexSet /\ disk' \in SUBSET Files
      /\ \A f \in Files : Gone(K[f], index'[f], f) \/ Pruned(K[f], index'[f], f)
  BY <1>1, <1>2, <1>3, InvTypes, PruneRows
<1>6. Claimed'
  BY <1>1, <1>2, <1>3, <1>4, InvTypes, PruneClaims DEF Claims
<1>7. \A f \in Files : from[f] = 0 => K[f].start = 0 /\ K[f].stop = 0
  BY <1>1, <1>3 DEF RecordingsInv, FilesBegun, CurrentOpen
<1>8. \A f \in Files : K[f].stop # 0 => K[f].start # 0
  BY <1>1, <1>3 DEF RecordingsInv, FilesBegun, CurrentOpen
<1> QED BY <1>1, <1>3, <1>5, <1>6, <1>7, <1>8, InvTypes, EndStep

(* StopRecord failed.                                                      *)
LEMMA CloseFailsStep ==
  ASSUME RecordingsInv, CloseFails, current # 0, UNCHANGED worldVars, UNCHANGED buffer,
         told' \in ToldSet
  PROVE RecordingsInv'
<1>1. /\ FileEnds(current) /\ current' = 0 /\ owner' = owner /\ from' = from
      /\ Prune(index, disk)
  BY DEF CloseFails
<1>4. Claims(index, owner)
  BY <1>1 DEF RecordingsInv, Claimed, Claims, CurrentOpen
<1>5. /\ index' \in IndexSet /\ disk' \in SUBSET Files
      /\ \A f \in Files : Gone(index[f], index'[f], f) \/ Pruned(index[f], index'[f], f)
  BY <1>1, InvTypes, PruneRows
<1>6. Claimed'
  BY <1>1, <1>4, InvTypes, PruneClaims DEF Claims
<1>7. /\ \A f \in Files : from[f] = 0 => index[f].start = 0 /\ index[f].stop = 0
      /\ \A f \in Files : index[f].stop # 0 => index[f].start # 0
  BY DEF RecordingsInv, FilesBegun
<1> QED BY <1>1, <1>5, <1>6, <1>7, InvTypes, EndStep

(* OBS is gone, and nobody closes the row.                                 *)
LEMMA ObsDiesStep == ASSUME RecordingsInv, ObsDies PROVE RecordingsInv'
<1>1. /\ FileEnds(current) /\ current # 0 /\ current' = 0 /\ owner' = owner /\ from' = from
      /\ UNCHANGED worldVars /\ UNCHANGED buffer /\ told' = told /\ disk' = disk /\ index' = index
  BY DEF ObsDies
<1>2. Claimed'
  BY <1>1 DEF RecordingsInv, Claimed, Shows, Overlap, Shared, worldVars
<1>3. \A f \in Files : Pruned(index[f], index'[f], f)
  BY <1>1 DEF Pruned
<1>4. /\ \A f \in Files : from[f] = 0 => index[f].start = 0 /\ index[f].stop = 0
      /\ \A f \in Files : index[f].stop # 0 => index[f].start # 0
  BY DEF RecordingsInv, FilesBegun
<1> QED BY <1>1, <1>2, <1>3, <1>4, InvTypes, EndStep

(* Who carries a match owns it; a match that nobody carries keeps its      *)
(* owner.                                                                  *)
LEMMA OwnGives ==
  ASSUME NEW I \in IndexSet, owner \in OwnerSet, Own(I)
  PROVE  /\ owner' \in OwnerSet
         /\ \A m \in Matches : owner[m] # 0 => owner'[m] # 0
         /\ \A m \in Matches : Carried(I, m) => owner'[m] # 0
         /\ \A m \in Matches : Carried(I, m) => owner'[m] \in Files /\ m \in Carries(I, owner'[m])
         /\ \A m \in Matches : ~Carried(I, m) => owner'[m] = owner[m]
<1>1. owner' = [m \in Matches |->
        IF \E f \in Files : m \in Carries(I, f)
        THEN CHOOSE f \in Files : m \in Carries(I, f) ELSE owner[m]]
  BY DEF Own
<1>2. \A f \in Files : f \in 0..MaxFiles /\ f # 0
  BY BoundsAssumption DEF Files
<1>3. ASSUME NEW m \in Matches, Carried(I, m)
      PROVE  owner'[m] \in Files /\ m \in Carries(I, owner'[m])
  BY <1>1, <1>3 DEF Carried
<1>4. ASSUME NEW m \in Matches, ~Carried(I, m)
      PROVE  owner'[m] = owner[m]
  BY <1>1, <1>4 DEF Carried
<1>5. ASSUME NEW m \in Matches
      PROVE  /\ owner'[m] \in 0..MaxFiles
             /\ owner[m] # 0 => owner'[m] # 0
             /\ Carried(I, m) => owner'[m] # 0
  BY <1>2, <1>3, <1>4 DEF OwnerSet
<1>6. owner' = [m \in Matches |-> owner'[m]]
  BY <1>1
<1> QED BY <1>3, <1>4, <1>5, <1>6 DEF OwnerSet

(* The row comes after the matches: each of the buffer that it shows is    *)
(* given a recording.                                                      *)
LEMMA CloseWithRowStep ==
  ASSUME RecordingsInv, CloseWithRow, current # 0, UNCHANGED worldVars, UNCHANGED buffer,
         told' \in ToldSet
  PROVE RecordingsInv'
<1>1. FileEnds(current) /\ current' = 0 /\ from' = from /\ current \in Files
  BY InvTypes DEF CloseWithRow
<1>2. PICK O : O = OpenRow(index, current, from[current])
  OBVIOUS
<1>3. PICK K : K = CloseRow(O, current)
  OBVIOUS
<1>4. PICK I : I \in AssociateAll(K, buffer) /\ Own(I) /\ Prune(I, disk)
  BY <1>2, <1>3 DEF CloseWithRow
<1>a. Opened(index, O, current, from[current])
  <2>1. from[current] \in 0..MaxTime
    BY <1>1, InvTypes
  <2> QED BY <1>1, <1>2, <2>1, InvTypes, OpenRowAt
<1>5. O \in IndexSet /\ \A g \in Files : O[g].start = IF g = current THEN from[current]
          ELSE index[g].start
  BY <1>a DEF Opened
<1>6. \A g \in Files : O[g].stop = IF g = current THEN 0 ELSE index[g].stop
  BY <1>a DEF Opened
<1>7. /\ K \in IndexSet
      /\ \A g \in Files : /\ K[g].start = O[g].start
                          /\ K[g].stop = IF g = current THEN now ELSE O[g].stop
  BY <1>1, <1>3, <1>5, InvTypes, CloseRowAt
<1>8. /\ Grown(K, I)
      /\ \A i \in 1..Len(buffer) : (\E f \in Files : Shows(K[f], buffer[i])) => Carried(I,
           buffer[i])
  BY <1>4, <1>7, InvTypes, AssociateEach
<1>9. I \in IndexSet
  BY <1>8 DEF Grown
<1>10. /\ owner' \in OwnerSet
       /\ \A m \in Matches : Carried(I, m) => owner'[m] # 0
  BY <1>4, <1>9, InvTypes, OwnGives
<1>11. Claims(I, owner')
  <2> SUFFICES ASSUME NEW i \in 1..Len(buffer), NEW f \in Files, Shows(I[f], buffer[i])
               PROVE  owner'[buffer[i]] # 0
    BY DEF Claims, RecordingsInv, Claimed
  <2>1. buffer[i] \in Matches
    BY InvTypes
  <2>2. Shows(K[f], buffer[i])
    BY <1>8, GrownShows
  <2>3. Carried(I, buffer[i])
    BY <1>8, <2>2
  <2> QED BY <1>10, <2>1, <2>3
<1>12. /\ index' \in IndexSet /\ disk' \in SUBSET Files
       /\ \A f \in Files : Gone(I[f], index'[f], f) \/ Pruned(I[f], index'[f], f)
  BY <1>4, <1>9, InvTypes, PruneRows
<1>13. Claimed'
  BY <1>4, <1>9, <1>11, InvTypes, PruneClaims DEF Claims
<1>14. \A f \in Files : from[f] = 0 => I[f].start = 0 /\ I[f].stop = 0
  <2>1. \A f \in Files : from[f] = 0 => K[f].start = 0 /\ K[f].stop = 0
    BY <1>5, <1>6, <1>7 DEF RecordingsInv, FilesBegun, CurrentOpen
  <2> QED BY <1>8, <2>1 DEF Grown
<1>15. \A f \in Files : I[f].stop # 0 => I[f].start # 0
  <2>1. \A f \in Files : K[f].stop # 0 => K[f].start # 0
    BY <1>5, <1>6, <1>7 DEF RecordingsInv, FilesBegun, CurrentOpen
  <2> QED BY <1>8, <2>1 DEF Grown
<1> QED BY <1>1, <1>9, <1>10, <1>12, <1>13, <1>14, <1>15, EndStep

(* metaBuffer takes one more match, and drops the oldest when it is full.  *)
LEMMA BufferAt ==
  ASSUME buffer \in Seq(Matches), NEW m \in Matches, Len(buffer) <= BufferCap,
         buffer' = IF Len(buffer) = BufferCap THEN Append(Tail(buffer), m) ELSE Append(buffer, m)
  PROVE  /\ buffer' \in Seq(Matches) /\ Len(buffer') <= BufferCap
         /\ \A i \in 1..Len(buffer') : buffer'[i] = m
              \/ \E j \in 1..Len(buffer) : buffer'[i] = buffer[j]
<1>1. PICK n \in Nat : n = Len(buffer)
  OBVIOUS
<1>2. CASE n = BufferCap
  <2>1. n # 0 /\ buffer # <<>>
    BY <1>1, <1>2, BoundsAssumption
  <2>2. PICK t : t = Tail(buffer)
    OBVIOUS
  <2>3. t \in Seq(Matches) /\ Len(t) = n - 1 /\ \A i \in 1..(n - 1) : t[i] = buffer[i + 1]
    BY <1>1, <2>1, <2>2, HeadTailProperties
  <2>4. buffer' = Append(t, m)
    BY <1>1, <1>2, <2>2
  <2>5. Append(t, m) \in Seq(Matches) /\ Len(Append(t, m)) = n
        /\ \A i \in 1..n : Append(t, m)[i] = IF i = n THEN m ELSE t[i]
    BY <2>1, <2>3
  <2>6. \A i \in 1..n : i # n => i \in 1..(n - 1) /\ i + 1 \in 1..n
    OBVIOUS
  <2> QED BY <1>1, <1>2, <2>3, <2>4, <2>5, <2>6
<1>3. CASE n # BufferCap
  <2>1. n + 1 <= BufferCap
    BY <1>1, <1>3, BoundsAssumption
  <2>2. buffer' = Append(buffer, m)
    BY <1>1, <1>3
  <2>3. Append(buffer, m) \in Seq(Matches) /\ Len(Append(buffer, m)) = n + 1
        /\ \A i \in 1..(n + 1) : Append(buffer, m)[i] = IF i = n + 1 THEN m ELSE buffer[i]
    BY <1>1
  <2>4. \A i \in 1..(n + 1) : i # n + 1 => i \in 1..n
    OBVIOUS
  <2> QED BY <1>1, <2>1, <2>2, <2>3, <2>4
<1> QED BY <1>2, <1>3

(* The match comes after the row: associate() gives it a recording at      *)
(* once.                                                                   *)
LEMMA HearMetaStep ==
  ASSUME RecordingsInv, NEW m \in Matches, HearMeta(m) PROVE RecordingsInv'
<1>1. /\ end[m] # 0 /\ told' = [told EXCEPT ![m] = @ \cup {"meta"}]
      /\ buffer' = IF Len(buffer) = BufferCap THEN Append(Tail(buffer), m) ELSE Append(buffer, m)
      /\ index' \in Associate(index, m) /\ Own(index')
      /\ UNCHANGED worldVars /\ current' = current /\ from' = from /\ till' = till /\ disk' = disk
  BY DEF HearMeta
<1>2. PICK J : J = index'
  OBVIOUS
<1>3. Grown(index, J) /\ ((\E f \in Files : Shows(index[f], m)) => Carried(J, m))
  BY <1>1, <1>2, InvTypes, AssociateOne
<1>4. J \in IndexSet
  BY <1>3 DEF Grown
<1>5. /\ owner' \in OwnerSet
      /\ \A l \in Matches : owner[l] # 0 => owner'[l] # 0
      /\ \A l \in Matches : Carried(J, l) => owner'[l] # 0
  BY <1>1, <1>2, <1>4, InvTypes, OwnGives
<1>6. Len(buffer) <= BufferCap
  BY DEF RecordingsInv, RecordingsTypeOK
<1>7. /\ buffer' \in Seq(Matches) /\ Len(buffer') <= BufferCap
      /\ \A i \in 1..Len(buffer') : buffer'[i] = m
           \/ \E j \in 1..Len(buffer) : buffer'[i] = buffer[j]
  BY <1>1, <1>6, InvTypes, BufferAt
<1>8. told' \in ToldSet
  BY <1>1, InvTypes DEF ToldSet
<1>9. RecordingsTypeOK'
  BY <1>1, <1>2, <1>4, <1>5, <1>7, <1>8
     DEF RecordingsInv, RecordingsTypeOK, worldVars, ToldSet, OwnerSet, IndexSet, RowSet
<1>10. MatchesOver'
  BY <1>1 DEF RecordingsInv, MatchesOver, worldVars
<1>11. FilesBegun'
  BY <1>1, <1>2, <1>3 DEF RecordingsInv, FilesBegun, Grown
<1>12. CurrentOpen'
  BY <1>1, <1>2, <1>3, InvTypes DEF RecordingsInv, CurrentOpen, Grown, worldVars
<1>13. Claimed'
  <2>1. ASSUME NEW i \in 1..Len(buffer')
        PROVE  /\ end[buffer'[i]] # 0
               /\ \A f \in Files : Shows(J[f], buffer'[i]) => owner'[buffer'[i]] # 0
    <3>1. CASE buffer'[i] = m
      <4>1. \A f \in Files : Shows(J[f], m) => Shows(index[f], m)
        BY <1>3, GrownShows
      <4> QED BY <1>1, <1>3, <1>5, <3>1, <4>1
    <3>2. CASE \E j \in 1..Len(buffer) : buffer'[i] = buffer[j]
      <4>1. PICK j \in 1..Len(buffer) : buffer'[i] = buffer[j]
        BY <3>2
      <4>2. end[buffer[j]] # 0 /\ \A f \in Files : Shows(index[f], buffer[j])
                => owner[buffer[j]] # 0
        BY DEF RecordingsInv, Claimed
      <4>3. \A f \in Files : Shows(J[f], buffer[j]) => Shows(index[f], buffer[j])
        BY <1>3, GrownShows
      <4>4. buffer[j] \in Matches
        BY InvTypes
      <4> QED BY <1>5, <4>1, <4>2, <4>3, <4>4
    <3> QED BY <1>7, <3>1, <3>2
  <2> QED BY <1>1, <1>2, <2>1 DEF Claimed, Shows, Overlap, Shared, worldVars
<1> QED BY <1>9, <1>10, <1>11, <1>12, <1>13 DEF RecordingsInv

(* A signal that leads to nothing.                                         *)
LEMMA NoFileStep ==
  ASSUME RecordingsInv, NoFile, UNCHANGED worldVars, UNCHANGED buffer, told' \in ToldSet
  PROVE RecordingsInv'
<1>1. RecordingsTypeOK'
  BY DEF RecordingsInv, RecordingsTypeOK, worldVars, ToldSet, NoFile
<1>2. MatchesOver' /\ FilesBegun' /\ CurrentOpen'
  BY DEF RecordingsInv, MatchesOver, FilesBegun, CurrentOpen, worldVars, NoFile
<1>3. Claimed'
  BY DEF RecordingsInv, Claimed, Shows, Overlap, Shared, worldVars, NoFile
<1> QED BY <1>1, <1>2, <1>3 DEF RecordingsInv

(* onSegmentOpen, in either mode.                                          *)
LEMMA HearOpenStep ==
  ASSUME RecordingsInv, NEW m \in Matches, HearOpen(m) PROVE RecordingsInv'
<1>1. UNCHANGED worldVars /\ UNCHANGED buffer /\ told' = [told EXCEPT ![m] = @ \cup {"open"}]
  BY DEF HearOpen
<1>2. told' \in ToldSet
  BY <1>1, InvTypes DEF ToldSet
<1>3. CASE NoFile
  BY <1>1, <1>2, <1>3, NoFileStep
<1>4. CASE Cut /\ mode = "managed"
  BY <1>1, <1>2, <1>4, CutStep
<1>5. CASE /\ mode = "bypass" /\ FileBegins(NewFile) /\ disk' = disk \cup {NewFile}
           /\ UNCHANGED <<till, index, owner>>
  <2>1. PICK n : n = NewFile
    OBVIOUS
  <2>2. n \in Files
    BY <1>5, <2>1 DEF FileBegins
  <2>3. from[n] = 0
    BY <2>1, <2>2, NextFile, InvTypes DEF RecordingsInv
  <2>4. \A f \in Files : from[f] = 0 => till'[f] = 0 /\ index[f].start = 0 /\ index[f].stop = 0
    BY <1>5 DEF RecordingsInv, FilesBegun
  <2>5. index[n].stop = 0 /\ \A f \in Files : index[f].stop # 0 => index[f].start # 0
    BY <2>2, <2>3, <2>4 DEF RecordingsInv, FilesBegun
  <2>6. \A f \in Files : Pruned(index[f], index'[f], f)
    BY <1>5 DEF Pruned
  <2>7. Claimed'
    BY <1>1, <1>5 DEF RecordingsInv, Claimed, Shows, Overlap, Shared, worldVars
  <2>8. disk' \in SUBSET Files
    BY <1>5, <2>1, <2>2, InvTypes
  <2> QED BY <1>1, <1>2, <1>5, <2>1, <2>4, <2>5, <2>6, <2>7, <2>8, InvTypes, OpenFileStep
<1> QED BY <1>3, <1>4, <1>5 DEF HearOpen

(* onSegmentClose, in either mode.                                         *)
LEMMA HearCloseStep ==
  ASSUME RecordingsInv, NEW m \in Matches, HearClose(m) PROVE RecordingsInv'
<1>1. UNCHANGED worldVars /\ UNCHANGED buffer /\ told' = [told EXCEPT ![m] = @ \cup {"close"}]
  BY DEF HearClose
<1>2. told' \in ToldSet
  BY <1>1, InvTypes DEF ToldSet
<1>3. CASE NoFile
  BY <1>1, <1>2, <1>3, NoFileStep
<1>4. CASE Cut /\ mode = "managed"
  BY <1>1, <1>2, <1>4, CutStep
<1>5. CASE current # 0 /\ CloseWithRow
  BY <1>1, <1>2, <1>5, CloseWithRowStep
<1>6. CASE current # 0 /\ CloseFails
  BY <1>1, <1>2, <1>6, CloseFailsStep
<1> QED BY <1>3, <1>4, <1>5, <1>6 DEF HearClose

(* The timers of the idle game.                                            *)
LEMMA IdleCutStep == ASSUME RecordingsInv, IdleCut PROVE RecordingsInv'
<1>1. Cut /\ mode = "managed" /\ UNCHANGED worldVars /\ UNCHANGED buffer /\ told' = told
  BY DEF IdleCut
<1> QED BY <1>1, InvTypes, CutStep

(* The clock and the game move no match that was heard of.                 *)
LEMMA GameStep ==
  ASSUME RecordingsInv, UNCHANGED <<told, buffer, current, from, till, disk, index, owner>>,
         now' \in 1..MaxTime, mode' = mode,
         start' \in [Matches -> 0..MaxTime], end' \in [Matches -> 0..MaxTime],
         MatchesOver',
         \A l \in Matches : end[l] # 0 => start'[l] = start[l] /\ end'[l] = end[l]
  PROVE  RecordingsInv'
<1>1. RecordingsTypeOK'
  BY DEF RecordingsInv, RecordingsTypeOK
<1>2. FilesBegun' /\ CurrentOpen'
  BY DEF RecordingsInv, FilesBegun, CurrentOpen
<1>3. Claimed'
  <2>1. ASSUME NEW i \in 1..Len(buffer)
        PROVE  /\ end[buffer[i]] # 0 /\ start'[buffer[i]] = start[buffer[i]]
                    /\ end'[buffer[i]] = end[buffer[i]]
               /\ \A f \in Files : Shows(index[f], buffer[i]) => owner[buffer[i]] # 0
    <3>1. buffer[i] \in Matches
      BY InvTypes
    <3> QED BY <3>1 DEF RecordingsInv, Claimed
  <2> QED BY <2>1 DEF Claimed, Shows, Overlap, Shared
<1> QED BY <1>1, <1>2, <1>3 DEF RecordingsInv

(* Time passes.                                                            *)
LEMMA TickStep == ASSUME RecordingsInv, Tick PROVE RecordingsInv'
<1>1. /\ now \in 1..MaxTime /\ now' = now + 1 /\ now < MaxTime /\ MaxTime \in Nat
      /\ UNCHANGED <<told, buffer, current, from, till, disk, index, owner>>
      /\ start' = start /\ end' = end /\ mode' = mode
  BY InvTypes, BoundsAssumption DEF Tick
<1>2. now' \in 1..MaxTime
  BY <1>1
<1>3. MatchesOver'
  <2>1. ASSUME NEW l \in Matches PROVE end[l] <= now + 1
    <3>1. end[l] <= now /\ end[l] \in 0..MaxTime
      BY InvTypes DEF RecordingsInv, MatchesOver, MatchTimes
    <3> QED BY <1>1, <3>1
  <2> QED BY <1>1, <2>1 DEF RecordingsInv, MatchesOver
<1> QED BY <1>1, <1>2, <1>3, InvTypes, GameStep DEF MatchTimes

(* A match begins.                                                         *)
LEMMA MatchStartsStep ==
  ASSUME RecordingsInv, NEW m \in Matches, MatchStarts(m) PROVE RecordingsInv'
<1>1. /\ start[m] = 0 /\ start' = [start EXCEPT ![m] = now]
      /\ UNCHANGED <<told, buffer, current, from, till, disk, index, owner>>
      /\ now' = now /\ end' = end /\ mode' = mode
      /\ start \in [Matches -> 0..MaxTime] /\ now \in 1..MaxTime /\ now \in 0..MaxTime
  BY InvTypes DEF MatchStarts, MatchTimes
<1>2. start' \in [Matches -> 0..MaxTime] /\ \A l \in Matches : start'[l]
          = IF l = m THEN now ELSE start[l]
  BY <1>1
<1>3. MatchesOver'
  BY <1>1, <1>2 DEF RecordingsInv, MatchesOver
<1>4. \A l \in Matches : end[l] # 0 => start'[l] = start[l]
  BY <1>1, <1>2 DEF RecordingsInv, MatchesOver
<1> QED BY <1>1, <1>2, <1>3, <1>4, InvTypes, GameStep DEF MatchTimes

(* A match ends.                                                           *)
LEMMA MatchEndsStep ==
  ASSUME RecordingsInv, NEW m \in Matches, MatchEnds(m) PROVE RecordingsInv'
<1>1. /\ start[m] # 0 /\ end[m] = 0 /\ end' = [end EXCEPT ![m] = now]
      /\ UNCHANGED <<told, buffer, current, from, till, disk, index, owner>>
      /\ now' = now /\ start' = start /\ mode' = mode
      /\ end \in [Matches -> 0..MaxTime] /\ now \in 1..MaxTime /\ now \in 0..MaxTime
  BY InvTypes DEF MatchEnds, MatchTimes
<1>2. end' \in [Matches -> 0..MaxTime] /\ \A l \in Matches : end'[l] = IF l = m THEN now
          ELSE end[l]
  BY <1>1
<1>3. MatchesOver'
  BY <1>1, <1>2 DEF RecordingsInv, MatchesOver
<1>4. \A l \in Matches : end[l] # 0 => end'[l] = end[l]
  BY <1>1, <1>2
<1> QED BY <1>1, <1>2, <1>3, <1>4, InvTypes, GameStep DEF MatchTimes

(* The invariant holds initially.                                          *)
LEMMA RecordingsInitial == RecordingsInit => RecordingsInv
<1> SUFFICES ASSUME RecordingsInit PROVE RecordingsInv
  OBVIOUS
<1>0. /\ MaxTime \in Nat \ {0} /\ MaxFiles \in Nat /\ MaxMatches \in Nat /\ BufferCap \in Nat
      /\ 0 \in 0..MaxTime /\ 0 \in 0..MaxFiles /\ 1 \in 1..MaxTime
  BY BoundsAssumption
<1>1. <<>> \in Seq(Matches) /\ Len(<<>>) = 0 /\ NoRow \in RowSet /\ NoRow.start = 0
          /\ NoRow.stop = 0
  BY <1>0 DEF NoRow, RowSet
<1>2. RecordingsTypeOK
  BY <1>0, <1>1 DEF RecordingsInit, RecordingsTypeOK, RowSet
<1>3. MatchesOver
  BY <1>0 DEF RecordingsInit, MatchesOver
<1>4. FilesBegun
  <2>1. \A f \in Files : from[f] # 0 <=> f <= 0
    BY <1>0 DEF RecordingsInit, Files
  <2> QED BY <1>0, <1>1, <2>1 DEF RecordingsInit, FilesBegun
<1>5. CurrentOpen
  BY DEF RecordingsInit, CurrentOpen
<1>6. Claimed
  BY <1>1 DEF RecordingsInit, Claimed
<1> QED BY <1>2, <1>3, <1>4, <1>5, <1>6 DEF RecordingsInv

(* Every action keeps it.                                                  *)
LEMMA RecordingsInductive == RecordingsInv /\ [RecordingsNext]_recordingsVars => RecordingsInv'
<1> SUFFICES ASSUME RecordingsInv, [RecordingsNext]_recordingsVars PROVE RecordingsInv'
  OBVIOUS
<1>1. CASE UNCHANGED recordingsVars
  <2>1. NoFile /\ UNCHANGED worldVars /\ UNCHANGED buffer /\ told' = told
    BY <1>1 DEF recordingsVars, NoFile, worldVars
  <2> QED BY <2>1, InvTypes, NoFileStep
<1> QED
  BY <1>1, FirstChunkStep, IdleCutStep, StopContinuousStep, ObsDiesStep, HearOpenStep,
     HearMetaStep,
     HearCloseStep, TickStep, MatchStartsStep, MatchEndsStep DEF RecordingsNext

(* Clock, files, rows and history stay well-typed, whatever the number of  *)
(* files and matches (recordingsStore.ts, recorder.ts).                    *)
THEOREM RecordingsTypeCorrect == RecordingsSpec => []RecordingsTypeOK
<1>1. RecordingsInv => RecordingsTypeOK
  BY DEF RecordingsInv
<1> QED
  BY <1>1, RecordingsInitial, RecordingsInductive, PTL DEF RecordingsSpec

(* HeardMatchIsClaimed: whichever comes first, its row (doClose,           *)
(* closeChunk) or the match's metadata (associate), a recording that is    *)
(* over and shows a match of the buffer leaves no match without a          *)
(* recording.                                                              *)
THEOREM HeardMatchIsClaimedHolds == RecordingsSpec => []HeardMatchIsClaimed
<1>1. RecordingsInv => HeardMatchIsClaimed
  <2> SUFFICES ASSUME RecordingsInv, NEW i \in 1..Len(buffer), NEW f \in Files,
                      index[f].stop # 0, Overlap(index[f], buffer[i]) > 0
               PROVE  owner[buffer[i]] # 0
    BY DEF HeardMatchIsClaimed
  <2>1. buffer[i] \in Matches /\ index[f].start \in 0..MaxTime /\ index[f].stop \in 0..MaxTime
    BY InvTypes, IndexTypes
  <2>2. Shared(index[f].start, index[f].stop, buffer[i]) > 0
    BY DEF Overlap
  <2>3. index[f].start < end[buffer[i]]
    BY <2>1, <2>2, InvTypes, SharedPositive
  <2>4. index[f].start # 0
    BY DEF RecordingsInv, FilesBegun
  <2> QED BY <2>3, <2>4 DEF RecordingsInv, Claimed, Shows
<1> QED
  BY <1>1, RecordingsInitial, RecordingsInductive, PTL DEF RecordingsSpec

-----------------------------------------------------------------------------
(***************************************************************************)
(* No row is lost before its file                                          *)
(***************************************************************************)

(* What a step does to the rows there were: each stays, or its file goes.  *)
RowsStay == \A f \in Indexed(index) : f \in disk' => f \in Indexed(index')

(* prune() takes a row only with its file.                                 *)
LEMMA PruneStays ==
  ASSUME now \in 1..MaxTime, till \in [Files -> 0..MaxTime],
         NEW I \in IndexSet, NEW D \in SUBSET Files, Prune(I, D),
         \A f \in Files : index[f].start # 0 => I[f].start # 0
  PROVE  RowsStay
<1> SUFFICES ASSUME NEW f \in Files, index[f].start # 0, f \in disk'
             PROVE  index'[f].start # 0
  BY DEF RowsStay, Indexed
<1>1. (Gone(I[f], index'[f], f) /\ f \notin disk') \/ Pruned(I[f], index'[f], f)
  BY PruneRows
<1> QED BY <1>1 DEF Pruned

(* A new row hides none of those there were.                               *)
LEMMA OpenKeeps ==
  ASSUME NEW I \in IndexSet, NEW f \in Files, NEW at \in 0..MaxTime, at # 0, NEW J,
         J = OpenRow(I, f, at)
  PROVE  J \in IndexSet /\ \A g \in Files : I[g].start # 0 => J[g].start # 0
<1>1. Opened(I, J, f, at)
  BY OpenRowAt
<1> QED BY <1>1 DEF Opened

(* A cut adds a row and prunes.                                            *)
LEMMA CutStays == ASSUME RecordingsInv, Cut PROVE RowsStay
<1>1. current # 0 /\ current \in Files /\ NewFile \in Files /\ now \in 0..MaxTime /\ now # 0
  BY InvTypes DEF Cut, FileBegins
<1>2. PICK n \in Files : n = NewFile
  BY <1>1
<1>3. PICK I : I = OpenRow(index, n, now)
  OBVIOUS
<1>4. I \in IndexSet /\ \A g \in Files : index[g].start # 0 => I[g].start # 0
  BY <1>1, <1>3, InvTypes, OpenKeeps
<1>5. CASE Prune(CloseRow(I, current), disk \cup {n})
  <2>1. PICK K : K = CloseRow(I, current)
    OBVIOUS
  <2>2. K \in IndexSet /\ \A g \in Files : K[g].start = I[g].start
    BY <1>1, <1>4, <2>1, InvTypes, CloseRowAt
  <2>3. \A g \in Files : index[g].start # 0 => K[g].start # 0
    BY <1>4, <2>2
  <2>4. disk \cup {n} \in SUBSET Files
    BY InvTypes
  <2>5. Prune(K, disk \cup {n})
    BY <1>5, <2>1
  <2> QED BY <2>2, <2>3, <2>4, <2>5, InvTypes, PruneStays
<1>6. CASE index' = I
  BY <1>4, <1>6 DEF RowsStay, Indexed
<1> QED BY <1>2, <1>3, <1>5, <1>6 DEF Cut

(* doClose gives the current file its row, and prunes.                     *)
LEMMA CloseWithRowStays == ASSUME RecordingsInv, CloseWithRow, current # 0 PROVE RowsStay
<1>1. current \in Files /\ from[current] \in 0..MaxTime /\ from[current] # 0
  BY InvTypes DEF RecordingsInv, CurrentOpen
<1>2. PICK O : O = OpenRow(index, current, from[current])
  OBVIOUS
<1>3. PICK K : K = CloseRow(O, current)
  OBVIOUS
<1>4. PICK I : I \in AssociateAll(K, buffer) /\ Prune(I, disk)
  BY <1>2, <1>3 DEF CloseWithRow
<1>5. O \in IndexSet /\ \A g \in Files : index[g].start # 0 => O[g].start # 0
  BY <1>1, <1>2, InvTypes, OpenKeeps
<1>6. K \in IndexSet /\ \A g \in Files : K[g].start = O[g].start
  BY <1>1, <1>3, <1>5, InvTypes, CloseRowAt
<1>7. Grown(K, I)
  BY <1>4, <1>6, InvTypes, AssociateEach
<1>8. I \in IndexSet /\ \A g \in Files : index[g].start # 0 => I[g].start # 0
  BY <1>5, <1>6, <1>7 DEF Grown
<1> QED BY <1>4, <1>8, InvTypes, PruneStays

(* The game ended: the current file is closed, and the index pruned.       *)
LEMMA StopContinuousStays == ASSUME RecordingsInv, StopContinuous PROVE RowsStay
<1>1. current \in Files /\ Prune(CloseRow(index, current), disk)
  BY InvTypes DEF StopContinuous
<1>2. PICK K : K = CloseRow(index, current)
  OBVIOUS
<1>3. K \in IndexSet /\ \A g \in Files : K[g].start = index[g].start
  BY <1>1, <1>2, InvTypes, CloseRowAt
<1> QED BY <1>1, <1>2, <1>3, InvTypes, PruneStays

(* A match's metadata changes the start of no row.                         *)
LEMMA HearMetaStays == ASSUME RecordingsInv, NEW m \in Matches, HearMeta(m) PROVE RowsStay
<1>1. PICK J : J = index'
  OBVIOUS
<1>2. J \in Associate(index, m)
  BY <1>1 DEF HearMeta
<1>3. Grown(index, J)
  BY <1>2, InvTypes, AssociateOne
<1> QED BY <1>1, <1>3 DEF Grown, RowsStay, Indexed

(* IndexedUntilGone: whatever is done to the index - a row opened, closed, *)
(* given matches, reclaimed or pruned - a file that is still there keeps   *)
(* its row, so that a later prune can delete it.                           *)
THEOREM IndexedUntilGoneHolds == RecordingsSpec => IndexedUntilGone
<1>1. ASSUME RecordingsInv, [RecordingsNext]_recordingsVars
      PROVE  [RowsStay]_recordingsVars
  <2>1. CASE UNCHANGED index
    BY <2>1 DEF RowsStay
  <2>2. CASE FirstChunk
    <3>1. PICK n \in Files : index' = OpenRow(index, n, now)
      BY <2>2 DEF FirstChunk, FileBegins
    <3>2. PICK J : J = OpenRow(index, n, now)
      OBVIOUS
    <3>3. now \in 0..MaxTime /\ now # 0 /\ index \in IndexSet
      BY <1>1, InvTypes
    <3>4. \A g \in Files : index[g].start # 0 => J[g].start # 0
      BY <3>2, <3>3, OpenKeeps
    <3> QED BY <3>1, <3>2, <3>4 DEF RowsStay, Indexed
  <2>3. CASE Cut
    BY <1>1, <2>3, CutStays
  <2>4. CASE StopContinuous
    BY <1>1, <2>4, StopContinuousStays
  <2>5. CASE \E m \in Matches : HearMeta(m)
    BY <1>1, <2>5, HearMetaStays
  <2>6. CASE current # 0 /\ CloseWithRow
    BY <1>1, <2>6, CloseWithRowStays
  <2>7. CASE CloseFails
    <3>1. Prune(index, disk)
      BY <2>7 DEF CloseFails
    <3> QED BY <1>1, <3>1, InvTypes, PruneStays
  <2> QED
    BY <1>1, <2>1, <2>2, <2>3, <2>4, <2>5, <2>6, <2>7
       DEF RecordingsNext, IdleCut, ObsDies, HearOpen, HearClose, NoFile, Tick, MatchStarts,
          MatchEnds
<1>2. [RowsStay]_recordingsVars <=> [\A f \in Indexed(index) : f \in disk'
          => f \in Indexed(index')]_recordingsVars
  BY DEF RowsStay
<1> QED
  BY <1>1, <1>2, RecordingsInitial, RecordingsInductive, PTL DEF RecordingsSpec, IndexedUntilGone

-----------------------------------------------------------------------------
(***************************************************************************)
(* Folds over the files                                                    *)
(***************************************************************************)

(* Induction from N + 1 down to 1.                                         *)
LEMMA FromTheTop ==
  ASSUME NEW N \in Nat, NEW T, N + 1 \in T, \A n \in 1..N : n + 1 \in T => n \in T
  PROVE  \A n \in 1..(N + 1) : n \in T
<1> DEFINE U == {k \in 0..N : (N + 1) - k \in T}
<1>1. 0 \in U
  OBVIOUS
<1>2. ASSUME NEW k \in 0..N, k \in U, k < N PROVE k + 1 \in U
  <2>1. (N + 1) - (k + 1) \in 1..N /\ ((N + 1) - (k + 1)) + 1 = (N + 1) - k /\ k + 1 \in 0..N
    BY <1>2
  <2>2. (N + 1) - k \in T
    BY <1>2
  <2> QED BY <2>1, <2>2
<1>3. \A k \in 0..N : k \in U
  <2> HIDE DEF U
  <2> QED BY <1>1, <1>2, FromZeroUp
<1>4. ASSUME NEW n \in 1..(N + 1) PROVE n \in T
  <2>1. (N + 1) - n \in 0..N /\ (N + 1) - ((N + 1) - n) = n
    OBVIOUS
  <2>2. (N + 1) - n \in U
    BY <1>3, <2>1
  <2> QED BY <2>1, <2>2
<1> QED BY <1>4

(* A chain of results from the newest file to the oldest, from k on.       *)
Chain(base, F, k, g) ==
  [n \in k..(MaxFiles + 1) |-> IF n > MaxFiles THEN base ELSE F[n][g[n + 1]]]

(* There is such a chain: the fold over the files is well-defined.         *)
LEMMA ChainExists ==
  ASSUME NEW base, NEW F
  PROVE  \E g : g = Chain(base, F, 1, g)
<1>1. PICK N \in Nat : N = MaxFiles
  BY BoundsAssumption
<1> DEFINE T == {k \in 1..(N + 1) : \E g : g = Chain(base, F, k, g)}
<1>2. N + 1 \in T
  <2>1. [n \in (N + 1)..(N + 1) |-> base] = Chain(base, F, N + 1,
            [n \in (N + 1)..(N + 1) |-> base])
    BY <1>1 DEF Chain
  <2> QED BY <1>1, <2>1
<1>3. ASSUME NEW k \in 1..N, k + 1 \in T PROVE k \in T
  <2>1. PICK g : g = Chain(base, F, k + 1, g)
    BY <1>3
  <2> DEFINE h == Chain(base, F, k, g)
  <2>2. ASSUME NEW n \in (k + 1)..(N + 1) PROVE h[n] = g[n]
    <3>1. n \in k..(N + 1) /\ n \in (k + 1)..(N + 1)
      BY <2>2
    <3>2. h[n] = IF n > MaxFiles THEN base ELSE F[n][g[n + 1]]
      BY <1>1, <3>1 DEF Chain
    <3>3. Chain(base, F, k + 1, g)[n] = IF n > MaxFiles THEN base ELSE F[n][g[n + 1]]
      BY <1>1, <3>1 DEF Chain
    <3> QED BY <2>1, <3>2, <3>3
  <2>3. h = Chain(base, F, k, h)
    <3>1. ASSUME NEW n \in k..(N + 1)
          PROVE  (IF n > MaxFiles THEN base ELSE F[n][g[n + 1]])
               = (IF n > MaxFiles THEN base ELSE F[n][h[n + 1]])
      <4>1. CASE n > N
        BY <1>1, <4>1
      <4>2. CASE ~(n > N)
        <5>1. n + 1 \in (k + 1)..(N + 1)
          BY <3>1, <4>2
        <5>2. h[n + 1] = g[n + 1]
          BY <2>2, <5>1
        <5> HIDE DEF h
        <5> QED BY <5>2
      <4> QED BY <4>1, <4>2
    <3> HIDE DEF h
    <3>2. Chain(base, F, k, g) = Chain(base, F, k, h)
      BY <1>1, <3>1 DEF Chain
    <3> QED BY <3>2 DEF h
  <2> HIDE DEF h
  <2> QED BY <2>3
<1>4. \A n \in 1..(N + 1) : n \in T
  <2> HIDE DEF T
  <2> QED BY <1>2, <1>3, FromTheTop
<1>5. 1 \in T
  BY <1>4
<1> QED BY <1>5

(* A chain whose links keep to X is one of elements of X.                  *)
LEMMA ChainTyped ==
  ASSUME NEW X, NEW base \in X, NEW F, \A n \in Files, x \in X : F[n][x] \in X,
         NEW g, g = Chain(base, F, 1, g)
  PROVE  \A n \in 1..(MaxFiles + 1) : g[n] \in X
<1>1. PICK N \in Nat : N = MaxFiles
  BY BoundsAssumption
<1> DEFINE T == {n \in 1..(N + 1) : g[n] \in X}
<1>2. \A n \in 1..(N + 1) : g[n] = IF n > N THEN base ELSE F[n][g[n + 1]]
  BY <1>1 DEF Chain
<1>3. N + 1 \in T
  BY <1>2
<1>4. ASSUME NEW n \in 1..N, n + 1 \in T PROVE n \in T
  <2>1. n \in 1..(N + 1) /\ ~(n > N) /\ n \in Files
    BY <1>1 DEF Files
  <2> QED BY <1>2, <1>4, <2>1
<1>5. \A n \in 1..(N + 1) : n \in T
  <2> HIDE DEF T
  <2> QED BY <1>3, <1>4, FromTheTop
<1> QED BY <1>1, <1>5

-----------------------------------------------------------------------------
(* The sizes of the files of S, added from the newest to the oldest.       *)
Sums(S, g) ==
  [n \in 1..(MaxFiles + 1) |-> IF n > MaxFiles THEN 0
                               ELSE IF n \in S THEN g[n + 1] + Size(n) ELSE g[n + 1]]

(* No file has a negative size.                                            *)
SizesNat == \A f \in Files : Size(f) \in Nat

(* The fold of TotalSize, step by step.                                    *)
LEMMA TotalSizeSteps ==
  ASSUME SizesNat, NEW S
  PROVE  \E g : /\ TotalSize(S) = g[1]
                /\ \A n \in 1..(MaxFiles + 1) : g[n] \in Nat
                /\ g[MaxFiles + 1] = 0
                /\ \A n \in Files : g[n] = IF n \in S THEN g[n + 1] + Size(n) ELSE g[n + 1]
<1>1. PICK N \in Nat : N = MaxFiles
  BY BoundsAssumption
<1> DEFINE F == [n \in Files |-> [x \in Nat |-> IF n \in S THEN x + Size(n) ELSE x]]
<1>2. \A n \in Files, x \in Nat : F[n][x] = (IF n \in S THEN x + Size(n) ELSE x)
          /\ F[n][x] \in Nat
  BY DEF SizesNat
<1> HIDE DEF F
<1>3. PICK g : g = Chain(0, F, 1, g)
  BY ChainExists
<1>4. \A n \in 1..(N + 1) : g[n] \in Nat
  BY <1>1, <1>2, <1>3, ChainTyped
<1>5. g = Sums(S, g)
  <2>1. ASSUME NEW n \in 1..(N + 1)
        PROVE  (IF n > N THEN 0 ELSE F[n][g[n + 1]])
             = (IF n > N THEN 0 ELSE IF n \in S THEN g[n + 1] + Size(n) ELSE g[n + 1])
    <3>1. CASE n > N
      BY <3>1
    <3>2. CASE ~(n > N)
      <4>1. n \in Files /\ n + 1 \in 1..(N + 1)
        BY <1>1, <3>2 DEF Files
      <4> QED BY <1>2, <1>4, <3>2, <4>1
    <3> QED BY <3>1, <3>2
  <2>2. Chain(0, F, 1, g) = Sums(S, g)
    BY <1>1, <2>1 DEF Chain, Sums
  <2> QED BY <1>3, <2>2
<1> DEFINE sums == CHOOSE h : h = Sums(S, h)
<1>6. sums = Sums(S, sums)
  BY <1>5
<1>7. TotalSize(S) = sums[1]
  BY DEF TotalSize, FoldFiles, Sums
<1> HIDE DEF sums
<1>8. \A n \in 1..(N + 1) : sums[n] = IF n > N THEN 0
          ELSE IF n \in S THEN sums[n + 1] + Size(n) ELSE sums[n + 1]
  BY <1>1, <1>6 DEF Sums
<1>9. sums[N + 1] = 0
  BY <1>8
<1>10. \A n \in Files : sums[n] = IF n \in S THEN sums[n + 1] + Size(n) ELSE sums[n + 1]
  <2>1. \A n \in Files : n \in 1..(N + 1) /\ ~(n > N)
    BY <1>1 DEF Files
  <2> QED BY <1>8, <2>1
<1> DEFINE T == {n \in 1..(N + 1) : sums[n] \in Nat}
<1>11. ASSUME NEW n \in 1..N, n + 1 \in T PROVE n \in T
  <2>1. n \in Files /\ n \in 1..(N + 1)
    BY <1>1 DEF Files
  <2> QED BY <1>10, <1>11, <2>1 DEF SizesNat
<1>12. N + 1 \in T
  BY <1>9
<1>13. \A n \in 1..(N + 1) : n \in T
  <2> HIDE DEF T
  <2> QED BY <1>11, <1>12, FromTheTop
<1> QED BY <1>1, <1>7, <1>9, <1>10, <1>13

(* The size of a set of files is a natural number,                         *)
LEMMA TotalSizeNat == ASSUME SizesNat, NEW S PROVE TotalSize(S) \in Nat
<1>1. PICK g : TotalSize(S) = g[1] /\ \A n \in 1..(MaxFiles + 1) : g[n] \in Nat
  BY TotalSizeSteps
<1>2. 1 \in 1..(MaxFiles + 1)
  BY BoundsAssumption
<1> QED BY <1>1, <1>2

(* grows by that of a file that is added,                                  *)
LEMMA TotalSizeAdds ==
  ASSUME SizesNat, NEW S, NEW f \in Files, f \notin S
  PROVE  TotalSize(S \cup {f}) = TotalSize(S) + Size(f)
<1>1. PICK N \in Nat : N = MaxFiles
  BY BoundsAssumption
<1>2. PICK g : /\ TotalSize(S) = g[1]
               /\ \A n \in 1..(N + 1) : g[n] \in Nat
               /\ g[N + 1] = 0
               /\ \A n \in Files : g[n] = IF n \in S THEN g[n + 1] + Size(n) ELSE g[n + 1]
  BY <1>1, TotalSizeSteps
<1>3. PICK h : /\ TotalSize(S \cup {f}) = h[1]
               /\ \A n \in 1..(N + 1) : h[n] \in Nat
               /\ h[N + 1] = 0
               /\ \A n \in Files : h[n] = IF n \in S \cup {f} THEN h[n + 1] + Size(n)
                    ELSE h[n + 1]
  BY <1>1, TotalSizeSteps
<1> DEFINE T == {n \in 1..(N + 1) : h[n] = IF n > f THEN g[n] ELSE g[n] + Size(f)}
<1>4. f \in 1..N /\ f \in Nat /\ Size(f) \in Nat
  BY <1>1 DEF Files, SizesNat
<1>5. N + 1 \in T
  BY <1>2, <1>3, <1>4
<1>6. ASSUME NEW n \in 1..N, n + 1 \in T PROVE n \in T
  <2>1. /\ n \in Files /\ n \in 1..(N + 1) /\ n + 1 \in 1..(N + 1)
        /\ g[n + 1] \in Nat /\ h[n + 1] \in Nat /\ Size(n) \in Nat
    BY <1>1, <1>2, <1>3 DEF Files, SizesNat
  <2>2. h[n + 1] = IF n + 1 > f THEN g[n + 1] ELSE g[n + 1] + Size(f)
    BY <1>6
  <2>3. CASE n = f
    <3>1. h[n] = h[n + 1] + Size(n) /\ g[n] = g[n + 1]
      BY <1>2, <1>3, <2>1, <2>3
    <3>2. h[n + 1] = g[n + 1]
      BY <1>4, <2>2, <2>3
    <3> QED BY <1>4, <2>1, <2>3, <3>1, <3>2
  <2>4. CASE n # f
    <3>1. (n + 1 > f) <=> (n > f)
      BY <1>4, <2>4
    <3>2. /\ h[n] = IF n \in S THEN h[n + 1] + Size(n) ELSE h[n + 1]
          /\ g[n] = IF n \in S THEN g[n + 1] + Size(n) ELSE g[n + 1]
      BY <1>2, <1>3, <2>1, <2>4
    <3> QED BY <1>4, <2>1, <2>2, <3>1, <3>2
  <2> QED BY <2>3, <2>4
<1>7. \A n \in 1..(N + 1) : n \in T
  <2> HIDE DEF T
  <2> QED BY <1>5, <1>6, FromTheTop
<1>8. 1 \in T /\ ~(1 > f)
  BY <1>4, <1>7
<1> QED BY <1>2, <1>3, <1>8

(* and is not less than that of a subset.                                  *)
LEMMA TotalSizeGrows ==
  ASSUME SizesNat, NEW S, NEW U, S \subseteq U
  PROVE  TotalSize(S) <= TotalSize(U)
<1>1. PICK N \in Nat : N = MaxFiles
  BY BoundsAssumption
<1>2. PICK g : /\ TotalSize(S) = g[1]
               /\ \A n \in 1..(N + 1) : g[n] \in Nat
               /\ g[N + 1] = 0
               /\ \A n \in Files : g[n] = IF n \in S THEN g[n + 1] + Size(n) ELSE g[n + 1]
  BY <1>1, TotalSizeSteps
<1>3. PICK h : /\ TotalSize(U) = h[1]
               /\ \A n \in 1..(N + 1) : h[n] \in Nat
               /\ h[N + 1] = 0
               /\ \A n \in Files : h[n] = IF n \in U THEN h[n + 1] + Size(n) ELSE h[n + 1]
  BY <1>1, TotalSizeSteps
<1> DEFINE T == {n \in 1..(N + 1) : g[n] <= h[n]}
<1>4. N + 1 \in T
  BY <1>2, <1>3
<1>5. ASSUME NEW n \in 1..N, n + 1 \in T PROVE n \in T
  <2>1. /\ n \in Files /\ n \in 1..(N + 1) /\ n + 1 \in 1..(N + 1)
        /\ g[n + 1] \in Nat /\ h[n + 1] \in Nat /\ Size(n) \in Nat
    BY <1>1, <1>2, <1>3 DEF Files, SizesNat
  <2>2. /\ h[n] = IF n \in U THEN h[n + 1] + Size(n) ELSE h[n + 1]
        /\ g[n] = IF n \in S THEN g[n + 1] + Size(n) ELSE g[n + 1]
    BY <1>2, <1>3, <2>1
  <2>3. g[n + 1] <= h[n + 1]
    BY <1>5
  <2>4. n \in S => n \in U
    OBVIOUS
  <2> QED BY <2>1, <2>2, <2>3, <2>4
<1>6. \A n \in 1..(N + 1) : n \in T
  <2> HIDE DEF T
  <2> QED BY <1>4, <1>5, FromTheTop
<1>7. 1 \in T
  BY <1>6
<1> QED BY <1>2, <1>3, <1>7

-----------------------------------------------------------------------------
(* The recordings of matches that are over.                                *)
WithMatches(I) == {f \in Closed(I) : I[f].matches # <<>>}

(* What KeptForCount admits.                                               *)
Fewer(I, kept, f) ==
  \/ KeepCount = 0
  \/ Cardinality(kept.matches) < KeepCount
  \/ Carries(I, f) \cap kept.matches # {}

(* A recording is taken with its matches, or left out.                     *)
Admitted(I, kept, f) ==
  IF Fewer(I, kept, f)
  THEN [files |-> kept.files \cup {f}, matches |-> kept.matches \cup Carries(I, f)]
  ELSE kept

(* The fold of KeptForCount,                                               *)
Counted(I, g) ==
  [n \in 1..(MaxFiles + 1) |-> IF n > MaxFiles THEN [files |-> {}, matches |-> {}]
                               ELSE IF n \in WithMatches(I) THEN Admitted(I, g[n + 1], n)
                                   ELSE g[n + 1]]

(* step by step.                                                           *)
LEMMA KeptForCountSteps ==
  ASSUME NEW I \in IndexSet
  PROVE  \E g : /\ KeptForCount(I) = g[1].files
                /\ \A n \in 1..(MaxFiles + 1) : g[n] \in [files : SUBSET Files,
                     matches : SUBSET Matches]
                /\ g[MaxFiles + 1] = [files |-> {}, matches |-> {}]
                /\ \A n \in Files : g[n] = IF n \in WithMatches(I) THEN Admitted(I, g[n + 1],
                     n) ELSE g[n + 1]
<1>1. PICK N \in Nat : N = MaxFiles
  BY BoundsAssumption
<1> DEFINE X == [files : SUBSET Files, matches : SUBSET Matches]
           none == [files |-> {}, matches |-> {}]
           F == [n \in Files |-> [x \in X |-> IF n \in WithMatches(I) THEN Admitted(I, x,
               n) ELSE x]]
<1>2. none \in X
  OBVIOUS
<1>3. \A n \in Files, x \in X : Admitted(I, x, n) \in X
  <2> SUFFICES ASSUME NEW n \in Files, NEW x \in X PROVE Admitted(I, x, n) \in X
    OBVIOUS
  <2>1. Carries(I, n) \in SUBSET Matches
    BY IndexTypes DEF Carries, ToSet
  <2> QED BY <2>1 DEF Admitted
<1>4. \A n \in Files, x \in X : F[n][x] = (IF n \in WithMatches(I) THEN Admitted(I, x, n)
          ELSE x) /\ F[n][x] \in X
  BY <1>3
<1> HIDE DEF F, X
<1>5. PICK g : g = Chain(none, F, 1, g)
  BY ChainExists
<1>6. \A n \in 1..(N + 1) : g[n] \in X
  BY <1>1, <1>2, <1>4, <1>5, ChainTyped
<1>7. g = Counted(I, g)
  <2>1. ASSUME NEW n \in 1..(N + 1)
        PROVE  (IF n > N THEN none ELSE F[n][g[n + 1]])
             = (IF n > N THEN none ELSE IF n \in WithMatches(I) THEN Admitted(I, g[n + 1],
                 n) ELSE g[n + 1])
    <3>1. CASE n > N
      BY <3>1
    <3>2. CASE ~(n > N)
      <4>1. n \in Files /\ n + 1 \in 1..(N + 1)
        BY <1>1, <3>2 DEF Files
      <4> QED BY <1>4, <1>6, <3>2, <4>1
    <3> QED BY <3>1, <3>2
  <2>2. Chain(none, F, 1, g) = Counted(I, g)
    BY <1>1, <2>1 DEF Chain, Counted
  <2> QED BY <1>5, <2>2
<1> DEFINE kept == CHOOSE h : h = Counted(I, h)
<1>8. kept = Counted(I, kept)
  BY <1>7
<1>9. KeptForCount(I) = kept[1].files
  BY DEF KeptForCount, FoldFiles, Counted, WithMatches, Admitted, Fewer
<1> HIDE DEF kept
<1>10. \A n \in 1..(N + 1) : kept[n] = IF n > N THEN none
           ELSE IF n \in WithMatches(I) THEN Admitted(I, kept[n + 1], n) ELSE kept[n + 1]
  BY <1>1, <1>8 DEF Counted
<1>11. kept[N + 1] = none
  BY <1>10
<1>12. \A n \in Files : kept[n] = IF n \in WithMatches(I) THEN Admitted(I, kept[n + 1], n)
           ELSE kept[n + 1]
  <2>1. \A n \in Files : n \in 1..(N + 1) /\ ~(n > N)
    BY <1>1 DEF Files
  <2> QED BY <1>10, <2>1
<1> DEFINE T == {n \in 1..(N + 1) : kept[n] \in X}
<1>13. ASSUME NEW n \in 1..N, n + 1 \in T PROVE n \in T
  <2>1. n \in Files /\ n \in 1..(N + 1)
    BY <1>1 DEF Files
  <2> QED BY <1>3, <1>12, <1>13, <2>1
<1>14. N + 1 \in T
  BY <1>2, <1>11
<1>15. \A n \in 1..(N + 1) : n \in T
  <2> HIDE DEF T
  <2> QED BY <1>13, <1>14, FromTheTop
<1> QED BY <1>1, <1>9, <1>11, <1>12, <1>15 DEF X

(* The space taken.                                                        *)
Fitted(kept, f) ==
  IF kept.running + Size(f) > MaxBytes THEN kept
  ELSE [files |-> kept.files \cup {f}, running |-> kept.running + Size(f)]

(* The fold of KeptForBytes,                                               *)
Packed(base, keep, g) ==
  [n \in 1..(MaxFiles + 1) |-> IF n > MaxFiles THEN base
                               ELSE IF n \in keep THEN Fitted(g[n + 1], n) ELSE g[n + 1]]

(* step by step.                                                           *)
LEMMA KeptForBytesSteps ==
  ASSUME SizesNat, NEW I, NEW keep
  PROVE  \E g : /\ KeptForBytes(I, keep) = g[1].files
                /\ \A n \in 1..(MaxFiles + 1) : g[n] \in [files : SUBSET Files, running : Nat]
                /\ g[MaxFiles + 1] = [files |-> {}, running |-> TotalSize(Live(I))]
                /\ \A n \in Files : g[n] = IF n \in keep THEN Fitted(g[n + 1], n) ELSE g[n + 1]
<1>1. PICK N \in Nat : N = MaxFiles
  BY BoundsAssumption
<1> DEFINE X == [files : SUBSET Files, running : Nat]
           none == [files |-> {}, running |-> TotalSize(Live(I))]
           F == [n \in Files |-> [x \in X |-> IF n \in keep THEN Fitted(x, n) ELSE x]]
<1>2. none \in X
  BY TotalSizeNat
<1>3. \A n \in Files, x \in X : Fitted(x, n) \in X
  BY DEF Fitted, SizesNat
<1>4. \A n \in Files, x \in X : F[n][x] = (IF n \in keep THEN Fitted(x, n) ELSE x)
          /\ F[n][x] \in X
  BY <1>3
<1> HIDE DEF F, X
<1>5. PICK g : g = Chain(none, F, 1, g)
  BY ChainExists
<1>6. \A n \in 1..(N + 1) : g[n] \in X
  BY <1>1, <1>2, <1>4, <1>5, ChainTyped
<1>7. g = Packed(none, keep, g)
  <2>1. ASSUME NEW n \in 1..(N + 1)
        PROVE  (IF n > N THEN none ELSE F[n][g[n + 1]])
             = (IF n > N THEN none ELSE IF n \in keep THEN Fitted(g[n + 1], n) ELSE g[n + 1])
    <3>1. CASE n > N
      BY <3>1
    <3>2. CASE ~(n > N)
      <4>1. n \in Files /\ n + 1 \in 1..(N + 1)
        BY <1>1, <3>2 DEF Files
      <4> QED BY <1>4, <1>6, <3>2, <4>1
    <3> QED BY <3>1, <3>2
  <2>2. Chain(none, F, 1, g) = Packed(none, keep, g)
    BY <1>1, <2>1 DEF Chain, Packed
  <2> QED BY <1>5, <2>2
<1> DEFINE kept == CHOOSE h : h = Packed(none, keep, h)
<1>8. kept = Packed(none, keep, kept)
  BY <1>7
<1>9. KeptForBytes(I, keep) = kept[1].files
  BY DEF KeptForBytes, FoldFiles, Packed, Fitted
<1> HIDE DEF kept
<1>10. \A n \in 1..(N + 1) : kept[n] = IF n > N THEN none
           ELSE IF n \in keep THEN Fitted(kept[n + 1], n) ELSE kept[n + 1]
  BY <1>1, <1>8 DEF Packed
<1>11. kept[N + 1] = none
  BY <1>10
<1>12. \A n \in Files : kept[n] = IF n \in keep THEN Fitted(kept[n + 1], n) ELSE kept[n + 1]
  <2>1. \A n \in Files : n \in 1..(N + 1) /\ ~(n > N)
    BY <1>1 DEF Files
  <2> QED BY <1>10, <2>1
<1> DEFINE T == {n \in 1..(N + 1) : kept[n] \in X}
<1>13. ASSUME NEW n \in 1..N, n + 1 \in T PROVE n \in T
  <2>1. n \in Files /\ n \in 1..(N + 1)
    BY <1>1 DEF Files
  <2> QED BY <1>3, <1>12, <1>13, <2>1
<1>14. N + 1 \in T
  BY <1>2, <1>11
<1>15. \A n \in 1..(N + 1) : n \in T
  <2> HIDE DEF T
  <2> QED BY <1>13, <1>14, FromTheTop
<1> QED BY <1>1, <1>9, <1>11, <1>12, <1>15 DEF X

(* Nothing that was taken is given up.                                     *)
LEMMA AdmittedGrows ==
  ASSUME NEW I, NEW kept, NEW f
  PROVE  /\ kept.files \subseteq Admitted(I, kept, f).files
         /\ Admitted(I, kept, f).matches \subseteq kept.matches \cup Carries(I, f)
<1>1. CASE Fewer(I, kept, f)
  <2>1. Admitted(I, kept, f) = [files |-> kept.files \cup {f},
            matches |-> kept.matches \cup Carries(I, f)]
    BY <1>1 DEF Admitted
  <2> QED BY <2>1
<1>2. CASE ~Fewer(I, kept, f)
  BY <1>2 DEF Admitted
<1> QED BY <1>1, <1>2

(* Nor here.                                                               *)
LEMMA FittedGrows ==
  ASSUME NEW kept, NEW f
  PROVE  kept.files \subseteq Fitted(kept, f).files
<1>1. CASE kept.running + Size(f) > MaxBytes
  BY <1>1 DEF Fitted
<1>2. CASE ~(kept.running + Size(f) > MaxBytes)
  <2>1. Fitted(kept, f) = [files |-> kept.files \cup {f}, running |-> kept.running + Size(f)]
    BY <1>2 DEF Fitted
  <2> QED BY <2>1
<1> QED BY <1>1, <1>2

(* A recording of matches that is not among those of the newest matches:   *)
(* enough matches have newer recordings.                                   *)
LEMMA CountReason ==
  ASSUME NEW I \in IndexSet, NEW f \in WithMatches(I), f \notin KeptForCount(I)
  PROVE  /\ KeepCount # 0
         /\ Cardinality({m \in Matches : \E h \in Files : h > f /\ m \in Carries(I,
              h)}) >= KeepCount
<1>1. PICK N \in Nat : N = MaxFiles
  BY BoundsAssumption
<1>2. PICK g : /\ KeptForCount(I) = g[1].files
               /\ \A n \in 1..(N + 1) : g[n] \in [files : SUBSET Files, matches : SUBSET Matches]
               /\ g[N + 1] = [files |-> {}, matches |-> {}]
               /\ \A n \in Files : g[n] = IF n \in WithMatches(I) THEN Admitted(I, g[n + 1],
                    n) ELSE g[n + 1]
  BY <1>1, KeptForCountSteps
<1>3. f \in Files /\ f \in 1..N /\ f \in 1..(N + 1) /\ f + 1 \in 1..(N + 1)
  BY <1>1 DEF WithMatches, Closed, Indexed, Files
<1> DEFINE T == {n \in 1..(N + 1) : n > f \/ f \notin g[f].files \/ f \in g[n].files}
           newer(n) == {m \in Matches : \E h \in Files : h >= n /\ m \in Carries(I, h)}
           U == {n \in 1..(N + 1) : g[n].matches \subseteq newer(n)}
<1>4. f \notin g[f].files
  <2>1. N + 1 \in T
    BY <1>3
  <2>2. ASSUME NEW n \in 1..N, n + 1 \in T PROVE n \in T
    <3>1. n \in Files /\ n \in 1..(N + 1) /\ (n = f \/ n > f \/ n + 1 <= f)
      BY <1>1, <1>3 DEF Files
    <3>2. g[n + 1].files \subseteq g[n].files
      <4>1. g[n] = Admitted(I, g[n + 1], n) \/ g[n] = g[n + 1]
        BY <1>2, <3>1
      <4> QED BY <4>1, AdmittedGrows
    <3>3. CASE n = f \/ n > f
      BY <3>1, <3>3
    <3>4. CASE n + 1 <= f
      <4>1. ~(n + 1 > f)
        BY <1>3, <3>4
      <4>2. f \notin g[f].files \/ f \in g[n + 1].files
        BY <2>2, <4>1
      <4> QED BY <3>1, <3>2, <4>2
    <3> QED BY <3>1, <3>3, <3>4
  <2>3. \A n \in 1..(N + 1) : n \in T
    <3> HIDE DEF T
    <3> QED BY <2>1, <2>2, FromTheTop
  <2>4. 1 \in T /\ ~(1 > f)
    BY <1>3, <2>3
  <2> QED BY <1>2, <2>4
<1>5. ~Fewer(I, g[f + 1], f)
  <2>1. Fewer(I, g[f + 1], f) => f \in Admitted(I, g[f + 1], f).files
    BY DEF Admitted
  <2> QED BY <1>2, <1>3, <1>4, <2>1
<1>6. g[f + 1].matches \subseteq newer(f + 1)
  <2>1. N + 1 \in U
    BY <1>2
  <2>2. ASSUME NEW n \in 1..N, n + 1 \in U PROVE n \in U
    <3>1. n \in Files /\ n \in 1..(N + 1)
      BY <1>1 DEF Files
    <3>2. g[n].matches \subseteq g[n + 1].matches \cup Carries(I, n)
      <4>1. g[n] = Admitted(I, g[n + 1], n) \/ g[n] = g[n + 1]
        BY <1>2, <3>1
      <4> QED BY <4>1, AdmittedGrows
    <3>3. Carries(I, n) \subseteq Matches
      BY <3>1, IndexTypes DEF Carries, ToSet
    <3>4. newer(n + 1) \subseteq newer(n)
      <4>1. \A h \in Files : h >= n + 1 => h >= n
        BY <1>1 DEF Files
      <4> QED BY <4>1
    <3>5. Carries(I, n) \subseteq newer(n)
      <4>1. n >= n
        OBVIOUS
      <4> QED BY <3>1, <3>3, <4>1
    <3>6. g[n + 1].matches \subseteq newer(n + 1)
      BY <2>2
    <3>7. g[n].matches \subseteq newer(n)
      <4> HIDE DEF newer
      <4> QED BY <3>2, <3>4, <3>5, <3>6
    <3> QED BY <3>1, <3>7
  <2>3. \A n \in 1..(N + 1) : n \in U
    <3> HIDE DEF U
    <3> QED BY <2>1, <2>2, FromTheTop
  <2> QED BY <1>3, <2>3
<1>7. newer(f + 1) = {m \in Matches : \E h \in Files : h > f /\ m \in Carries(I, h)}
  <2>1. \A h \in Files : h >= f + 1 <=> h > f
    BY <1>1, <1>3 DEF Files
  <2> QED BY <2>1
<1>8. IsFiniteSet(newer(f + 1))
  <2>1. IsFiniteSet(Matches)
    BY FS_Interval, BoundsAssumption DEF Matches
  <2> QED BY <2>1, FS_Subset
<1>9. /\ Cardinality(g[f + 1].matches) <= Cardinality(newer(f + 1))
      /\ Cardinality(g[f + 1].matches) \in Nat /\ Cardinality(newer(f + 1)) \in Nat
  <2> HIDE DEF newer
  <2> QED BY <1>6, <1>8, FS_Subset, FS_CardinalityType
<1>10. KeepCount # 0 /\ ~(Cardinality(g[f + 1].matches) < KeepCount) /\ KeepCount \in Nat
  BY <1>5, BoundsAssumption DEF Fewer
<1>11. Cardinality(newer(f + 1)) >= KeepCount
  <2> HIDE DEF newer
  <2> QED BY <1>9, <1>10
<1> QED BY <1>7, <1>10, <1>11

(* A recording that is left out for its size: with the newer ones that are *)
(* kept, and those that are live, it would take more than MaxBytes.        *)
LEMMA BytesReason ==
  ASSUME SizesNat, NEW I, NEW keep \in SUBSET Files, keep \cap Live(I) = {}
  PROVE  /\ KeptForBytes(I, keep) \subseteq keep
         /\ \A f \in keep \ KeptForBytes(I, keep) :
              TotalSize({f} \cup (Live(I) \cup {h \in KeptForBytes(I, keep) : h > f})) > MaxBytes
<1>1. PICK N \in Nat : N = MaxFiles
  BY BoundsAssumption
<1>2. PICK g : /\ KeptForBytes(I, keep) = g[1].files
               /\ \A n \in 1..(N + 1) : g[n] \in [files : SUBSET Files, running : Nat]
               /\ g[N + 1] = [files |-> {}, running |-> TotalSize(Live(I))]
               /\ \A n \in Files : g[n] = IF n \in keep THEN Fitted(g[n + 1], n) ELSE g[n + 1]
  BY <1>1, KeptForBytesSteps
<1> DEFINE T == {n \in 1..(N + 1) : /\ g[n].files \subseteq {h \in keep : h >= n}
                                    /\ g[n].running = TotalSize(Live(I) \cup g[n].files)}
<1>3. \A n \in 1..(N + 1) : n \in T
  <2>1. N + 1 \in T
    <3>1. Live(I) \cup {} = Live(I)
      OBVIOUS
    <3>2. g[N + 1].files = {} /\ g[N + 1].running = TotalSize(Live(I))
      BY <1>2
    <3>3. g[N + 1].running = TotalSize(Live(I) \cup g[N + 1].files)
      BY <3>1, <3>2
    <3> QED BY <3>2, <3>3
  <2>2. ASSUME NEW n \in 1..N, n + 1 \in T PROVE n \in T
    <3>1. n \in Files /\ n \in 1..(N + 1) /\ n \in Nat
      BY <1>1 DEF Files
    <3>2. PICK k : k = g[n + 1]
      OBVIOUS
    <3>3. k.files \subseteq {h \in keep : h >= n + 1}
              /\ k.running = TotalSize(Live(I) \cup k.files)
      BY <2>2, <3>2
    <3>4. \A h \in keep : h >= n + 1 => h >= n /\ h # n
      BY <1>1, <3>1 DEF Files
    <3>5. CASE g[n] = k
      BY <3>1, <3>3, <3>4, <3>5
    <3>6. CASE n \in keep /\ g[n] = [files |-> k.files \cup {n}, running |-> k.running + Size(n)]
      <4>1. n \notin Live(I) \cup k.files
        BY <3>3, <3>4, <3>6
      <4>2. TotalSize((Live(I) \cup k.files) \cup {n}) = TotalSize(Live(I) \cup k.files) + Size(n)
        BY <3>1, <4>1, TotalSizeAdds
      <4>3. (Live(I) \cup k.files) \cup {n} = Live(I) \cup (k.files \cup {n})
        OBVIOUS
      <4>4. g[n].running = TotalSize(Live(I) \cup g[n].files)
        BY <3>3, <3>6, <4>2, <4>3
      <4>5. n >= n
        BY <3>1
      <4>6. g[n].files \subseteq {h \in keep : h >= n}
        <5>1. g[n].files = k.files \cup {n}
          BY <3>6
        <5> QED BY <3>3, <3>4, <3>6, <4>5, <5>1
      <4> QED BY <3>1, <4>4, <4>6
    <3> QED BY <1>2, <3>1, <3>2, <3>5, <3>6 DEF Fitted
  <2> HIDE DEF T
  <2> QED BY <2>1, <2>2, FromTheTop
<1>4. ASSUME NEW k \in 1..(N + 1)
      PROVE  g[k].files \subseteq g[1].files
  <2> DEFINE U == {n \in 1..(N + 1) : n > k \/ g[k].files \subseteq g[n].files}
  <2>1. N + 1 \in U
    OBVIOUS
  <2>2. ASSUME NEW n \in 1..N, n + 1 \in U PROVE n \in U
    <3>1. n \in Files /\ n \in 1..(N + 1) /\ (n = k \/ n > k \/ n + 1 <= k)
      BY <1>1 DEF Files
    <3>2. g[n + 1].files \subseteq g[n].files
      <4>1. g[n] = Fitted(g[n + 1], n) \/ g[n] = g[n + 1]
        BY <1>2, <3>1
      <4> QED BY <4>1, FittedGrows
    <3>3. CASE n = k \/ n > k
      BY <3>1, <3>3
    <3>4. CASE n + 1 <= k
      <4>1. ~(n + 1 > k)
        BY <3>4
      <4>2. g[k].files \subseteq g[n + 1].files
        BY <2>2, <4>1
      <4> QED BY <3>1, <3>2, <4>2
    <3> QED BY <3>1, <3>3, <3>4
  <2>3. \A n \in 1..(N + 1) : n \in U
    <3> HIDE DEF U
    <3> QED BY <2>1, <2>2, FromTheTop
  <2>4. 1 \in U /\ (1 > k => FALSE)
    BY <2>3
  <2> QED BY <2>4
<1>5. g[1].files \subseteq keep
  <2>1. 1 \in T
    BY <1>3
  <2> QED BY <2>1
<1>6. ASSUME NEW f \in keep, f \notin g[1].files
      PROVE  TotalSize({f} \cup (Live(I) \cup {h \in g[1].files : h > f})) > MaxBytes
  <2>1. f \in Files /\ f \in 1..N /\ f \in 1..(N + 1) /\ f + 1 \in 1..(N + 1) /\ Size(f) \in Nat
    BY <1>1 DEF Files, SizesNat
  <2>2. PICK k : k = g[f + 1]
    OBVIOUS
  <2>3. k.files \subseteq {h \in keep : h >= f + 1} /\ k.running = TotalSize(Live(I) \cup k.files)
    <3>1. f + 1 \in T
      BY <1>3, <2>1
    <3> QED BY <2>2, <3>1
  <2>4. k.files \subseteq g[1].files
    BY <1>4, <2>1, <2>2
  <2>5. k.running + Size(f) > MaxBytes
    <3>1. f \notin g[f].files
      BY <1>4, <1>6, <2>1
    <3>2. g[f] = Fitted(k, f)
      BY <1>2, <2>1, <2>2
    <3> QED BY <3>1, <3>2 DEF Fitted
  <2>6. \A h \in keep : h >= f + 1 => h > f /\ h # f
    BY <1>1, <2>1 DEF Files
  <2>7. f \notin Live(I) \cup k.files
    BY <2>3, <2>6
  <2>8. TotalSize((Live(I) \cup k.files) \cup {f}) > MaxBytes
    <3>1. TotalSize((Live(I) \cup k.files) \cup {f}) = TotalSize(Live(I) \cup k.files) + Size(f)
      BY <2>1, <2>7, TotalSizeAdds
    <3> QED BY <2>3, <2>5, <3>1
  <2>9. (Live(I) \cup k.files) \cup {f} \subseteq {f} \cup (Live(I) \cup {h \in g[1].files : h > f})
    BY <2>3, <2>4, <2>6
  <2>10. PICK x, y : /\ x = TotalSize((Live(I) \cup k.files) \cup {f})
                     /\ y = TotalSize({f} \cup (Live(I) \cup {h \in g[1].files : h > f}))
    OBVIOUS
  <2>11. x <= y
    BY <2>9, <2>10, TotalSizeGrows
  <2>12. x \in Nat /\ y \in Nat /\ MaxBytes \in Nat
    BY <2>10, TotalSizeNat, BoundsAssumption
  <2> QED BY <2>8, <2>10, <2>11, <2>12
<1> QED BY <1>2, <1>5, <1>6

(* Only recordings of matches that are over are kept for their matches.    *)
LEMMA CountKeeps ==
  ASSUME NEW I \in IndexSet
  PROVE  KeptForCount(I) \subseteq WithMatches(I)
<1>1. PICK N \in Nat : N = MaxFiles
  BY BoundsAssumption
<1>2. PICK g : /\ KeptForCount(I) = g[1].files
               /\ g[N + 1] = [files |-> {}, matches |-> {}]
               /\ \A n \in Files : g[n] = IF n \in WithMatches(I) THEN Admitted(I, g[n + 1],
                    n) ELSE g[n + 1]
  BY <1>1, KeptForCountSteps
<1> DEFINE T == {n \in 1..(N + 1) : g[n].files \subseteq WithMatches(I)}
<1>3. N + 1 \in T
  <2>1. g[N + 1].files = {}
    BY <1>2
  <2> QED BY <2>1
<1>4. ASSUME NEW n \in 1..N, n + 1 \in T PROVE n \in T
  <2>1. n \in Files /\ n \in 1..(N + 1)
    BY <1>1 DEF Files
  <2>2. PICK k : k = g[n + 1]
    OBVIOUS
  <2>3. k.files \subseteq WithMatches(I)
    BY <1>4, <2>2
  <2>4. CASE g[n] = k
    BY <2>1, <2>3, <2>4
  <2>5. CASE n \in WithMatches(I) /\ g[n] = Admitted(I, k, n)
    <3>1. CASE Fewer(I, k, n)
      <4>1. Admitted(I, k, n) = [files |-> k.files \cup {n},
                matches |-> k.matches \cup Carries(I, n)]
        BY <3>1 DEF Admitted
      <4>2. g[n].files = k.files \cup {n}
        BY <2>5, <4>1
      <4> QED BY <2>1, <2>3, <2>5, <4>2
    <3>2. CASE ~Fewer(I, k, n)
      BY <2>1, <2>3, <2>5, <3>2 DEF Admitted
    <3> QED BY <3>1, <3>2
  <2> QED BY <1>2, <2>1, <2>2, <2>4, <2>5
<1>5. \A n \in 1..(N + 1) : n \in T
  <2> HIDE DEF T
  <2> QED BY <1>3, <1>4, FromTheTop
<1>6. 1 \in T
  BY <1>5
<1> QED BY <1>2, <1>6

-----------------------------------------------------------------------------
(***************************************************************************)
(* A recording is deleted for a reason                                     *)
(***************************************************************************)

(* A row is closed when its file ended, and has its file.                  *)
RowsOfFiles(I, D, t) ==
  /\ \A f \in Files : I[f].stop # 0 => I[f].stop = t[f] /\ I[f].start # 0
  /\ \A f \in Files : I[f].start = 0 => I[f].matches = <<>>
  /\ Indexed(I) \subseteq D

(* The file a match was given to last is the one whose row has it, if that *)
(* file still has a row.                                                   *)
OwnRows(I, o) ==
  \A m \in Matches, f \in Files : I[f].start # 0 => (m \in Carries(I, f) <=> o[m] = f)

(* What prune() needs of the index and the files it is called with.        *)
SoundRows(I, D) ==
  /\ RowsOfFiles(I, D, till') /\ OwnRows(I, owner')
  /\ \A f \in Files : till[f] # 0 => till'[f] = till[f] /\ from[f] # 0
  /\ \A f \in Files : I[f].stop # 0 => from[f] # 0

(* The reasons, as DeletedForAReason states them.                          *)
Reason(f) ==
  /\ till'[f] # 0
  /\ \/ TotalSize({f} \cup {g \in Indexed(index') \cap disk' :
                             g > f \/ index'[g].stop = 0}) > MaxBytes
     \/ /\ KeepCount # 0
        /\ Cardinality({m \in Matches : owner'[m] > f}) >= KeepCount
        /\ \E m \in Matches : owner'[m] = f
     \/ /\ \A m \in Matches : owner'[m] # f
        /\ now - till'[f] >= Grace
        /\ Cardinality({g \in Files : /\ g > f /\ from[g] # 0
                                      /\ \A m \in Matches : owner'[m] # g})
               >= OrphanCap

(* A row that is reclaimed is closed at the last instant of its file.      *)
LEMMA ReclaimedSound ==
  ASSUME NEW I \in IndexSet, NEW D, SoundRows(I, D), now \in 1..MaxTime,
         till \in [Files -> 0..MaxTime],
         NEW J, J = Reclaimed(I)
  PROVE  J \in IndexSet /\ SoundRows(J, D)
<1>1. J \in IndexSet /\ \A f \in Files : Pruned(I[f], J[f], f)
  BY ReclaimedRows
<1>2. ASSUME NEW f \in Files, J[f].stop # 0
      PROVE  J[f].stop = till'[f] /\ from[f] # 0 /\ J[f].start # 0
  <2>1. CASE J[f].stop = I[f].stop
    BY <1>1, <1>2, <2>1 DEF Pruned, SoundRows, RowsOfFiles
  <2>2. CASE I[f].start # 0 /\ now - Modified(f) >= Grace /\ J[f].stop = Modified(f)
    <3>1. Modified(f) # now
      BY <2>2, BoundsAssumption
    <3>2. till[f] # 0 /\ Modified(f) = till[f]
      BY <3>1 DEF Modified
    <3> QED BY <1>1, <2>2, <3>2 DEF SoundRows, Pruned
  <2> QED BY <1>1, <2>1, <2>2 DEF Pruned
<1>3. \A f \in Files : J[f].start = I[f].start /\ Carries(J, f) = Carries(I, f)
          /\ J[f].matches = I[f].matches
  BY <1>1 DEF Pruned, Carries
<1>4. RowsOfFiles(J, D, till')
  BY <1>2, <1>3 DEF RowsOfFiles, SoundRows, Indexed
<1>5. OwnRows(J, owner')
  BY <1>3 DEF OwnRows, SoundRows
<1> QED BY <1>1, <1>2, <1>4, <1>5 DEF SoundRows

(* What prune() leaves of the reclaimed index J and the files D: keep are  *)
(* the rows to keep if they fit, kept those that do, out the others, and   *)
(* gone those of them whose file could be deleted.                         *)
Deletes(J, D, keep, kept, out, gone) ==
  /\ keep = KeptForCount(J) \cup KeptOrphans(J)
  /\ kept \subseteq keep /\ keep \subseteq Closed(J)
  /\ out = Closed(J) \ kept /\ gone \subseteq out
  /\ disk' = D \ gone
  /\ \A f \in Files : index'[f] = IF f \in gone THEN NoRow ELSE J[f]
  /\ \A f \in keep \ kept : TotalSize({f} \cup (Live(J) \cup {h \in kept : h > f})) > MaxBytes

(* prune(), in these terms.                                                *)
LEMMA PruneOut ==
  ASSUME NEW I \in IndexSet, NEW D \in SUBSET Files, now \in 1..MaxTime,
         till \in [Files -> 0..MaxTime],
         SizesNat, NEW J, J = Reclaimed(I), Prune(I, D)
  PROVE  \E keep, kept, out, gone : Deletes(J, D, keep, kept, out, gone)
<1>1. J \in IndexSet
  BY ReclaimedRows
<1>2. PICK keep : keep = KeptForCount(J) \cup KeptOrphans(J)
  OBVIOUS
<1>3. PICK kept : kept = KeptForBytes(J, keep)
  OBVIOUS
<1>4. PICK out : out = Closed(J) \ kept
  OBVIOUS
<1>5. PICK held \in HeldFiles(out) :
          /\ disk' = D \ (out \ held)
          /\ index' = [f \in Files |-> IF f \in out \ held THEN NoRow ELSE J[f]]
  BY <1>2, <1>3, <1>4 DEF Prune
<1>6. keep \subseteq Closed(J)
  BY <1>1, <1>2, CountKeeps DEF WithMatches, KeptOrphans
<1>7. keep \in SUBSET Files /\ keep \cap Live(J) = {}
  BY <1>6 DEF Closed, Indexed
<1>8. kept \subseteq keep /\ \A f \in keep \ kept : TotalSize({f} \cup (Live(J) \cup {h \in kept : h > f})) > MaxBytes
  BY <1>3, <1>7, BytesReason
<1>9. PICK gone : gone = out \ held
  OBVIOUS
<1>10. gone \subseteq out /\ disk' = D \ gone /\ \A f \in Files : index'[f]
           = IF f \in gone THEN NoRow ELSE J[f]
  BY <1>5, <1>9
<1>11. Deletes(J, D, keep, kept, out, gone)
  BY <1>2, <1>4, <1>6, <1>8, <1>10 DEF Deletes
<1> QED BY <1>11

(* prune() deletes for a reason, and leaves an index that is sound.        *)
LEMMA PruneReason ==
  ASSUME NEW I \in IndexSet, NEW D \in SUBSET Files, now \in 1..MaxTime,
         till \in [Files -> 0..MaxTime],
         SizesNat, owner' \in OwnerSet, SoundRows(I, D), Prune(I, D)
  PROVE  \A f \in D \ disk' : Reason(f)
<1>1. PICK J : J = Reclaimed(I)
  OBVIOUS
<1>2. J \in IndexSet /\ SoundRows(J, D)
  BY <1>1, ReclaimedSound
<1>a. PICK keep, kept, out, gone : Deletes(J, D, keep, kept, out, gone)
  BY <1>1, PruneOut
<1>3. /\ keep = KeptForCount(J) \cup KeptOrphans(J)
      /\ kept \subseteq keep /\ keep \subseteq Closed(J)
      /\ out = Closed(J) \ kept /\ gone \subseteq out
      /\ disk' = D \ gone
      /\ \A f \in Files : index'[f] = IF f \in gone THEN NoRow ELSE J[f]
      /\ \A f \in keep \ kept : TotalSize({f} \cup (Live(J) \cup {h \in kept : h > f})) > MaxBytes
  BY <1>a DEF Deletes
<1> SUFFICES ASSUME NEW f \in D, f \notin disk' PROVE Reason(f)
  OBVIOUS
<1>4. f \in Files /\ f \in Closed(J) /\ f \notin kept
  BY <1>3
<1>5. J[f].start # 0 /\ J[f].stop # 0 /\ J[f].stop = till'[f]
  BY <1>2, <1>4 DEF Closed, Live, Indexed, SoundRows, RowsOfFiles
<1>6. CASE f \in keep
  <2>1. PICK x : x = {f} \cup (Live(J) \cup {h \in kept : h > f})
    OBVIOUS
  <2>2. PICK y : y = {f} \cup {g \in Indexed(index') \cap disk' : g > f \/ index'[g].stop = 0}
    OBVIOUS
  <2>3. \A g \in Indexed(J) : g \notin out => g \in Indexed(index') /\ g \in disk'
            /\ index'[g] = J[g]
    <3>1. Indexed(J) \subseteq D
      BY <1>2 DEF SoundRows, RowsOfFiles
    <3> QED BY <1>3, <3>1 DEF Indexed
  <2>4. x \subseteq y
    <3>1. ASSUME NEW g \in Live(J) PROVE g \in y
      <4>1. g \in Indexed(J) /\ J[g].stop = 0 /\ g \notin out
        BY <1>3, <3>1 DEF Live, Closed
      <4> QED BY <2>2, <2>3, <4>1
    <3>2. ASSUME NEW g \in kept, g > f PROVE g \in y
      <4>1. g \in Indexed(J) /\ g \notin out
        BY <1>3, <3>2 DEF Closed
      <4> QED BY <2>2, <2>3, <3>2, <4>1
    <3> QED BY <2>1, <2>2, <3>1, <3>2
  <2>5. TotalSize(x) > MaxBytes
    BY <1>3, <1>4, <1>6, <2>1
  <2>6. PICK a, b : a = TotalSize(x) /\ b = TotalSize(y)
    OBVIOUS
  <2>7. a <= b /\ a \in Nat /\ b \in Nat /\ MaxBytes \in Nat
    BY <2>4, <2>6, TotalSizeGrows, TotalSizeNat, BoundsAssumption
  <2>8. TotalSize(y) > MaxBytes
    BY <2>5, <2>6, <2>7
  <2> QED BY <1>5, <2>2, <2>8 DEF Reason
<1>7. CASE f \notin keep /\ J[f].matches # <<>>
  <2>1. f \in WithMatches(J) /\ f \notin KeptForCount(J)
    BY <1>3, <1>4, <1>7 DEF WithMatches
  <2>2. PICK newer : newer = {m \in Matches : \E h \in Files : h > f /\ m \in Carries(J, h)}
    OBVIOUS
  <2>3. KeepCount # 0 /\ Cardinality(newer) >= KeepCount
    BY <1>2, <2>1, <2>2, CountReason
  <2>4. \A h \in Files, m \in Matches : m \in Carries(J, h) => owner'[m] = h
    <3>1. ASSUME NEW h \in Files, J[h].start = 0 PROVE Carries(J, h) = {}
      BY <1>2, <3>1 DEF SoundRows, RowsOfFiles, Carries, ToSet
    <3> QED BY <1>2, <3>1 DEF SoundRows, OwnRows
  <2>5. newer \subseteq {m \in Matches : owner'[m] > f}
    BY <2>2, <2>4
  <2>6. Cardinality({m \in Matches : owner'[m] > f}) >= KeepCount
    <3>1. IsFiniteSet(Matches)
      BY FS_Interval, BoundsAssumption DEF Matches
    <3>2. PICK S : S = {m \in Matches : owner'[m] > f}
      OBVIOUS
    <3>3. IsFiniteSet(S) /\ newer \subseteq S
      BY <2>5, <3>1, <3>2, FS_Subset
    <3>4. Cardinality(newer) <= Cardinality(S) /\ Cardinality(newer) \in Nat
              /\ Cardinality(S) \in Nat
      BY <3>3, FS_Subset, FS_CardinalityType
    <3>5. KeepCount \in Nat
      BY BoundsAssumption
    <3> QED BY <2>3, <3>2, <3>4, <3>5
  <2>7. \E m \in Matches : owner'[m] = f
    <3>1. PICK s \in Seq(Matches) : s = J[f].matches /\ s # <<>>
      BY <1>2, <1>4, <1>7, IndexTypes
    <3>2. 1 \in DOMAIN s /\ s[1] \in Matches
      BY <3>1
    <3>3. s[1] \in Carries(J, f)
      BY <3>1, <3>2 DEF Carries, ToSet
    <3> QED BY <1>4, <2>4, <3>2, <3>3
  <2> QED BY <1>5, <2>3, <2>6, <2>7 DEF Reason
<1>8. CASE f \notin keep /\ J[f].matches = <<>>
  <2>1. PICK orphans : orphans = {g \in Closed(J) : J[g].matches = <<>>}
    OBVIOUS
  <2>2. PICK aged : aged = {g \in orphans : now - J[g].stop >= Grace}
    OBVIOUS
  <2>3. KeptOrphans(J) = (orphans \ aged) \cup {g \in aged : Cardinality({h \in aged : h > g}) < OrphanCap}
    BY <2>1, <2>2 DEF KeptOrphans
  <2>4. f \in aged /\ ~(Cardinality({h \in aged : h > f}) < OrphanCap)
    BY <1>3, <1>4, <1>8, <2>1, <2>3
  <2>5. \A g \in orphans, m \in Matches : owner'[m] # g
    <3>1. ASSUME NEW g \in orphans PROVE g \in Files /\ J[g].start # 0 /\ Carries(J, g) = {}
      BY <2>1 DEF Closed, Indexed, Carries, ToSet
    <3> QED BY <1>2, <3>1 DEF SoundRows, OwnRows
  <2>6. \A g \in aged : g \in orphans /\ g \in Files /\ from[g] # 0
    BY <1>2, <2>1, <2>2 DEF Closed, Live, Indexed, SoundRows
  <2>7. now - till'[f] >= Grace /\ f \in orphans
    BY <1>5, <2>2, <2>4
  <2>8. PICK S : S = {g \in Files : /\ g > f /\ from[g] # 0 /\ \A m \in Matches : owner'[m] # g}
    OBVIOUS
  <2>9. PICK U : U = {h \in aged : h > f}
    OBVIOUS
  <2>10. U \subseteq S
    BY <2>5, <2>6, <2>8, <2>9
  <2>11. IsFiniteSet(S)
    <3>1. IsFiniteSet(Files)
      <4>1. MaxFiles \in Int /\ 1 \in Int
        BY BoundsAssumption
      <4> QED BY <4>1, FS_Interval DEF Files
    <3>2. S \subseteq Files
      BY <2>8
    <3> QED BY <3>1, <3>2, FS_Subset
  <2>12. Cardinality(U) <= Cardinality(S) /\ Cardinality(U) \in Nat /\ Cardinality(S) \in Nat
    BY <2>10, <2>11, FS_Subset, FS_CardinalityType
  <2>13. Cardinality(S) >= OrphanCap
    BY <2>4, <2>9, <2>12, BoundsAssumption
  <2>14. \A m \in Matches : owner'[m] # f
    BY <2>5, <2>7
  <2> QED BY <1>5, <2>7, <2>8, <2>13, <2>14 DEF Reason
<1> QED BY <1>6, <1>7, <1>8

(* A file begins before it ends, and neither is yet to come.               *)
FilesTimed ==
  \A f \in Files : /\ from[f] # 0 => from[f] <= now
                   /\ till[f] # 0 => from[f] # 0 /\ from[f] <= till[f]

(* Matches are given to files that began.                                  *)
OwnersBegun == \A m \in Matches : owner[m] # 0 => from[owner[m]] # 0

(* In the bypass mode a file gets its row when it is over.                 *)
BypassOpen ==
  mode = "bypass" /\ current # 0 => index[current].start = 0
      /\ \A m \in Matches : owner[m] # current

(* The invariant of the retention.                                         *)
RetentionInv ==
  /\ RowsOfFiles(index, disk, till) /\ OwnRows(index, owner)
  /\ FilesTimed /\ OwnersBegun /\ BypassOpen
  /\ current # 0 => current \in disk

(* It makes sizes natural numbers.                                         *)
LEMMA Sizes == ASSUME RecordingsInv, FilesTimed PROVE SizesNat
<1> SUFFICES ASSUME NEW f \in Files PROVE Size(f) \in Nat
  BY DEF SizesNat
<1>1. from[f] \in 0..MaxTime /\ till[f] \in 0..MaxTime /\ now \in 1..MaxTime
  BY InvTypes
<1>2. /\ from[f] # 0 => from[f] <= now
      /\ till[f] # 0 => from[f] # 0 /\ from[f] <= till[f]
  BY DEF FilesTimed
<1> QED BY <1>1, <1>2, BoundsAssumption DEF Size, Modified

(* What prune() leaves has rows of files, closed when they ended, and      *)
(* owners in them.                                                         *)
LEMMA PruneSound ==
  ASSUME NEW I \in IndexSet, NEW D \in SUBSET Files, now \in 1..MaxTime,
         till \in [Files -> 0..MaxTime],
         SizesNat, SoundRows(I, D), Prune(I, D)
  PROVE  RowsOfFiles(index', disk', till') /\ OwnRows(index', owner')
<1>1. PICK J : J = Reclaimed(I)
  OBVIOUS
<1>2. J \in IndexSet /\ SoundRows(J, D)
  BY <1>1, ReclaimedSound
<1>3. PICK keep, kept, out, gone : Deletes(J, D, keep, kept, out, gone)
  BY <1>1, PruneOut
<1>4. disk' = D \ gone /\ \A f \in Files : index'[f] = IF f \in gone THEN NoRow ELSE J[f]
  BY <1>3 DEF Deletes
<1>5. NoRow.start = 0 /\ NoRow.stop = 0 /\ NoRow.matches = <<>>
  BY DEF NoRow
<1>6. \A f \in Files : index'[f].start # 0 => f \notin gone /\ index'[f] = J[f]
  BY <1>4, <1>5
<1>7. RowsOfFiles(index', disk', till')
  <2>1. \A f \in Files : index'[f].stop # 0 => index'[f].stop = till'[f] /\ index'[f].start # 0
    BY <1>2, <1>4, <1>5 DEF SoundRows, RowsOfFiles
  <2>2. \A f \in Files : index'[f].start = 0 => index'[f].matches = <<>>
    BY <1>2, <1>4, <1>5 DEF SoundRows, RowsOfFiles
  <2>3. Indexed(index') \subseteq disk'
    BY <1>2, <1>4, <1>6 DEF SoundRows, RowsOfFiles, Indexed
  <2> QED BY <2>1, <2>2, <2>3 DEF RowsOfFiles
<1>8. OwnRows(index', owner')
  BY <1>2, <1>6 DEF SoundRows, OwnRows, Carries
<1> QED BY <1>7, <1>8

(* Nobody was given to f.                                                  *)
Unowned(o, f) == \A m \in Matches : o[m] # f

(* So has an index with a new row,                                         *)
LEMMA OpenSound ==
  ASSUME NEW I \in IndexSet, NEW D, NEW t, NEW o, RowsOfFiles(I, D, t), OwnRows(I, o),
         NEW f \in Files, NEW at \in 0..MaxTime, at # 0, Unowned(o, f),
         NEW J, J = OpenRow(I, f, at)
  PROVE  Opened(I, J, f, at) /\ RowsOfFiles(J, D \cup {f}, t) /\ OwnRows(J, o)
<1>1. Opened(I, J, f, at)
  BY OpenRowAt
<1>2. RowsOfFiles(J, D \cup {f}, t)
  <2>1. \A g \in Files : J[g].stop # 0 => J[g].stop = t[g] /\ J[g].start # 0
    BY <1>1 DEF Opened, RowsOfFiles
  <2>2. \A g \in Files : J[g].start = 0 => J[g].matches = <<>>
    BY <1>1 DEF Opened, RowsOfFiles
  <2>3. Indexed(J) \subseteq D \cup {f}
    BY <1>1 DEF Opened, RowsOfFiles, Indexed
  <2> QED BY <2>1, <2>2, <2>3 DEF RowsOfFiles
<1>3. Carries(J, f) = {} /\ \A g \in Files : g # f => Carries(J, g) = Carries(I, g)
          /\ J[g].start = I[g].start
  BY <1>1 DEF Opened, Carries, ToSet
<1>4. OwnRows(J, o)
  BY <1>3 DEF OwnRows, Unowned
<1> QED BY <1>1, <1>2, <1>4

(* and one with a row that is closed when its file ends.                   *)
LEMMA CloseSound ==
  ASSUME NEW I \in IndexSet, NEW D, NEW t, NEW o, RowsOfFiles(I, D, t), OwnRows(I, o),
         now \in 1..MaxTime, NEW f \in Files, t[f] = now, I[f].start # 0,
         NEW J, J = CloseRow(I, f)
  PROVE  /\ J \in IndexSet /\ RowsOfFiles(J, D, t) /\ OwnRows(J, o)
         /\ \A g \in Files : J[g].stop = IF g = f THEN now ELSE I[g].stop
<1>1. /\ J \in IndexSet
      /\ \A g \in Files : /\ J[g].start = I[g].start
                          /\ J[g].stop = IF g = f THEN now ELSE I[g].stop
                          /\ J[g].matches = I[g].matches
  BY CloseRowAt
<1>2. RowsOfFiles(J, D, t)
  <2>1. \A g \in Files : J[g].stop # 0 => J[g].stop = t[g] /\ J[g].start # 0
    BY <1>1 DEF RowsOfFiles
  <2>2. \A g \in Files : J[g].start = 0 => J[g].matches = <<>>
    BY <1>1 DEF RowsOfFiles
  <2>3. Indexed(J) \subseteq D
    BY <1>1 DEF RowsOfFiles, Indexed
  <2> QED BY <2>1, <2>2, <2>3 DEF RowsOfFiles
<1>3. OwnRows(J, o)
  BY <1>1 DEF OwnRows, Carries
<1> QED BY <1>1, <1>2, <1>3

(* The current file ends.                                                  *)
LEMMA EndSound ==
  ASSUME RecordingsInv, RetentionInv, current # 0, FileEnds(current)
  PROVE  /\ RowsOfFiles(index, disk, till')
         /\ till' \in [Files -> 0..MaxTime] /\ till'[current] = now
         /\ \A f \in Files : f # current => till'[f] = till[f]
         /\ \A f \in Files : till[f] # 0 => till'[f] = till[f] /\ from[f] # 0
         /\ \A f \in Files : index[f].stop # 0 => from[f] # 0
         /\ \A f \in Files : till'[f] # 0 => from[f] # 0 /\ from[f] <= till'[f]
<1>1. till' = [till EXCEPT ![current] = now] /\ till \in [Files -> 0..MaxTime]
          /\ current \in Files /\ now \in 1..MaxTime
  BY InvTypes DEF FileEnds
<1>2. /\ till' \in [Files -> 0..MaxTime] /\ till'[current] = now
      /\ \A f \in Files : f # current => till'[f] = till[f]
  BY <1>1
<1>3. till[current] = 0 /\ index[current].stop = 0 /\ from[current] # 0
  BY DEF RecordingsInv, CurrentOpen
<1>4. \A f \in Files : till[f] # 0 => till'[f] = till[f] /\ from[f] # 0
  BY <1>2, <1>3 DEF RetentionInv, FilesTimed
<1>5. \A f \in Files : index[f].stop # 0 => from[f] # 0
  BY DEF RecordingsInv, FilesBegun
<1>6. \A f \in Files : till'[f] # 0 => from[f] # 0 /\ from[f] <= till'[f]
  BY <1>1, <1>2, <1>3 DEF RetentionInv, FilesTimed
<1>7. RowsOfFiles(index, disk, till')
  BY <1>2, <1>3 DEF RetentionInv, RowsOfFiles
<1> QED BY <1>2, <1>4, <1>5, <1>6, <1>7

(* What a step has to show: files are deleted for a reason.                *)
Reasoned == \A f \in disk \ disk' : Reason(f)

(* A cut, with or without the prune after it.                              *)
LEMMA CutKept ==
  ASSUME RecordingsInv, RetentionInv, Cut, mode = "managed", UNCHANGED worldVars
  PROVE  RetentionInv' /\ Reasoned
<1>1. /\ FileBegins(NewFile) /\ FileEnds(current) /\ owner' = owner /\ current # 0
      /\ NewFile \in Files /\ current \in Files /\ now' = now /\ mode' = mode
  BY InvTypes DEF Cut, FileBegins, worldVars
<1>2. PICK n \in Files : n = NewFile
  BY <1>1
<1>3. from[n] = 0 /\ from[current] # 0 /\ current # n /\ index[current].start # 0
          /\ index[current].stop = 0
  BY <1>1, <1>2, NextFile, InvTypes DEF RecordingsInv, CurrentOpen
<1>4. /\ RowsOfFiles(index, disk, till')
      /\ till' \in [Files -> 0..MaxTime] /\ till'[current] = now
      /\ \A f \in Files : f # current => till'[f] = till[f]
      /\ \A f \in Files : till[f] # 0 => till'[f] = till[f] /\ from[f] # 0
      /\ \A f \in Files : index[f].stop # 0 => from[f] # 0
      /\ \A f \in Files : till'[f] # 0 => from[f] # 0 /\ from[f] <= till'[f]
  BY <1>1, EndSound
<1>5. \A m \in Matches : owner[m] # n
  <2>1. n # 0
    BY DEF Files
  <2> QED BY <1>3, <2>1 DEF RetentionInv, OwnersBegun
<1>6. PICK I : I = OpenRow(index, n, now)
  OBVIOUS
<1>7. PICK D \in SUBSET Files : D = disk \cup {n}
  BY InvTypes
<1>8. /\ I \in IndexSet /\ RowsOfFiles(I, D, till') /\ OwnRows(I, owner')
      /\ \A g \in Files : I[g].stop = IF g = n THEN 0 ELSE index[g].stop
      /\ \A g \in Files : I[g].start = IF g = n THEN now ELSE index[g].start
  <2>1. /\ index \in IndexSet /\ now \in 0..MaxTime /\ now # 0
        /\ OwnRows(index, owner') /\ RowsOfFiles(index, disk, till')
    BY <1>1, <1>4, InvTypes DEF RetentionInv
  <2>2. Unowned(owner', n)
    BY <1>1, <1>5 DEF Unowned
  <2>3. Opened(index, I, n, now) /\ RowsOfFiles(I, disk \cup {n}, till') /\ OwnRows(I, owner')
    BY <1>6, <2>1, <2>2, OpenSound
  <2> QED BY <1>7, <2>3 DEF Opened
<1>9. /\ current' = n /\ from'[n] = now /\ \A f \in Files : f # n => from'[f] = from[f]
  BY <1>1, <1>2, InvTypes DEF FileBegins
<1>10. FilesTimed' /\ OwnersBegun' /\ BypassOpen'
  <2>1. FilesTimed'
    <3>1. ASSUME NEW f \in Files
          PROVE  /\ from'[f] # 0 => from'[f] <= now
                 /\ till'[f] # 0 => from'[f] # 0 /\ from'[f] <= till'[f]
      <4>1. CASE f = n
        BY <1>3, <1>4, <1>9, <4>1, InvTypes
      <4>2. CASE f # n
        BY <1>4, <1>9, <4>2 DEF RetentionInv, FilesTimed
      <4> QED BY <4>1, <4>2
    <3> QED BY <1>1, <3>1 DEF FilesTimed
  <2>2. OwnersBegun'
    <3>1. ASSUME NEW m \in Matches, owner[m] # 0 PROVE from'[owner[m]] # 0
      <4>1. owner[m] \in Files /\ from[owner[m]] # 0 /\ owner[m] # n
        <5>1. owner[m] \in Files
          <6>1. owner[m] \in 0..MaxFiles /\ MaxFiles \in Nat
            BY InvTypes, BoundsAssumption DEF OwnerSet
          <6> QED BY <1>5, <3>1, <6>1 DEF Files
        <5> QED BY <5>1, <1>5, <3>1, InvTypes DEF RetentionInv, OwnersBegun
      <4> QED BY <1>9, <4>1
    <3> QED BY <1>1, <3>1 DEF OwnersBegun
  <2>3. BypassOpen'
    BY <1>1 DEF BypassOpen
  <2> QED BY <2>1, <2>2, <2>3
<1>11. SizesNat
  BY Sizes DEF RetentionInv
<1>12. owner' \in OwnerSet
  BY <1>1, InvTypes
<1>13. CASE Prune(CloseRow(I, current), D)
  <2>1. PICK K : K = CloseRow(I, current)
    OBVIOUS
  <2>2. I[current].start # 0
    BY <1>1, <1>3, <1>8
  <2>3. /\ K \in IndexSet /\ RowsOfFiles(K, D, till') /\ OwnRows(K, owner')
        /\ \A g \in Files : K[g].stop = IF g = current THEN now ELSE I[g].stop
    BY <1>1, <1>4, <1>8, <2>1, <2>2, InvTypes, CloseSound
  <2>4. \A f \in Files : K[f].stop # 0 => from[f] # 0
    BY <1>3, <1>4, <1>8, <2>3
  <2>5. SoundRows(K, D)
    BY <1>4, <2>3, <2>4 DEF SoundRows
  <2>6. Prune(K, D)
    BY <1>13, <2>1
  <2>7. \A f \in D \ disk' : Reason(f)
    BY <1>11, <1>12, <2>3, <2>5, <2>6, InvTypes, PruneReason
  <2>8. RowsOfFiles(index', disk', till') /\ OwnRows(index', owner')
    BY <1>11, <2>3, <2>5, <2>6, InvTypes, PruneSound
  <2>9. n \in disk'
    <3>1. till'[n] = 0
      BY <1>3, <1>4
    <3> QED BY <1>7, <2>7, <3>1 DEF Reason
  <2>10. RetentionInv'
    BY <1>9, <1>10, <2>8, <2>9 DEF RetentionInv
  <2> QED BY <1>7, <2>7, <2>10 DEF Reasoned
<1>14. CASE index' = I /\ disk' = D
  <2>1. RetentionInv'
    BY <1>7, <1>8, <1>9, <1>10, <1>14 DEF RetentionInv
  <2> QED BY <1>7, <1>14, <2>1 DEF Reasoned
<1> QED BY <1>2, <1>6, <1>7, <1>13, <1>14 DEF Cut

(* OBS begins to record; nothing is deleted.                               *)
LEMMA FirstChunkKept == ASSUME RecordingsInv, RetentionInv, FirstChunk PROVE RetentionInv'
    /\ Reasoned
<1>1. /\ FileBegins(NewFile) /\ owner' = owner /\ till' = till /\ NewFile \in Files
      /\ now' = now /\ mode' = mode /\ mode = "managed"
      /\ disk' = disk \cup {NewFile} /\ index' = OpenRow(index, NewFile, now)
  BY DEF FirstChunk, FileBegins, worldVars
<1>2. PICK n \in Files : n = NewFile
  BY <1>1
<1>3. from[n] = 0
  BY <1>1, <1>2, NextFile, InvTypes DEF RecordingsInv
<1>4. \A m \in Matches : owner[m] # n
  <2>1. n # 0
    BY DEF Files
  <2> QED BY <1>3, <2>1 DEF RetentionInv, OwnersBegun
<1>5. PICK I : I = OpenRow(index, n, now)
  OBVIOUS
<1>6. RowsOfFiles(I, disk \cup {n}, till) /\ OwnRows(I, owner)
  <2>1. /\ index \in IndexSet /\ now \in 0..MaxTime /\ now # 0
        /\ OwnRows(index, owner) /\ RowsOfFiles(index, disk, till)
    BY InvTypes DEF RetentionInv
  <2>2. Unowned(owner, n)
    BY <1>4 DEF Unowned
  <2> QED BY <1>5, <2>1, <2>2, OpenSound
<1>7. /\ current' = n /\ from'[n] = now /\ \A f \in Files : f # n => from'[f] = from[f]
  BY <1>1, <1>2, InvTypes DEF FileBegins
<1>8. FilesTimed'
  <2>1. till[n] = 0
    BY <1>3 DEF RetentionInv, FilesTimed
  <2>2. ASSUME NEW f \in Files
        PROVE  /\ from'[f] # 0 => from'[f] <= now
               /\ till[f] # 0 => from'[f] # 0 /\ from'[f] <= till[f]
    BY <1>7, <2>1, InvTypes DEF RetentionInv, FilesTimed
  <2> QED BY <1>1, <2>2 DEF FilesTimed
<1>9. OwnersBegun'
  <2>1. ASSUME NEW m \in Matches, owner[m] # 0 PROVE from'[owner[m]] # 0
    <3>1. owner[m] \in Files /\ from[owner[m]] # 0 /\ owner[m] # n
      <4>1. owner[m] \in Files
        <5>1. owner[m] \in 0..MaxFiles /\ MaxFiles \in Nat
          BY InvTypes, BoundsAssumption DEF OwnerSet
        <5> QED BY <1>4, <2>1, <5>1 DEF Files
      <4> QED BY <4>1, <1>4, <2>1, InvTypes DEF RetentionInv, OwnersBegun
    <3> QED BY <1>7, <3>1
  <2> QED BY <1>1, <2>1 DEF OwnersBegun
<1>10. RetentionInv'
  BY <1>1, <1>2, <1>5, <1>6, <1>7, <1>8, <1>9 DEF RetentionInv, BypassOpen
<1> QED BY <1>1, <1>10 DEF Reasoned

(* A step that ends the current file and prunes.                           *)
LEMMA EndKept ==
  ASSUME RecordingsInv, RetentionInv, current # 0, FileEnds(current), current' = 0,
         UNCHANGED from,
         UNCHANGED worldVars, owner' \in OwnerSet,
         \A m \in Matches : owner'[m] # 0 => from[owner'[m]] # 0,
         NEW I \in IndexSet, RowsOfFiles(I, disk, till'), OwnRows(I, owner'),
         \A f \in Files : I[f].stop # 0 => from[f] # 0,
         Prune(I, disk)
  PROVE  RetentionInv' /\ Reasoned
<1>1. /\ till' \in [Files -> 0..MaxTime]
      /\ \A f \in Files : till[f] # 0 => till'[f] = till[f] /\ from[f] # 0
      /\ \A f \in Files : till'[f] # 0 => from[f] # 0 /\ from[f] <= till'[f]
  BY EndSound
<1>2. SoundRows(I, disk)
  BY <1>1 DEF SoundRows
<1>3. SizesNat
  BY Sizes DEF RetentionInv
<1>4. RowsOfFiles(index', disk', till') /\ OwnRows(index', owner')
  BY <1>2, <1>3, InvTypes, PruneSound
<1>5. \A f \in disk \ disk' : Reason(f)
  BY <1>2, <1>3, InvTypes, PruneReason
<1>6. FilesTimed'
  BY <1>1 DEF FilesTimed, RetentionInv, worldVars
<1>7. OwnersBegun' /\ BypassOpen'
  BY DEF OwnersBegun, BypassOpen
<1> QED BY <1>4, <1>5, <1>6, <1>7 DEF RetentionInv, Reasoned

(* The game ended: the row of the current file is closed, and the index    *)
(* pruned.                                                                 *)
LEMMA StopContinuousKept == ASSUME RecordingsInv, RetentionInv,
    StopContinuous PROVE RetentionInv' /\ Reasoned
<1>1. /\ FileEnds(current) /\ current # 0 /\ current' = 0 /\ owner' = owner /\ from' = from
      /\ UNCHANGED worldVars /\ Prune(CloseRow(index, current), disk) /\ mode = "managed"
      /\ current \in Files
  BY InvTypes DEF StopContinuous
<1>2. PICK K : K = CloseRow(index, current)
  OBVIOUS
<1>3. index[current].start # 0 /\ from[current] # 0
  BY <1>1 DEF RecordingsInv, CurrentOpen
<1>4. /\ RowsOfFiles(index, disk, till') /\ till'[current] = now
      /\ \A f \in Files : index[f].stop # 0 => from[f] # 0
  BY <1>1, EndSound
<1>5. OwnRows(index, owner')
  BY <1>1 DEF RetentionInv
<1>6. /\ K \in IndexSet /\ RowsOfFiles(K, disk, till') /\ OwnRows(K, owner')
      /\ \A g \in Files : K[g].stop = IF g = current THEN now ELSE index[g].stop
  BY <1>1, <1>2, <1>3, <1>4, <1>5, InvTypes, CloseSound
<1>7. \A f \in Files : K[f].stop # 0 => from[f] # 0
  BY <1>3, <1>4, <1>6
<1>8. owner' \in OwnerSet /\ \A m \in Matches : owner'[m] # 0 => from[owner'[m]] # 0
  BY <1>1, InvTypes DEF RetentionInv, OwnersBegun
<1>9. Prune(K, disk)
  BY <1>1, <1>2
<1> QED BY <1>1, <1>6, <1>7, <1>8, <1>9, EndKept

(* StopRecord failed: the file has no row, and the index is pruned.        *)
LEMMA CloseFailsKept ==
  ASSUME RecordingsInv, RetentionInv, CloseFails, current # 0, UNCHANGED worldVars
  PROVE  RetentionInv' /\ Reasoned
<1>1. /\ FileEnds(current) /\ current' = 0 /\ owner' = owner /\ from' = from
      /\ Prune(index, disk)
  BY DEF CloseFails
<1>2. /\ RowsOfFiles(index, disk, till')
      /\ \A f \in Files : index[f].stop # 0 => from[f] # 0
  BY <1>1, EndSound
<1>3. OwnRows(index, owner')
  BY <1>1 DEF RetentionInv
<1>4. owner' \in OwnerSet /\ \A m \in Matches : owner'[m] # 0 => from[owner'[m]] # 0
  BY <1>1, InvTypes DEF RetentionInv, OwnersBegun
<1> QED BY <1>1, <1>2, <1>3, <1>4, InvTypes, EndKept

(* The owners follow the rows.                                             *)
LEMMA OwnFollows ==
  ASSUME NEW I \in IndexSet, owner \in OwnerSet, Sole(I), Own(I),
         \A m \in Matches, f \in Files : I[f].start # 0 /\ owner[m] = f => Carried(I, m)
  PROVE  OwnRows(I, owner')
<1> SUFFICES ASSUME NEW m \in Matches, NEW f \in Files, I[f].start # 0
             PROVE  m \in Carries(I, f) <=> owner'[m] = f
  BY DEF OwnRows
<1>1. CASE Carried(I, m)
  <2>1. owner'[m] \in Files /\ m \in Carries(I, owner'[m])
    BY <1>1, OwnGives
  <2>2. m \in Carries(I, f) => owner'[m] = f
    BY <2>1 DEF Sole
  <2> QED BY <2>1, <2>2
<1>2. CASE ~Carried(I, m)
  <2>1. owner'[m] = owner[m]
    BY <1>2, OwnGives
  <2> QED BY <1>2, <2>1 DEF Carried
<1> QED BY <1>1, <1>2

(* Rows whose matches follow the owners are not shared.                    *)
LEMMA RowsSole ==
  ASSUME NEW I \in IndexSet, NEW D, NEW t, NEW o, RowsOfFiles(I, D, t), OwnRows(I, o)
  PROVE  Sole(I)
<1>1. ASSUME NEW f \in Files, NEW m, m \in Carries(I, f) PROVE m \in Matches
          /\ I[f].start # 0 /\ o[m] = f
  <2>1. Carries(I, f) \subseteq Matches
    BY IndexTypes DEF Carries, ToSet
  <2>2. I[f].start # 0
    BY <1>1 DEF RowsOfFiles, Carries, ToSet
  <2> QED BY <1>1, <2>1, <2>2 DEF OwnRows
<1>2. \A f, g \in Files : Carries(I, f) \cap Carries(I, g) # {} => f = g
  <2> SUFFICES ASSUME NEW f \in Files, NEW g \in Files, NEW m, m \in Carries(I, f),
          m \in Carries(I, g)
               PROVE  f = g
    OBVIOUS
  <2>1. o[m] = f /\ o[m] = g
    BY <1>1
  <2> QED BY <2>1
<1> QED BY <1>2 DEF Sole, RowsOfFiles

(* An index with more matches is that of the same files.                   *)
LEMMA GrownRows ==
  ASSUME NEW I, NEW J, Grown(I, J), Sole(J), NEW D, NEW t, RowsOfFiles(I, D, t)
  PROVE  RowsOfFiles(J, D, t)
<1>1. \A f \in Files : J[f].stop # 0 => J[f].stop = t[f] /\ J[f].start # 0
  BY DEF RowsOfFiles, Grown
<1>2. Indexed(J) \subseteq D
  BY DEF RowsOfFiles, Grown, Indexed
<1> QED BY <1>1, <1>2 DEF RowsOfFiles, Sole

(* A match that nobody carries in J is not owned by a file with a row.     *)
LEMMA GrownOwned ==
  ASSUME NEW I, NEW J, Grown(I, J), NEW o, OwnRows(I, o)
  PROVE  \A m \in Matches, f \in Files : J[f].start # 0 /\ o[m] = f => Carried(J, m)
<1> SUFFICES ASSUME NEW m \in Matches, NEW f \in Files, J[f].start # 0, o[m] = f
             PROVE  m \in Carries(J, f)
  BY DEF Carried
<1> QED BY DEF Grown, OwnRows

(* Who gets a match has a row.                                             *)
LEMMA OwnersHaveRows ==
  ASSUME NEW I \in IndexSet, Own(I), owner \in OwnerSet, Sole(I), NEW m \in Matches,
         owner'[m] # owner[m]
  PROVE  owner'[m] \in Files /\ I[owner'[m]].start # 0
<1>1. Carried(I, m)
  BY OwnGives
<1>2. owner'[m] \in Files /\ m \in Carries(I, owner'[m])
  BY <1>1, OwnGives
<1> QED BY <1>2 DEF Sole, Carries, ToSet

(* The current file gets its row and the matches of the buffer that it     *)
(* shows, some of which may have had a recording that was deleted since;   *)
(* the index is pruned.                                                    *)
LEMMA CloseWithRowKept ==
  ASSUME RecordingsInv, RetentionInv, CloseWithRow, current # 0, mode = "bypass",
         UNCHANGED worldVars
  PROVE  RetentionInv' /\ Reasoned
<1>1. FileEnds(current) /\ current' = 0 /\ from' = from /\ current \in Files
  BY InvTypes DEF CloseWithRow
<1>2. PICK O : O = OpenRow(index, current, from[current])
  OBVIOUS
<1>3. PICK K : K = CloseRow(O, current)
  OBVIOUS
<1>4. PICK I : I \in AssociateAll(K, buffer) /\ Own(I) /\ Prune(I, disk)
  BY <1>2, <1>3 DEF CloseWithRow
<1>5. /\ from[current] # 0 /\ from[current] \in 0..MaxTime /\ current \in disk
      /\ \A m \in Matches : owner[m] # current
  BY <1>1, InvTypes DEF RecordingsInv, CurrentOpen, RetentionInv, BypassOpen
<1>6. /\ RowsOfFiles(index, disk, till') /\ till'[current] = now
      /\ \A f \in Files : index[f].stop # 0 => from[f] # 0
  BY <1>1, EndSound
<1>7. Opened(index, O, current, from[current]) /\ RowsOfFiles(O, disk, till') /\ OwnRows(O, owner)
  <2>1. Unowned(owner, current) /\ OwnRows(index, owner) /\ index \in IndexSet
    BY <1>5, InvTypes DEF Unowned, RetentionInv
  <2>2. Opened(index, O, current, from[current]) /\ RowsOfFiles(O, disk \cup {current},
            till') /\ OwnRows(O, owner)
    BY <1>1, <1>2, <1>5, <1>6, <2>1, OpenSound
  <2>3. disk \cup {current} = disk
    BY <1>5
  <2> QED BY <2>2, <2>3
<1>8. /\ O \in IndexSet /\ O[current].start # 0 /\ \A g \in Files : O[g].stop # 0
           => index[g].stop # 0
  BY <1>1, <1>5, <1>7 DEF Opened
<1>9. /\ K \in IndexSet /\ RowsOfFiles(K, disk, till') /\ OwnRows(K, owner)
      /\ \A g \in Files : K[g].stop = IF g = current THEN now ELSE O[g].stop
  BY <1>1, <1>3, <1>6, <1>7, <1>8, InvTypes, CloseSound
<1>10. Sole(K)
  BY <1>9, RowsSole
<1>11. Grown(K, I) /\ Sole(I)
  BY <1>4, <1>9, <1>10, InvTypes, AssociateEach
<1>12. I \in IndexSet /\ RowsOfFiles(I, disk, till')
  BY <1>9, <1>11, GrownRows DEF Grown
<1>13. OwnRows(I, owner')
  <2>1. \A m \in Matches, f \in Files : I[f].start # 0 /\ owner[m] = f => Carried(I, m)
    BY <1>9, <1>11, GrownOwned
  <2> QED BY <1>4, <1>11, <1>12, <2>1, InvTypes, OwnFollows
<1>14. \A f \in Files : I[f].stop # 0 => from[f] # 0
  BY <1>5, <1>6, <1>8, <1>9, <1>11 DEF Grown
<1>15. owner' \in OwnerSet
  BY <1>4, <1>12, InvTypes, OwnGives
<1>16. \A m \in Matches : owner'[m] # 0 => from[owner'[m]] # 0
  <2> SUFFICES ASSUME NEW m \in Matches, owner'[m] # 0 PROVE from[owner'[m]] # 0
    OBVIOUS
  <2>1. CASE owner'[m] = owner[m]
    BY <2>1 DEF RetentionInv, OwnersBegun
  <2>2. CASE owner'[m] # owner[m]
    <3>1. owner'[m] \in Files /\ I[owner'[m]].start # 0
      BY <1>4, <1>11, <1>12, <2>2, InvTypes, OwnersHaveRows
    <3>2. PICK f \in Files : f = owner'[m]
      BY <3>1
    <3>3. f = current \/ index[f].start # 0
      <4>1. K[f].start # 0
        BY <1>11, <3>1, <3>2 DEF Grown
      <4>2. K[f].start = O[f].start
        BY <1>1, <1>3, <1>8, InvTypes, CloseRowAt
      <4> QED BY <1>7, <4>1, <4>2 DEF Opened
    <3>4. from[f] # 0
      BY <1>5, <3>3 DEF RecordingsInv, FilesBegun
    <3> QED BY <3>2, <3>4
  <2> QED BY <2>1, <2>2
<1> QED BY <1>1, <1>4, <1>12, <1>13, <1>14, <1>15, <1>16, EndKept

(* A match gets its recording.                                             *)
LEMMA HearMetaKept ==
  ASSUME RecordingsInv, RetentionInv, NEW m \in Matches, HearMeta(m)
  PROVE  RetentionInv' /\ Reasoned
<1>1. /\ index' \in Associate(index, m) /\ Own(index')
      /\ now' = now /\ mode' = mode /\ current' = current /\ from' = from /\ till' = till
           /\ disk' = disk
  BY DEF HearMeta, worldVars
<1>2. PICK J : J = index'
  OBVIOUS
<1>3. RowsOfFiles(index, disk, till) /\ OwnRows(index, owner) /\ index \in IndexSet
          /\ owner \in OwnerSet
  BY InvTypes DEF RetentionInv
<1>4. Sole(index)
  BY <1>3, RowsSole
<1>5. Grown(index, J) /\ Sole(J)
  BY <1>1, <1>2, <1>4, InvTypes, AssociateOne
<1>6. J \in IndexSet /\ RowsOfFiles(J, disk, till)
  BY <1>3, <1>5, GrownRows DEF Grown
<1>7. OwnRows(J, owner')
  <2>1. \A l \in Matches, f \in Files : J[f].start # 0 /\ owner[l] = f => Carried(J, l)
    BY <1>3, <1>5, GrownOwned
  <2> QED BY <1>1, <1>2, <1>3, <1>5, <1>6, <2>1, OwnFollows
<1>8. ASSUME NEW l \in Matches, owner'[l] # owner[l] PROVE owner'[l] \in Files
          /\ index[owner'[l]].start # 0
  <2>1. owner'[l] \in Files /\ J[owner'[l]].start # 0
    BY <1>1, <1>2, <1>3, <1>5, <1>6, <1>8, OwnersHaveRows
  <2> QED BY <1>5, <2>1 DEF Grown
<1>9. OwnersBegun'
  <2> SUFFICES ASSUME NEW l \in Matches, owner'[l] # 0 PROVE from[owner'[l]] # 0
    BY <1>1 DEF OwnersBegun
  <2>1. CASE owner'[l] = owner[l]
    BY <2>1 DEF RetentionInv, OwnersBegun
  <2>2. CASE owner'[l] # owner[l]
    BY <1>8, <2>2 DEF RecordingsInv, FilesBegun
  <2> QED BY <2>1, <2>2
<1>10. BypassOpen'
  <2> SUFFICES ASSUME mode = "bypass", current # 0
               PROVE  index'[current].start = 0 /\ \A l \in Matches : owner'[l] # current
    BY <1>1 DEF BypassOpen
  <2>1. index[current].start = 0 /\ \A l \in Matches : owner[l] # current
    BY DEF RetentionInv, BypassOpen
  <2>2. current \in Files
    BY InvTypes
  <2>3. index'[current].start = 0
    BY <1>2, <1>5, <2>1, <2>2 DEF Grown
  <2>4. \A l \in Matches : owner'[l] # current
    BY <1>8, <2>1
  <2> QED BY <2>3, <2>4
<1>11. FilesTimed'
  BY <1>1 DEF FilesTimed, RetentionInv
<1>12. RetentionInv'
  BY <1>1, <1>2, <1>6, <1>7, <1>9, <1>10, <1>11 DEF RetentionInv
<1> QED BY <1>1, <1>12 DEF Reasoned

(* A step that leaves the files and the rows alone.                        *)
LEMMA SameFilesKept ==
  ASSUME RecordingsInv, RetentionInv, UNCHANGED <<mode, current, from, till, disk, index, owner>>,
         now' = now \/ now' = now + 1
  PROVE  RetentionInv' /\ Reasoned
<1>1. RowsOfFiles(index', disk', till') /\ OwnRows(index', owner') /\ OwnersBegun' /\ BypassOpen'
      /\ (current' # 0 => current' \in disk')
  BY DEF RetentionInv, OwnersBegun, BypassOpen
<1>2. FilesTimed'
  <2> SUFFICES ASSUME NEW f \in Files
               PROVE  /\ from[f] # 0 => from[f] <= now'
                      /\ till[f] # 0 => from[f] # 0 /\ from[f] <= till[f]
    BY DEF FilesTimed
  <2>1. from[f] \in 0..MaxTime /\ now \in 1..MaxTime /\ MaxTime \in Nat
    BY InvTypes, BoundsAssumption
  <2>2. /\ from[f] # 0 => from[f] <= now
        /\ till[f] # 0 => from[f] # 0 /\ from[f] <= till[f]
    BY DEF RetentionInv, FilesTimed
  <2> QED BY <2>1, <2>2
<1> QED BY <1>1, <1>2 DEF RetentionInv, Reasoned

(* OBS is gone: the file has ended, its row stays open until it is         *)
(* reclaimed.                                                              *)
LEMMA ObsDiesKept == ASSUME RecordingsInv, RetentionInv, ObsDies PROVE RetentionInv' /\ Reasoned
<1>1. /\ FileEnds(current) /\ current # 0 /\ current' = 0 /\ owner' = owner /\ from' = from
      /\ now' = now /\ mode' = mode /\ disk' = disk /\ index' = index
  BY DEF ObsDies, worldVars
<1>2. /\ RowsOfFiles(index, disk, till')
      /\ \A f \in Files : till'[f] # 0 => from[f] # 0 /\ from[f] <= till'[f]
  BY <1>1, EndSound
<1>3. FilesTimed'
  BY <1>1, <1>2 DEF FilesTimed, RetentionInv
<1>4. RetentionInv'
  BY <1>1, <1>2, <1>3 DEF RetentionInv, OwnersBegun, BypassOpen
<1> QED BY <1>1, <1>4 DEF Reasoned

(* The bypass mode: OBS begins a file that has no row yet.                 *)
LEMMA BypassBeginsKept ==
  ASSUME RecordingsInv, RetentionInv, mode = "bypass", FileBegins(NewFile),
         disk' = disk \cup {NewFile},
         UNCHANGED worldVars, UNCHANGED <<till, index, owner>>
  PROVE  RetentionInv' /\ Reasoned
<1>1. PICK n \in Files : n = NewFile
  BY DEF FileBegins
<1>2. from[n] = 0
  BY <1>1, NextFile, InvTypes DEF RecordingsInv
<1>3. \A m \in Matches : owner[m] # n
  <2>1. n # 0
    BY DEF Files
  <2> QED BY <1>2, <2>1 DEF RetentionInv, OwnersBegun
<1>4. /\ current' = n /\ from'[n] = now /\ \A f \in Files : f # n => from'[f] = from[f]
      /\ now' = now
  BY <1>1, InvTypes DEF FileBegins, worldVars
<1>5. FilesTimed'
  <2>1. till[n] = 0
    BY <1>2 DEF RetentionInv, FilesTimed
  <2>2. ASSUME NEW f \in Files
        PROVE  /\ from'[f] # 0 => from'[f] <= now
               /\ till[f] # 0 => from'[f] # 0 /\ from'[f] <= till[f]
    BY <1>4, <2>1, InvTypes DEF RetentionInv, FilesTimed
  <2> QED BY <1>4, <2>2 DEF FilesTimed
<1>6. OwnersBegun'
  <2>1. ASSUME NEW m \in Matches, owner[m] # 0 PROVE from'[owner[m]] # 0
    <3>1. from[owner[m]] # 0 /\ owner[m] # n
      BY <1>3, <2>1 DEF RetentionInv, OwnersBegun
    <3>2. owner[m] \in 0..MaxFiles
      BY InvTypes DEF OwnerSet
    <3>3. owner[m] \in Files
      BY <2>1, <3>2, BoundsAssumption DEF Files
    <3> QED BY <1>4, <3>1, <3>3
  <2> QED BY <2>1 DEF OwnersBegun
<1>7. BypassOpen'
  <2>1. index[n].start = 0
    BY <1>2 DEF RecordingsInv, FilesBegun
  <2> QED BY <1>3, <1>4, <2>1 DEF BypassOpen
<1>8. RowsOfFiles(index', disk', till')
  BY <1>1 DEF RetentionInv, RowsOfFiles
<1>9. RetentionInv'
  BY <1>1, <1>4, <1>5, <1>6, <1>7, <1>8 DEF RetentionInv
<1> QED BY <1>9 DEF Reasoned

(* The invariant holds initially.                                          *)
LEMMA RetentionInitial == RecordingsInit => RetentionInv
<1> SUFFICES ASSUME RecordingsInit PROVE RetentionInv
  OBVIOUS
<1>1. NoRow.start = 0 /\ NoRow.stop = 0 /\ NoRow.matches = <<>>
  BY DEF NoRow
<1>2. RowsOfFiles(index, disk, till) /\ OwnRows(index, owner)
  BY <1>1 DEF RecordingsInit, RowsOfFiles, OwnRows, Indexed
<1>3. FilesTimed /\ OwnersBegun /\ BypassOpen
  BY DEF RecordingsInit, FilesTimed, OwnersBegun, BypassOpen
<1> QED BY <1>2, <1>3 DEF RecordingsInit, RetentionInv

(* Every action keeps it, and deletes for a reason.                        *)
LEMMA RetentionInductive ==
  ASSUME RecordingsInv, RetentionInv, [RecordingsNext]_recordingsVars
  PROVE  RetentionInv' /\ Reasoned
<1>1. CASE UNCHANGED recordingsVars
  BY <1>1, SameFilesKept DEF recordingsVars, worldVars
<1>2. CASE FirstChunk
  BY <1>2, FirstChunkKept
<1>3. CASE IdleCut
  BY <1>3, CutKept DEF IdleCut
<1>4. CASE StopContinuous
  BY <1>4, StopContinuousKept
<1>5. CASE ObsDies
  BY <1>5, ObsDiesKept
<1>6. ASSUME NEW m \in Matches, HearOpen(m) PROVE RetentionInv' /\ Reasoned
  <2>1. UNCHANGED worldVars
    BY <1>6 DEF HearOpen
  <2>2. CASE NoFile
    BY <2>1, <2>2, SameFilesKept DEF NoFile, worldVars
  <2>3. CASE mode = "managed" /\ Cut
    BY <2>1, <2>3, CutKept
  <2>4. CASE /\ mode = "bypass" /\ FileBegins(NewFile) /\ disk' = disk \cup {NewFile}
             /\ UNCHANGED <<till, index, owner>>
    BY <2>1, <2>4, BypassBeginsKept
  <2> QED BY <1>6, <2>2, <2>3, <2>4 DEF HearOpen
<1>7. ASSUME NEW m \in Matches, HearMeta(m) PROVE RetentionInv' /\ Reasoned
  BY <1>7, HearMetaKept
<1>8. ASSUME NEW m \in Matches, HearClose(m) PROVE RetentionInv' /\ Reasoned
  <2>1. UNCHANGED worldVars
    BY <1>8 DEF HearClose
  <2>2. CASE NoFile
    BY <2>1, <2>2, SameFilesKept DEF NoFile, worldVars
  <2>3. CASE mode = "managed" /\ Cut
    BY <2>1, <2>3, CutKept
  <2>4. CASE mode # "managed" /\ current # 0 /\ (CloseWithRow \/ CloseFails)
    <3>1. mode = "bypass"
      BY <2>4 DEF RecordingsInv, RecordingsTypeOK
    <3> QED BY <2>1, <2>4, <3>1, CloseWithRowKept, CloseFailsKept
  <2> QED BY <1>8, <2>2, <2>3, <2>4 DEF HearClose
<1>9. CASE Tick
  BY <1>9, SameFilesKept DEF Tick
<1>10. ASSUME NEW m \in Matches, MatchStarts(m) \/ MatchEnds(m) PROVE RetentionInv' /\ Reasoned
  BY <1>10, SameFilesKept DEF MatchStarts, MatchEnds
<1> QED BY <1>1, <1>2, <1>3, <1>4, <1>5, <1>6, <1>7, <1>8, <1>9, <1>10 DEF RecordingsNext

(* DeletedForAReason: no recording is deleted before it is over, nor       *)
(* without one of the three reasons prune() has: the space, the newer      *)
(* matches, or its own age when it has none. The invariant says that the   *)
(* rows are those of files there are, closed at their last instant, and    *)
(* that each match is on the recording it was given to last.               *)
THEOREM DeletedForAReasonHolds == RecordingsSpec => DeletedForAReason
<1>1. RecordingsInv /\ RetentionInv /\ [RecordingsNext]_recordingsVars
        => RecordingsInv' /\ RetentionInv' /\ [Reasoned]_recordingsVars
  BY RecordingsInductive, RetentionInductive
<1>2. [Reasoned]_recordingsVars
        <=> [\A f \in disk \ disk' :
              /\ till'[f] # 0
              /\ \/ TotalSize({f} \cup {g \in Indexed(index') \cap disk' :
                                         g > f \/ index'[g].stop = 0}) > MaxBytes
                 \/ /\ KeepCount # 0
                    /\ Cardinality({m \in Matches : owner'[m] > f}) >= KeepCount
                    /\ \E m \in Matches : owner'[m] = f
                 \/ /\ \A m \in Matches : owner'[m] # f
                    /\ now - till'[f] >= Grace
                    /\ Cardinality({g \in Files : /\ g > f /\ from[g] # 0
                                                  /\ \A m \in Matches : owner'[m] # g})
                           >= OrphanCap]_recordingsVars
  BY DEF Reasoned, Reason
<1> QED
  BY <1>1, <1>2, RecordingsInitial, RetentionInitial, PTL DEF RecordingsSpec, DeletedForAReason
=============================================================================
