------------------------------ MODULE Recorder ------------------------------
(***************************************************************************)
(* The bypass mode of the recorder (main/recorder.ts): it tells an OBS the *)
(* user runs to start and stop recording, over a websocket that may close, *)
(* hang or answer late.                                                    *)
(*                                                                         *)
(* Everything that talks to OBS is a job on one promise chain. A job runs  *)
(* from request to request: an action is the answer to the request the job *)
(* waits for and the code up to its next request, as operators from one    *)
(* state of the service to the next. The index rows of finished recordings *)
(* and the managed mode, a state machine of its own, are left out.         *)
(***************************************************************************)
EXTENDS Naturals, Sequences

CONSTANTS MaxQueue,  \* jobs of the worker's and the user's making that wait
          MaxStrays  \* timers that fire although nothing refers to them

ASSUME RecorderAssumption == MaxQueue \in Nat \ {0} /\ MaxStrays \in Nat

VARIABLES svc,    \* the service: variables of createRecorderService and the running job
          queue,  \* jobs waiting on the chain
          obs,    \* OBS: what it records, and a request it still has to carry out
          hist    \* history

vars == <<svc, queue, obs, hist>>

Signals == {"open", "close", "stop"}
Jobs == Signals \cup {"startup", "safety"}
Closing == {"close", "safety", "stop"}

(* The requests a job can wait for: three of them are StopRecord, two are  *)
(* StartRecord.                                                            *)
StopRequests == {"stop", "reconcile", "orphan"}
StartRequests == {"start", "restart"}
Requests == {"connect", "status", "disconnect"} \cup StopRequests \cup StartRequests

(* client: the object in the variable of this name and its socket; leaked: *)
(* some former client still has a socket; valve: safetyTimer; strays: timers*)
(* that were overwritten in safetyTimer.                                   *)
Service == [job : Jobs \cup {"none"}, at : Requests \cup {"idle"},
            connected : BOOLEAN, recording : BOOLEAN, weStarted : BOOLEAN,
            client : {"none", "opening", "live", "dead"}, leaked : BOOLEAN,
            valve : BOOLEAN, strays : 0..MaxStrays, quitting : BOOLEAN]

(* What OBS records: "ours" was started by gladlog, which knows it; "silent"*)
(* too, but the answer was lost; "abandoned" was ours until an attempt to  *)
(* stop it as an orphan failed.                                            *)
Recordings == {"no", "ours", "silent", "abandoned", "users"}

(* Every job waits for requests of its own. *)
RequestsOf(j) ==
  CASE j = "none" -> {"idle"}
    [] j = "startup" -> {"connect", "status", "reconcile"}
    [] j = "open" -> {"connect", "status", "reconcile", "orphan"} \cup StartRequests
    [] j = "stop" -> {"connect", "status", "disconnect"} \cup StopRequests
    [] OTHER -> {"connect", "status"} \cup StopRequests

TypeOK ==
  /\ svc \in Service /\ svc.at \in RequestsOf(svc.job)
  /\ queue \in Seq(Jobs)
  /\ obs \in [rec : Recordings, late : {"none", "start", "stop"}]
  /\ hist \in [behind : BOOLEAN, stolen : BOOLEAN, failed : BOOLEAN]

Init ==
  /\ svc = [job |-> "none", at |-> "idle", connected |-> FALSE, recording |-> FALSE,
            weStarted |-> FALSE, client |-> "none", leaked |-> FALSE,
            valve |-> FALSE, strays |-> 0, quitting |-> FALSE]
  /\ queue \in {<<>>, <<"startup">>}
  /\ obs \in [rec : {"no", "users"}, late : {"none"}]
  /\ hist = [behind |-> FALSE, stolen |-> FALSE, failed |-> FALSE]
-----------------------------------------------------------------------------
(* The code between two requests.                                          *)

Idle(s) == [s EXCEPT !.job = "none", !.at = "idle"]

(* The end of a job; that of stop() goes on to close the connection. *)
Finish(s) ==
  IF s.job # "stop" THEN Idle(s)
  ELSE IF s.client # "none" THEN [s EXCEPT !.at = "disconnect"]
  ELSE [Idle(s) EXCEPT !.connected = FALSE]

(* closeOrphanRecording, up to its request, in doClose *)
Collect(s) ==
  IF s.client = "none" \/ ~s.weStarted THEN Finish(s) ELSE [s EXCEPT !.at = "orphan"]

(* What a job does once ensureConnected has returned. Without a client the *)
(* call of startRecord is a TypeError.                                     *)
Connected(s) ==
  CASE s.job = "open" -> IF s.client = "none" THEN Finish(s) ELSE [s EXCEPT !.at = "start"]
    [] s.job = "startup" -> Finish(s)
    [] OTHER -> Collect(s)

(* ensureConnected *)
EnsureConnected(s) ==
  IF s.connected /\ s.client # "none" THEN Connected(s)
  ELSE [s EXCEPT !.client = "opening", !.at = "connect",
                 !.leaked = @ \/ s.client \in {"opening", "live"}]

(* Mutant of DoClose: without recording there is nothing to stop. *)
DoCloseIfRecording(s) ==
  LET t == [s EXCEPT !.valve = FALSE] IN
  IF ~t.recording THEN Finish(t)
  ELSE IF t.client = "none" THEN Finish(t)
  ELSE [t EXCEPT !.recording = FALSE, !.at = "stop"]

(* doClose *)
DoClose(s) ==
  LET t == [s EXCEPT !.valve = FALSE] IN
  IF ~t.recording
  THEN IF t.weStarted THEN EnsureConnected(t) ELSE Finish(t)
  ELSE IF t.client = "none" THEN Finish(t)
  ELSE [t EXCEPT !.recording = FALSE, !.at = "stop"]

(* Mutant of OnClosed: ownership ends with the connection. *)
OnClosedDisowns(s) == [s EXCEPT !.connected = FALSE, !.recording = FALSE, !.weStarted = FALSE]

(* The onClosed handler; it does not ask whose socket has closed. *)
OnClosed(s) == [s EXCEPT !.connected = FALSE, !.recording = FALSE]

(* Mutant of Started: the repeated start arms no timer. *)
StartedUnguarded(s) ==
  Finish([s EXCEPT !.recording = TRUE, !.weStarted = TRUE, !.valve = s.at = "start"])

(* A successful start. *)
Started(s) ==
  Finish([s EXCEPT !.recording = TRUE, !.weStarted = TRUE, !.valve = TRUE,
                   !.strays = @ + (IF s.valve THEN 1 ELSE 0)])

(* What follows an answer to, or the failure of, a StopRecord.             *)
AfterStop(s, ok) ==
  IF s.at = "stop" THEN Finish([s EXCEPT !.weStarted = @ /\ ~ok])
  ELSE LET t == [s EXCEPT !.recording = FALSE, !.weStarted = FALSE, !.valve = FALSE] IN
       CASE s.at = "reconcile" -> Connected(t)
         [] s.at = "orphan" /\ s.job = "open" ->
              IF t.client = "none" THEN Finish(t) ELSE [t EXCEPT !.at = "restart"]
         [] OTHER -> Finish(t)

(* Mutant of Reconciled: whatever OBS records is an orphan.                *)
ReconciledAny(s, active) ==
  IF active /\ ~s.recording /\ s.client # "none"
  THEN [s EXCEPT !.at = "reconcile"]
  ELSE IF ~active /\ s.recording THEN Connected([s EXCEPT !.recording = FALSE, !.valve = FALSE])
  ELSE Connected(s)

(* reconcileWithReality, with OBS's answer *)
Reconciled(s, active) ==
  IF active /\ ~s.recording /\ s.weStarted /\ s.client # "none"
  THEN [s EXCEPT !.at = "reconcile"]
  ELSE IF ~active /\ s.recording THEN Connected([s EXCEPT !.recording = FALSE, !.valve = FALSE])
  ELSE Connected(s)
-----------------------------------------------------------------------------
(* Jobs come from the worker's signals, the user's quitting and the timers;*)
(* the first may be connectAtStartup.                                      *)
Signal(k) ==
  /\ Len(queue) < MaxQueue
  /\ k = "stop" => ~svc.quitting
  /\ queue' = Append(queue, k)
  /\ svc' = [svc EXCEPT !.quitting = @ \/ k = "stop"]
  /\ UNCHANGED <<obs, hist>>

ValveFires ==
  /\ svc.valve
  /\ svc' = [svc EXCEPT !.valve = FALSE]
  /\ queue' = Append(queue, "safety")
  /\ UNCHANGED <<obs, hist>>

StrayFires ==
  /\ svc.strays > 0
  /\ svc' = [svc EXCEPT !.strays = @ - 1]
  /\ queue' = Append(queue, "safety")
  /\ UNCHANGED <<obs, hist>>

(* The next job, up to its first request. *)
Begin ==
  /\ svc.job = "none" /\ queue # <<>>
  /\ queue' = Tail(queue)
  /\ LET s == [svc EXCEPT !.job = Head(queue)] IN
     svc' = CASE s.job = "open" -> IF s.recording THEN Finish(s) ELSE EnsureConnected(s)
              [] s.job = "startup" -> EnsureConnected(s)
              [] OTHER -> DoClose(s)
  /\ hist' = [hist EXCEPT !.failed = FALSE]
  /\ UNCHANGED obs
-----------------------------------------------------------------------------
(* Answers. A request reaches OBS over the client's socket; OBS takes      *)
(* requests in turn.                                                       *)
Reachable == svc.client = "live" \/ (svc.client = "none" /\ svc.leaked)
Serves == Reachable /\ obs.late = "none"
Failed == hist' = [hist EXCEPT !.failed = TRUE]

ConnectAnswered ==
  /\ svc.at = "connect" /\ svc.client \in {"opening", "none"}
  /\ LET s == [svc EXCEPT !.connected = TRUE] IN
     svc' = IF s.client = "none" THEN Connected(s)
            ELSE [s EXCEPT !.client = "live", !.at = "status"]
  /\ UNCHANGED <<queue, obs, hist>>

(* The connection is refused, and the library reports its end too; *)
ConnectRefused ==
  /\ svc.at = "connect"
  /\ svc' = Finish(OnClosed([svc EXCEPT !.client = IF @ = "none" THEN @ ELSE "dead"]))
  /\ Failed /\ UNCHANGED <<queue, obs>>

(* or nothing comes in time, and the socket may open later. *)
ConnectTimesOut ==
  /\ svc.at = "connect"
  /\ svc' = Finish(svc)
  /\ Failed /\ UNCHANGED <<queue, obs>>

StatusAnswered ==
  /\ svc.at = "status" /\ Serves
  /\ svc' = Reconciled(svc, obs.rec # "no")
  /\ UNCHANGED <<queue, obs, hist>>

StatusFails ==
  /\ svc.at = "status"
  /\ svc' = Connected(svc)
  /\ Failed /\ UNCHANGED <<queue, obs>>

StartAnswered ==
  /\ svc.at \in StartRequests /\ Serves /\ obs.rec = "no"
  /\ svc.valve => svc.strays < MaxStrays
  /\ svc' = Started(svc)
  /\ obs' = [obs EXCEPT !.rec = "ours"]
  /\ hist' = [hist EXCEPT !.behind = FALSE]
  /\ UNCHANGED queue

(* "Already active": the orphan is stopped and the start repeated, once,   *)
(* if gladlog knows the recording for its own.                             *)
StartRefused ==
  /\ svc.at \in StartRequests /\ Serves /\ obs.rec # "no"
  /\ svc' = IF svc.at = "start" /\ svc.weStarted /\ svc.client # "none"
            THEN [svc EXCEPT !.at = "orphan"] ELSE Finish(svc)
  /\ Failed /\ UNCHANGED <<queue, obs>>

(* An error or the timeout: OBS never got the request, or carried it out,  *)
(* or will.                                                                *)
StartFails ==
  /\ svc.at \in StartRequests
  /\ svc' = Finish(svc)
  /\ \/ UNCHANGED obs
     \/ Serves /\ obs.rec = "no" /\ obs' = [obs EXCEPT !.rec = "silent"]
     \/ Serves /\ obs' = [obs EXCEPT !.late = "start"]
  /\ Failed /\ UNCHANGED queue

StopAnswered ==
  /\ svc.at \in StopRequests /\ Serves /\ obs.rec # "no"
  /\ svc' = AfterStop(svc, TRUE)
  /\ obs' = [obs EXCEPT !.rec = "no"]
  /\ hist' = [hist EXCEPT !.stolen = @ \/ (obs.rec = "users" /\ ~hist.behind),
                          !.behind = FALSE]
  /\ UNCHANGED queue

(* An orphan that could not be stopped is not gladlog's any more.          *)
GivenUp == IF obs.rec = "ours" /\ svc.at # "stop" THEN "abandoned" ELSE obs.rec

(* Mutant of StopFails: no timeout; only a refusal or a closed socket.     *)
StopFailsAtOnce ==
  /\ svc.at \in StopRequests /\ (~Reachable \/ obs.rec = "no")
  /\ svc' = AfterStop(svc, FALSE)
  /\ obs' = [obs EXCEPT !.rec = GivenUp]
  /\ Failed /\ UNCHANGED queue

StopFails ==
  /\ svc.at \in StopRequests
  /\ svc' = AfterStop(svc, FALSE)
  /\ \/ /\ obs' = [obs EXCEPT !.rec = GivenUp]
        /\ Failed
     \/ /\ Serves
        /\ obs' = [rec |-> GivenUp, late |-> "stop"]
        /\ Failed
     \/ /\ Serves /\ obs.rec # "no"
        /\ obs' = [obs EXCEPT !.rec = "no"]
        /\ hist' = [hist EXCEPT !.failed = TRUE, !.behind = @ \/ obs.rec = "ours"]
  /\ UNCHANGED queue

DisconnectEnds ==
  /\ svc.at = "disconnect"
  /\ \/ svc' = [Idle(svc) EXCEPT !.connected = FALSE]
     \/ /\ svc.client \in {"opening", "live"}
        /\ svc' = Idle(OnClosed([svc EXCEPT !.client = "dead"]))
  /\ UNCHANGED <<queue, obs, hist>>
-----------------------------------------------------------------------------
(* OBS carries out, or forgets, a request whose sender waits no more.      *)
LateRequest ==
  /\ obs.late # "none"
  /\ \/ obs' = [obs EXCEPT !.late = "none"] /\ UNCHANGED hist
     \/ /\ obs.late = "start" /\ obs.rec = "no"
        /\ obs' = [rec |-> "silent", late |-> "none"]
        /\ UNCHANGED hist
     \/ /\ obs.late = "stop"
        /\ obs' = [rec |-> "no", late |-> "none"]
        /\ hist' = [hist EXCEPT !.behind = @ \/ obs.rec = "ours"]
  /\ UNCHANGED <<svc, queue>>

(* A connection that took too long is there in the end. *)
LateConnection ==
  /\ svc.client = "opening" /\ svc.at # "connect"
  /\ svc' = [svc EXCEPT !.client = "live"]
  /\ UNCHANGED <<queue, obs, hist>>

(* The socket of the client, or of a former one, closes. *)
SocketCloses ==
  /\ svc.client = "live" \/ (svc.client = "opening" /\ svc.at # "connect")
  /\ svc' = OnClosed([svc EXCEPT !.client = "dead"])
  /\ UNCHANGED <<queue, obs, hist>>

FormerSocketCloses ==
  /\ svc.leaked
  /\ \E more \in BOOLEAN : svc' = OnClosed([svc EXCEPT !.leaked = more])
  /\ UNCHANGED <<queue, obs, hist>>

(* The user at OBS; a crash of OBS ends its recording too. *)
UserStarts ==
  /\ obs.rec = "no"
  /\ obs' = [obs EXCEPT !.rec = "users"]
  /\ UNCHANGED <<svc, queue, hist>>

UserStops ==
  /\ obs.rec # "no"
  /\ obs' = [obs EXCEPT !.rec = "no"]
  /\ hist' = [hist EXCEPT !.behind = @ \/ obs.rec = "ours"]
  /\ UNCHANGED <<svc, queue>>

(* Mutant of TestConnection: the old client stays. *)
TestConnectionKeeps ==
  /\ svc' = [svc EXCEPT !.connected = TRUE]
  /\ UNCHANGED <<queue, obs, hist>>

(* A successful testConnection, off the chain. *)
TestConnection ==
  /\ svc' = [svc EXCEPT !.connected = TRUE,
                        !.client = IF svc.connected THEN @ ELSE "none",
                        !.leaked = @ \/ (~svc.connected /\ svc.client \in {"opening", "live"})]
  /\ hist' = [hist EXCEPT !.failed = @ \/ ~svc.connected]
  /\ UNCHANGED <<queue, obs>>
-----------------------------------------------------------------------------
Answer == \/ ConnectAnswered \/ ConnectRefused \/ StatusAnswered
          \/ StartAnswered \/ StartRefused \/ StopAnswered
TimeOut == ConnectTimesOut \/ StatusFails \/ StartFails \/ StopFails \/ DisconnectEnds
World == \/ LateRequest \/ LateConnection \/ SocketCloses \/ FormerSocketCloses
         \/ UserStarts \/ UserStops \/ TestConnection
Next == (\E k \in Signals : Signal(k)) \/ ValveFires \/ StrayFires \/ Begin
        \/ Answer \/ TimeOut \/ World

Spec == Init /\ [][Next]_vars

(* A job begins when the one before is over, requests time out, and the    *)
(* safety valve's timer runs down.  OBS owes no answer.                    *)
FairSpec == Spec /\ WF_vars(Begin) /\ WF_vars(TimeOut) /\ WF_vars(ValveFires)
-----------------------------------------------------------------------------
(* gladlog stops the user's recording only in the belief that it is the    *)
(* one it started itself, which has ended behind its back.                 *)
LeavesUsersRecording == ~hist.stolen

(* Whatever becomes of the connection, a recording gladlog started is known*)
(* for its own, until it is over or an attempt to collect it has failed.   *)
KnownDebt == obs.rec = "ours" => svc.weStarted

(* A client whose socket is closed is never taken for a connection: the    *)
(* next job makes a new one.                                               *)
ConnectedNotDead == svc.connected => svc.client # "dead"

(* A close, the safety valve or stop(), if nothing fails while it runs and *)
(* no connection test takes its client away, leaves no recording of ours   *)
(* behind - unless recording was set without a client to stop it with.     *)
Stranded == svc.recording /\ svc.client = "none"
Ends(jobs) ==
  /\ svc'.job = "none"
  /\ svc.job \in jobs \/ (Begin /\ Head(queue) \in jobs)
CloseEnds ==
  [][Ends(Closing) /\ ~hist'.failed => obs'.rec # "ours" \/ Stranded]_vars

(* Every job ends, whatever OBS leaves unanswered: the chain never hangs.  *)
ChainMoves == svc.job # "none" ~> svc.job = "none"

(* A recording that sees no close is ended by the safety valve.            *)
RecordingEnds == svc.recording ~> (~svc.recording \/ svc.client = "none")
=============================================================================
