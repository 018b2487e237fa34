---------------------------- MODULE IngestProofs ----------------------------
(***************************************************************************)
(* Proofs about Ingest, for any number of logs, lines, rotations, queued   *)
(* messages, crashes, imports and failures: type correctness, that a match *)
(* before a saved checkpoint is lost only with the last messages of a      *)
(* process that dies, that a match is stored whole and announced once.     *)
(*                                                                         *)
(* The invariant says of every place that holds a position in a log (a     *)
(* saved checkpoint, the registry, a pipeline and its checkpoint, the      *)
(* flush in progress) what Upto says: if it belongs to the log on disk,    *)
(* then its parser is the one a reader of exactly those lines is in, and   *)
(* every match completed in them is accounted for.                         *)
(***************************************************************************)
EXTENDS Ingest, SegmenterOpsProofs

Message == [type : {"staged", "full"}, match : MatchSet]
MatchesOf(q) == {q[i].match : i \in DOMAIN q}

(* A log value: lines and, for each, the parser after it. *)
ParserIn(lg, n) == IF n = 0 THEN IdleParser ELSE lg.parsers[n]
CompletedByIn(f, lg, n) ==
  MatchesIn(f, lg.gen, Push(ParserIn(lg, n - 1), lg.lines[n], n).events)
CompletedIn(f, lg, n) == UNION {CompletedByIn(f, lg, i) : i \in 1..n}

LogOK(lg) ==
  /\ lg.gen # 0
  /\ Len(lg.parsers) = Len(lg.lines)
  /\ \A n \in 1..Len(lg.lines) :
       /\ ParserOK(lg.parsers[n])
       /\ lg.parsers[n] = Push(ParserIn(lg, n - 1), lg.lines[n], n).parser

(* Whoever holds position n of generation gen with parser p knows all that *)
(* the log on disk says up to there, and acc accounts for its matches.     *)
Upto(f, lg, acc, gen, n, p) ==
  /\ gen <= lg.gen
  /\ gen = 0 => n = 0 /\ p = IdleParser
  /\ gen = lg.gen => /\ n <= Len(lg.lines)
                     /\ p = ParserIn(lg, n)
                     /\ \A m \in CompletedIn(f, lg, n) : m.id \in acc

(* lg2 is lg with lines appended, or a later generation. *)
Grows(lg, lg2) ==
  \/ lg.gen < lg2.gen
  \/ /\ lg.gen = lg2.gen
     /\ Len(lg.lines) <= Len(lg2.lines)
     /\ \A i \in 1..Len(lg.lines) :
          lg2.lines[i] = lg.lines[i] /\ lg2.parsers[i] = lg.parsers[i]
-----------------------------------------------------------------------------
(* The first element of a sequence is one of its elements. *)
LEMMA FirstIn ==
  ASSUME NEW S, NEW q \in Seq(S), q # <<>>
  PROVE  q[1] \in S
  OBVIOUS

(* The parser calls of any reader yield at most one match, and a typed one. *)
LEMMA MatchesInOne ==
  ASSUME NEW f \in Files, NEW gen \in Nat, NEW es \in Seq(EventSet), DeliversAtMostOne(es)
  PROVE  /\ MatchesIn(f, gen, es) \subseteq MatchSet
         /\ \A m1, m2 \in MatchesIn(f, gen, es) : m1 = m2
<1>1. ASSUME NEW i \in DOMAIN es, IsDelivery(es[i])
      PROVE  MatchOf(f, gen, es[i].segments) \in MatchSet
  <2> DEFINE ss == es[i].segments
  <2>1. es[i] \in EventSet
    OBVIOUS
  <2>2. ss \in Seq(Segment) /\ ss # <<>>
    BY <1>1, <2>1 DEF EventSet, DeliversAtMostOne
  <2>3. ss[1] \in Segment /\ Len(ss) \in Nat
    BY <2>2
  <2>4. ss[1].rawLines \in Seq(Nat) /\ ss[1].rawLines # <<>>
    BY <2>3 DEF Segment
  <2>5. ss[1].rawLines[1] \in Nat
    BY ONLY <2>4, FirstIn
  <2> QED BY <2>3, <2>5 DEF MatchOf, MatchSet, MatchIds
<1> QED BY <1>1 DEF MatchesIn, DeliversAtMostOne, IsDelivery

(* One line yields at most one match, and a typed one. *)
LEMMA PushMatches ==
  ASSUME NEW f \in Files, NEW gen \in Nat, NEW p, ParserOK(p), NEW k \in Kinds, NEW n \in Nat
  PROVE  LET ms == MatchesIn(f, gen, Push(p, k, n).events)
         IN  ms \subseteq MatchSet /\ \A m1, m2 \in ms : m1 = m2
BY PushOK, PushDelivers, MatchesInOne

(* The end of the input yields at most one match, and a typed one. *)
LEMMA EndOfInputMatches ==
  ASSUME NEW f \in Files, NEW gen \in Nat, NEW p, ParserOK(p)
  PROVE  LET ms == MatchesIn(f, gen, EndOfInput(p).events)
         IN  ms \subseteq MatchSet /\ \A m1, m2 \in ms : m1 = m2
BY EndOfInputOK, EndOfInputDelivers, MatchesInOne

(* The messages of a channel one longer, and one shorter. *)
LEMMA MatchesOfAppend ==
  ASSUME NEW q \in Seq(Message), NEW e \in Message
  PROVE  MatchesOf(Append(q, e)) = MatchesOf(q) \cup {e.match}
<1> DEFINE r == Append(q, e)
<1>1. /\ r \in Seq(Message) /\ Len(r) = Len(q) + 1
      /\ \A i \in 1..Len(q) : r[i] = q[i]
      /\ r[Len(q) + 1] = e
  BY AppendAt
<1>2. DOMAIN r = DOMAIN q \cup {Len(q) + 1} /\ DOMAIN q = 1..Len(q)
  BY <1>1
<1> HIDE DEF r
<1>3. MatchesOf(r) = MatchesOf(q) \cup {e.match}
  BY <1>1, <1>2 DEF MatchesOf
<1> QED BY <1>3 DEF r

(* The messages of a channel are its first and those behind it. *)
LEMMA MatchesOfTail ==
  ASSUME NEW q \in Seq(Message), q # <<>>
  PROVE  MatchesOf(q) = {Head(q).match} \cup MatchesOf(Tail(q))
<1> DEFINE r == Tail(q)
<1>1. /\ r \in Seq(Message) /\ Len(r) = Len(q) - 1 /\ Head(q) = q[1] /\ Len(q) \in Nat \ {0}
      /\ \A i \in 1..Len(r) : r[i] = q[i + 1]
  OBVIOUS
<1>2. DOMAIN r = 1..(Len(q) - 1) /\ DOMAIN q = 1..Len(q)
  BY <1>1
<1> HIDE DEF r
<1>3. \A i \in DOMAIN q : i = 1 \/ (i - 1 \in DOMAIN r /\ r[i - 1] = q[i])
  BY <1>1, <1>2
<1>4. \A i \in DOMAIN r : i + 1 \in DOMAIN q /\ r[i] = q[i + 1]
  BY <1>1, <1>2
<1>5. 1 \in DOMAIN q
  BY <1>1, <1>2
<1>6. MatchesOf(q) \subseteq {Head(q).match} \cup MatchesOf(r)
  BY <1>1, <1>3 DEF MatchesOf
<1>7. {Head(q).match} \cup MatchesOf(r) \subseteq MatchesOf(q)
  BY <1>1, <1>4, <1>5 DEF MatchesOf
<1> QED BY <1>6, <1>7 DEF r

(* What was known of a log stays true when it grows.                       *)
LEMMA UptoGrows ==
  ASSUME NEW f, NEW lg \in LogSet, NEW lg2 \in LogSet, NEW acc, NEW acc2,
         NEW gen \in Nat, NEW n \in Nat, NEW p,
         Grows(lg, lg2), acc \subseteq acc2, Upto(f, lg, acc, gen, n, p)
  PROVE  Upto(f, lg2, acc2, gen, n, p)
<1>1. lg.gen \in Nat /\ lg2.gen \in Nat /\ Len(lg.lines) \in Nat /\ Len(lg2.lines) \in Nat
  BY DEF LogSet
<1>2. CASE lg.gen < lg2.gen
  BY <1>1, <1>2 DEF Upto
<1>3. CASE gen # lg2.gen
  BY <1>1, <1>3 DEF Upto, Grows
<1>4. CASE gen = lg2.gen /\ ~(lg.gen < lg2.gen)
  <2>1. gen = lg.gen /\ n <= Len(lg.lines) /\ lg.gen = lg2.gen
    BY <1>1, <1>4 DEF Grows, Upto
  <2>2. \A i \in 1..n : lg2.lines[i] = lg.lines[i] /\ lg2.parsers[i] = lg.parsers[i]
    BY <1>1, <1>4, <2>1 DEF Grows
  <2>3. \A i \in 0..n : ParserIn(lg2, i) = ParserIn(lg, i)
    BY <2>2 DEF ParserIn
  <2>4. \A i \in 1..n : CompletedByIn(f, lg2, i) = CompletedByIn(f, lg, i)
    BY <2>1, <2>2, <2>3 DEF CompletedByIn
  <2>5. CompletedIn(f, lg2, n) = CompletedIn(f, lg, n)
    BY <2>4 DEF CompletedIn
  <2>6. n <= Len(lg2.lines)
    BY <1>1, <1>4, <2>1 DEF Grows
  <2> QED BY <1>1, <1>4, <2>1, <2>3, <2>5, <2>6 DEF Upto
<1> QED BY <1>2, <1>3, <1>4

(* The beginning of the log is always such a position. *)
LEMMA UptoStart ==
  ASSUME NEW f, NEW lg \in LogSet, NEW acc, NEW gen \in Nat, gen <= lg.gen
  PROVE  Upto(f, lg, acc, gen, 0, IdleParser)
<1>1. CompletedIn(f, lg, 0) = {}
  BY DEF CompletedIn
<1> QED BY <1>1 DEF Upto, ParserIn, LogSet

(* One line further. *)
LEMMA UptoLine ==
  ASSUME NEW f, NEW lg \in LogSet, LogOK(lg), NEW acc, NEW acc2,
         NEW gen \in Nat, gen # 0, NEW n \in Nat, NEW p, NEW k,
         Upto(f, lg, acc, gen, n, p), acc \subseteq acc2,
         gen = lg.gen => n + 1 <= Len(lg.lines) /\ lg.lines[n + 1] = k,
         \A m \in MatchesIn(f, gen, Push(p, k, n + 1).events) : m.id \in acc2
  PROVE  Upto(f, lg, acc2, gen, n + 1, Push(p, k, n + 1).parser)
<1>1. CASE gen # lg.gen
  BY <1>1 DEF Upto
<1>2. CASE gen = lg.gen
  <2>1. n + 1 \in 1..Len(lg.lines) /\ (n + 1) - 1 = n /\ p = ParserIn(lg, n) /\ lg.lines[n + 1] = k
    BY <1>2 DEF Upto, LogSet
  <2>2. Push(p, k, n + 1).parser = ParserIn(lg, n + 1)
    BY <2>1 DEF LogOK, ParserIn
  <2>3. CompletedByIn(f, lg, n + 1) = MatchesIn(f, gen, Push(p, k, n + 1).events)
    BY <1>2, <2>1 DEF CompletedByIn
  <2>4. \A m \in CompletedIn(f, lg, n + 1) : m.id \in acc2
    <3>1. 1..(n + 1) = 1..n \cup {n + 1}
      OBVIOUS
    <3>2. CompletedIn(f, lg, n + 1) = CompletedIn(f, lg, n) \cup CompletedByIn(f, lg, n + 1)
      BY <3>1 DEF CompletedIn
    <3> QED BY <1>2, <2>3, <3>2 DEF Upto
  <2> QED BY <1>2, <2>1, <2>2, <2>4 DEF Upto
<1> QED BY <1>1, <1>2
-----------------------------------------------------------------------------
LogsOK == \A f \in Files : LogOK(logs[f])
SavedOK == \A f \in Files :
  Upto(f, logs[f], Accounted, saved[f].gen, saved[f].offset, IdleParser)
RegistryOK == \A f \in Files :
  Upto(f, logs[f], Accounted, registry[f].gen, registry[f].offset, IdleParser)

(* A pipeline that is being flushed is described by ReadingOK. *)
PipesOK == \A f \in Files :
  /\ ParserOK(pipe[f].parser)
  /\ Upto(f, logs[f], Accounted, pipe[f].cp.gen, pipe[f].cp.offset, IdleParser)
  /\ reading.file # f => Upto(f, logs[f], Accounted, pipe[f].gen, pipe[f].offset, pipe[f].parser)

(* The lines in hand are those of the log that follow position n. *)
ReadsOn(lg, n, todo) ==
  /\ n + Len(todo) <= Len(lg.lines)
  /\ \A i \in 1..Len(todo) : todo[i] = lg.lines[n + i]

FlushOK(f) ==
  /\ f \in Files
  /\ wpc \in {"scan", "drain"}
  /\ pipe[f].gen = reading.gen
  /\ Upto(f, logs[f], Accounted, reading.gen, reading.pos, pipe[f].parser)
  /\ reading.gen = 0 => reading.todo = <<>>
  /\ reading.gen = logs[f].gen => ReadsOn(logs[f], reading.pos, reading.todo)
ReadingOK == reading = NotReading \/ FlushOK(reading.file)

(* While main runs, its index names exactly the directories on disk, and   *)
(* an id has one directory.                                                *)
IndexMatchesDisk ==
  /\ mainUp => index = Ids(dirs)
  /\ \A d, e \in dirs : d.id = e.id => d = e

ImportOK ==
  import = NotImporting \/ (import.file \in Files /\ mainUp /\ ParserOK(import.parser))

IInv == /\ TypeOK /\ LogsOK /\ SavedOK /\ RegistryOK /\ PipesOK
        /\ ReadingOK /\ ImportOK /\ IndexMatchesDisk

(* A step that keeps what is accounted for and only extends logs keeps     *)
(* every position.                                                         *)
Growth == /\ \A f \in Files : Grows(logs[f], logs'[f])
          /\ Accounted \subseteq Accounted'

(* In such a step, all that is known of any log stays known. *)
LEMMA Keeps ==
  ASSUME TypeOK, TypeOK', Growth
  PROVE  \A f \in Files, gen \in Nat, n \in Nat, p \in Parser :
           Upto(f, logs[f], Accounted, gen, n, p) => Upto(f, logs'[f], Accounted', gen, n, p)
<1>1. \A f \in Files : logs[f] \in LogSet /\ logs'[f] \in LogSet
  BY DEF TypeOK
<1> QED BY <1>1, UptoGrows DEF Growth

(* Lines in hand stay those of the log when it grows. *)
LEMMA ReadsOnGrows ==
  ASSUME NEW lg \in LogSet, NEW lg2 \in LogSet, NEW n \in Nat, NEW todo \in Seq(Kinds),
         lg.gen = lg2.gen, Grows(lg, lg2), ReadsOn(lg, n, todo)
  PROVE  ReadsOn(lg2, n, todo)
<1> DEFINE a == Len(lg.lines)
           b == Len(lg2.lines)
           c == Len(todo)
<1>1. a \in Nat /\ b \in Nat /\ c \in Nat /\ lg.gen \in Nat
  BY DEF LogSet
<1>2. a <= b /\ n + c <= a
  BY <1>1 DEF Grows, ReadsOn
<1>3. ASSUME NEW i \in 1..c PROVE todo[i] = lg2.lines[n + i]
  <2>1. n + i \in 1..a
    BY <1>1, <1>2
  <2>2. lg2.lines[n + i] = lg.lines[n + i]
    BY <1>1, <2>1 DEF Grows
  <2> QED BY <2>2 DEF ReadsOn
<1>4. n + c <= b
  BY <1>1, <1>2
<1> QED BY <1>3, <1>4 DEF ReadsOn

(* A step that leaves the logs alone lets none of them shrink. *)
LEMMA SameLogs ==
  ASSUME TypeOK, logs' = logs
  PROVE  \A f \in Files : Grows(logs[f], logs'[f])
<1>1. \A f \in Files : logs[f] \in LogSet
  BY DEF TypeOK
<1> QED BY <1>1 DEF Grows, LogSet

(* What stays when the variables it speaks of do.                          *)
LEMMA Frame ==
  ASSUME TypeOK, TypeOK', Growth
  PROVE  /\ SavedOK /\ saved' = saved => SavedOK'
         /\ RegistryOK /\ registry' = registry => RegistryOK'
         /\ PipesOK /\ pipe' = pipe /\ reading' = reading => PipesOK'
         /\ ReadingOK /\ pipe' = pipe /\ reading' = reading /\ wpc' = wpc => ReadingOK'
         /\ LogsOK /\ logs' = logs => LogsOK'
         /\ ImportOK /\ import' = import /\ mainUp' = mainUp => ImportOK'
         /\ IndexMatchesDisk /\ mainUp' = mainUp /\ index' = index /\ dirs' = dirs => IndexMatchesDisk'
<1>1. \A f \in Files, gen \in Nat, n \in Nat, p \in Parser :
        Upto(f, logs[f], Accounted, gen, n, p) => Upto(f, logs'[f], Accounted', gen, n, p)
  BY Keeps
<1>2. IdleParser \in Parser
  BY IdleParserOK DEF ParserOK
<1>3. /\ \A f \in Files : saved[f] \in Checkpoint /\ registry[f] \in Checkpoint
      /\ \A f \in Files : pipe[f] \in PipeSet
      /\ reading \in ReadingSet
  BY DEF TypeOK
<1>4. ASSUME SavedOK, saved' = saved PROVE SavedOK'
  BY <1>1, <1>2, <1>3, <1>4 DEF SavedOK, Checkpoint
<1>5. ASSUME RegistryOK, registry' = registry PROVE RegistryOK'
  BY <1>1, <1>2, <1>3, <1>5 DEF RegistryOK, Checkpoint
<1>6. ASSUME PipesOK, pipe' = pipe, reading' = reading PROVE PipesOK'
  BY <1>1, <1>2, <1>3, <1>6 DEF PipesOK, PipeSet, Checkpoint
<1>7. ASSUME ReadingOK, pipe' = pipe, reading' = reading, wpc' = wpc PROVE ReadingOK'
  <2>1. CASE reading = NotReading
    BY <1>7, <2>1 DEF ReadingOK, NotReading
  <2>2. CASE FlushOK(reading.file)
    <3> DEFINE f == reading.file
    <3>1. Upto(f, logs'[f], Accounted', reading.gen, reading.pos, pipe[f].parser)
      BY <1>1, <1>3, <2>2 DEF FlushOK, ReadingSet, PipeSet
    <3>2. reading.gen = logs'[f].gen => ReadsOn(logs'[f], reading.pos, reading.todo)
      <4>1. reading.gen <= logs[f].gen /\ Grows(logs[f], logs'[f]) /\ f \in Files
        BY <2>2 DEF FlushOK, Upto, Growth
      <4>2. logs[f] \in LogSet /\ logs'[f] \in LogSet
        BY <4>1 DEF TypeOK
      <4>3. SUFFICES ASSUME reading.gen = logs'[f].gen PROVE ReadsOn(logs'[f], reading.pos, reading.todo)
        OBVIOUS
      <4>4. reading.gen = logs[f].gen /\ ReadsOn(logs[f], reading.pos, reading.todo)
        BY <1>3, <2>2, <4>1, <4>2, <4>3 DEF FlushOK, Grows, LogSet, ReadingSet
      <4>5. reading.pos \in Nat /\ reading.todo \in Seq(Kinds)
        BY <1>3 DEF ReadingSet
      <4> QED BY <4>1, <4>2, <4>3, <4>4, <4>5, ReadsOnGrows
    <3>3. FlushOK(f)'
      BY <1>7, <2>2, <3>1, <3>2 DEF FlushOK
    <3> QED BY <1>7, <3>3 DEF ReadingOK
  <2> QED BY <1>7, <2>1, <2>2 DEF ReadingOK
<1>8. ASSUME LogsOK, logs' = logs PROVE LogsOK'
  BY <1>8 DEF LogsOK
<1>9. ASSUME ImportOK, import' = import, mainUp' = mainUp PROVE ImportOK'
  BY <1>9 DEF ImportOK
<1>10. ASSUME IndexMatchesDisk, mainUp' = mainUp, index' = index, dirs' = dirs
       PROVE  IndexMatchesDisk'
  BY <1>10 DEF IndexMatchesDisk, Ids
<1> QED BY <1>4, <1>5, <1>6, <1>7, <1>8, <1>9, <1>10
-----------------------------------------------------------------------------
(* What is accounted for lies in dirs, queue and dropped alone. *)
LEMMA SameAccounted ==
  ASSUME dirs' = dirs, queue' = queue, dropped' = dropped
  PROVE  Accounted' = Accounted
BY DEF Accounted, Ids, Queued

(* What is accounted for, before and after a step. *)
LEMMA AccountedIds ==
  /\ Accounted = Ids(dirs) \cup Ids(MatchesOf(queue)) \cup Ids(dropped)
  /\ Accounted' = Ids(dirs') \cup Ids(MatchesOf(queue')) \cup Ids(dropped')
BY DEF Accounted, Queued, MatchesOf, Ids

(* A match handed to Emit is on disk or in the channel afterwards, and the *)
(* channel loses nothing.                                                  *)
LEMMA EmitAccounts ==
  ASSUME TypeOK, NEW ms \in SUBSET MatchSet, \A m1, m2 \in ms : m1 = m2,
         Emit(ms), dirs' = dirs, dropped' = dropped
  PROVE  /\ queue' \in Seq(Message)
         /\ faults' \in FaultSet
         /\ Accounted \subseteq Accounted'
         /\ \A m \in ms : m.id \in Accounted'
<1> DEFINE fresh == {m \in ms : m.id \notin Ids(dirs)}
<1>1. queue \in Seq(Message) /\ faults \in FaultSet
  BY DEF TypeOK, Message
<1>2. Accounted = Ids(dirs) \cup Ids(MatchesOf(queue)) \cup Ids(dropped)
  BY DEF Accounted, Queued, MatchesOf
<1>3. Accounted' = Ids(dirs) \cup Ids(MatchesOf(queue')) \cup Ids(dropped)
  BY DEF Accounted, Queued, MatchesOf, Ids
<1>4. CASE fresh = {}
  <2>1. queue' = queue /\ faults' = faults
    BY <1>4 DEF Emit
  <2>2. \A m \in ms : m.id \in Ids(dirs)
    BY <1>4
  <2> QED BY <1>1, <1>2, <1>3, <2>1, <2>2
<1>5. CASE fresh # {}
  <2>1. PICK m \in fresh :
          \/ queue' = Append(queue, Msg("staged", m)) /\ faults' = faults
          \/ /\ queue' = Append(queue, Msg("full", m))
             /\ faults' = [faults EXCEPT !.failures = @ + 1]
    BY <1>5 DEF Emit
  <2>2. m \in MatchSet
    OBVIOUS
  <2>3. PICK e \in Message : e.match = m /\ queue' = Append(queue, e)
    <3>1. Msg("staged", m) \in Message /\ Msg("full", m) \in Message
      BY <2>2 DEF Msg, Message
    <3>2. Msg("staged", m).match = m /\ Msg("full", m).match = m
      BY DEF Msg
    <3> QED BY <2>1, <3>1, <3>2
  <2>4. MatchesOf(queue') = MatchesOf(queue) \cup {m}
    BY <1>1, <2>3, MatchesOfAppend
  <2>5. queue' \in Seq(Message)
    BY <1>1, <2>3
  <2>6. faults' \in FaultSet
    BY <1>1, <2>1 DEF FaultSet
  <2>7. \A x \in ms : x = m
    OBVIOUS
  <2> QED BY <1>2, <1>3, <2>4, <2>5, <2>6, <2>7 DEF Ids
<1> QED BY <1>4, <1>5

(* Whatever a reader of f has read, its parser is well-formed.             *)
LEMMA ParserInOK ==
  ASSUME NEW lg \in LogSet, LogOK(lg), NEW n \in 0..Len(lg.lines)
  PROVE  ParserOK(ParserIn(lg, n))
BY IdleParserOK DEF LogOK, ParserIn, LogSet

(* A line written, as a value of the log. *)
Appended(lg, k, lg2) ==
  lg2 = [lg EXCEPT !.lines = Append(lg.lines, k),
                   !.parsers = Append(lg.parsers,
                     Push(ParserIn(lg, Len(lg.lines)), k, Len(lg.lines) + 1).parser)]

(* One more line of the log.                                               *)
LEMMA LogAppend ==
  ASSUME NEW lg \in LogSet, LogOK(lg), NEW k \in Kinds,
         NEW lg2, Appended(lg, k, lg2)
  PROVE  lg2 \in LogSet /\ LogOK(lg2) /\ Grows(lg, lg2)
<1> DEFINE n == Len(lg.lines)
           r == Push(ParserIn(lg, n), k, n + 1).parser
<1>1. /\ lg.lines \in Seq(Kinds) /\ lg.parsers \in Seq(Parser) /\ n \in Nat
      /\ Len(lg.parsers) = n /\ lg.gen \in Nat \ {0}
  BY DEF LogSet, LogOK
<1>2. ParserOK(r) /\ r \in Parser
  <2>1. ParserOK(ParserIn(lg, n))
    BY <1>1, ParserInOK
  <2>2. ParserOK(r)
    BY <1>1, <2>1, PushOK
  <2> QED BY <2>2 DEF ParserOK
<1>3. /\ lg2.lines = Append(lg.lines, k) /\ lg2.parsers = Append(lg.parsers, r)
      /\ lg2.gen = lg.gen
      /\ lg2 = [gen |-> lg2.gen, lines |-> lg2.lines, parsers |-> lg2.parsers]
  BY DEF LogSet, Appended
<1> HIDE DEF r
<1>4. lg2 \in LogSet
  <2>1. lg2.lines \in Seq(Kinds) /\ lg2.parsers \in Seq(Parser) /\ lg2.gen \in Nat
    BY <1>1, <1>2, <1>3, AppendAt
  <2> QED BY <1>3, <2>1 DEF LogSet
<1>5. /\ Len(lg2.lines) = n + 1 /\ Len(lg2.parsers) = n + 1
      /\ \A i \in 1..n : lg2.lines[i] = lg.lines[i] /\ lg2.parsers[i] = lg.parsers[i]
      /\ lg2.lines[n + 1] = k /\ lg2.parsers[n + 1] = r
  BY <1>1, <1>2, <1>3, AppendAt
<1>6. Grows(lg, lg2)
  BY <1>1, <1>3, <1>5 DEF Grows
<1>7. \A i \in 0..n : ParserIn(lg2, i) = ParserIn(lg, i)
  BY <1>1, <1>5 DEF ParserIn
<1>8. ASSUME NEW i \in 1..(n + 1)
      PROVE  /\ ParserOK(lg2.parsers[i])
             /\ lg2.parsers[i] = Push(ParserIn(lg2, i - 1), lg2.lines[i], i).parser
  <2>1. CASE i \in 1..n
    BY <1>1, <1>5, <1>7, <2>1 DEF LogOK
  <2>2. CASE i = n + 1
    BY <1>1, <1>2, <1>5, <1>7, <2>2 DEF r
  <2> QED BY <1>1, <2>1, <2>2
<1>9. LogOK(lg2)
  BY <1>1, <1>3, <1>5, <1>8 DEF LogOK
<1> QED BY <1>4, <1>6, <1>9

(* A new generation, still empty.                                          *)
LEMMA LogReplaced ==
  ASSUME NEW lg \in LogSet, NEW lg2, lg2 = [gen |-> lg.gen + 1, lines |-> <<>>, parsers |-> <<>>]
  PROVE  lg2 \in LogSet /\ LogOK(lg2) /\ Grows(lg, lg2)
BY DEF LogSet, LogOK, Grows
-----------------------------------------------------------------------------
(* The game: only the log and the dirty set change. *)
LEMMA GameStep ==
  ASSUME IInv, NEW f \in Files, NEW lg2 \in LogSet, LogOK(lg2), Grows(logs[f], lg2),
         logs' = [logs EXCEPT ![f] = lg2], Notify(f),
         UNCHANGED <<worker, saved, queue, import, mainUp, store, history, faults>>
  PROVE  IInv'
<1>1. /\ pipe' = pipe /\ registry' = registry /\ wpc' = wpc /\ agenda' = agenda
      /\ batch' = batch /\ reading' = reading /\ saved' = saved /\ queue' = queue
      /\ import' = import /\ mainUp' = mainUp /\ index' = index /\ dirs' = dirs
      /\ orphans' = orphans /\ dropped' = dropped /\ announced' = announced /\ cutShort' = cutShort /\ faults' = faults
  BY DEF worker, store, history
<1>2. logs' \in [Files -> LogSet] /\ dirty' \subseteq Files
  BY DEF IInv, TypeOK, Notify
<1>3. TypeOK'
  BY <1>1, <1>2 DEF IInv, TypeOK
<1>4. Growth
  <2>1. \A g \in Files : logs[g] \in LogSet /\ logs'[g] = IF g = f THEN lg2 ELSE logs[g]
    BY DEF IInv, TypeOK
  <2>2. \A g \in Files : Grows(logs[g], logs'[g])
    BY <2>1 DEF Grows, LogSet
  <2> QED BY <1>1, <2>2, SameAccounted DEF Growth
<1>5. LogsOK'
  BY DEF LogsOK, IInv, TypeOK
<1> QED BY <1>1, <1>3, <1>4, <1>5, Frame DEF IInv

(* What writing a line does to the log, said of its value. *)
LEMMA WritesAppend ==
  ASSUME IInv, NEW f \in Files, GameWrites(f)
  PROVE  \E k \in Kinds, lg2 \in LogSet :
           /\ Appended(logs[f], k, lg2) /\ LogOK(lg2) /\ Grows(logs[f], lg2)
           /\ logs' = [logs EXCEPT ![f] = lg2]
<1> DEFINE n == Len(logs[f].lines) + 1
<1>1. PICK k \in LineKinds :
        logs' = [logs EXCEPT ![f].lines = Append(@, k),
                             ![f].parsers = Append(@, Push(ParserAt(f, n - 1), k, n).parser)]
  BY DEF GameWrites
<1> DEFINE lg == logs[f]
           lg2 == [lg EXCEPT !.lines = Append(lg.lines, k),
                             !.parsers = Append(lg.parsers,
                               Push(ParserIn(lg, Len(lg.lines)), k, Len(lg.lines) + 1).parser)]
<1>2. lg \in LogSet /\ LogOK(lg) /\ k \in Kinds /\ Appended(lg, k, lg2)
  BY IngestAssumption DEF IInv, TypeOK, LogsOK, Appended
<1>3. lg2 \in LogSet /\ LogOK(lg2) /\ Grows(lg, lg2)
  BY <1>2, LogAppend
<1>4. logs' = [logs EXCEPT ![f] = lg2]
  <2>1. n - 1 = Len(lg.lines)
    BY <1>2 DEF LogSet
  <2>2. ParserAt(f, n - 1) = ParserIn(lg, Len(lg.lines))
    BY <2>1 DEF ParserAt, ParserIn
  <2> QED BY <1>1, <2>2
<1> HIDE DEF lg2
<1> QED BY <1>2, <1>3, <1>4

(* If one log grows, none shrinks. *)
LEMMA OneGrows ==
  ASSUME TypeOK, NEW f \in Files, NEW lg2 \in LogSet, Grows(logs[f], lg2),
         logs' = [logs EXCEPT ![f] = lg2]
  PROVE  \A g \in Files : Grows(logs[g], logs'[g])
<1>1. \A g \in Files : logs[g] \in LogSet /\ logs'[g] = IF g = f THEN lg2 ELSE logs[g]
  BY DEF TypeOK
<1> QED BY <1>1 DEF Grows, LogSet

(* The game writes a line. *)
LEMMA GameWritesStep ==
  ASSUME IInv, NEW f \in Files, GameWrites(f)
  PROVE  IInv'
<1>1. PICK k \in Kinds, lg2 \in LogSet :
        LogOK(lg2) /\ Grows(logs[f], lg2) /\ logs' = [logs EXCEPT ![f] = lg2]
  BY WritesAppend
<1>2. /\ Notify(f)
      /\ UNCHANGED <<worker, saved, queue, import, mainUp, store, history, faults>>
  BY DEF GameWrites
<1> QED BY <1>1, <1>2, GameStep

(* The log is replaced. *)
LEMMA GameRotatesStep ==
  ASSUME IInv, NEW f \in Files, GameRotates(f)
  PROVE  IInv'
<1> DEFINE lg2 == [gen |-> logs[f].gen + 1, lines |-> <<>>, parsers |-> <<>>]
<1>1. logs[f] \in LogSet
  BY DEF IInv, TypeOK
<1>2. lg2 \in LogSet /\ LogOK(lg2) /\ Grows(logs[f], lg2)
  BY <1>1, LogReplaced
<1>3. logs' = [logs EXCEPT ![f] = lg2]
  BY DEF GameRotates
<1> HIDE DEF lg2
<1> QED BY <1>2, <1>3, GameStep DEF GameRotates
-----------------------------------------------------------------------------
(* Checkpoints and pipelines at the beginning of a log know nothing, and   *)
(* so nothing that is wrong.                                               *)
LEMMA StartOK ==
  ASSUME TypeOK
  PROVE  \A f \in Files : Upto(f, logs[f], Accounted, 0, 0, IdleParser)
<1>1. \A f \in Files : logs[f] \in LogSet /\ 0 <= logs[f].gen
  BY DEF TypeOK, LogSet
<1> QED BY <1>1, UptoStart

(* The pipeline and the checkpoint of a file nobody has read. *)
LEMMA StartTyped == /\ NoCheckpoint \in Checkpoint
                    /\ NoPipeline \in PipeSet
                    /\ NoPipeline.gen = 0 /\ NoPipeline.offset = 0 /\ NoPipeline.parser = IdleParser
                    /\ NoPipeline.cp.gen = 0 /\ NoPipeline.cp.offset = 0
<1>1. IdleParser \in Parser
  BY IdleParserOK DEF ParserOK
<1> QED BY <1>1 DEF NoCheckpoint, Checkpoint, NoPipeline, NewPipeline, PipeSet

(* A worker that drops its pipelines.                                      *)
LEMMA DropPipes ==
  ASSUME TypeOK, TypeOK', logs' = logs, pipe' = [f \in Files |-> NoPipeline]
  PROVE  PipesOK'
<1>1. \A f \in Files : pipe'[f] = NoPipeline
  OBVIOUS
<1>2. \A f \in Files : Upto(f, logs'[f], Accounted', 0, 0, IdleParser)
  <2>1. \A f \in Files : logs'[f] \in LogSet /\ 0 <= logs'[f].gen
    BY DEF TypeOK, LogSet
  <2> QED BY <2>1, UptoStart
<1> QED BY <1>1, <1>2, StartTyped, IdleParserOK DEF PipesOK

(* No flush in progress: nothing to say of it. *)
LEMMA NotReadingOK == ASSUME reading' = NotReading PROVE ReadingOK'
BY DEF ReadingOK, NotReading

(* No flush is in progress while the worker waits for events.              *)
LEMMA WaitingIsNotReading ==
  ASSUME IInv, wpc \notin {"scan", "drain"}
  PROVE  reading = NotReading
BY DEF IInv, ReadingOK, FlushOK

(* The worker is configured: the saved checkpoints are the registry. *)
LEMMA ConfigureStep ==
  ASSUME IInv, Configure \/ ConfigureBlind
  PROVE  IInv'
<1>1. /\ logs' = logs /\ saved' = saved /\ queue' = queue /\ import' = import
      /\ mainUp' = mainUp /\ index' = index /\ dirs' = dirs /\ orphans' = orphans
      /\ dropped' = dropped /\ announced' = announced /\ cutShort' = cutShort /\ reading' = reading
      /\ registry' = saved /\ dirty' = {} /\ pipe' = [f \in Files |-> NoPipeline]
      /\ wpc \in {"down", "blind", "watching"} /\ wpc' \in {"scan", "blind"}
      /\ agenda' \in {agenda, Files} /\ batch' \in {batch, Files}
      /\ faults' = faults \/ faults' = [faults EXCEPT !.failures = @ + 1]
  BY DEF Configure, ConfigureBlind, store, history
<1>2. reading' = NotReading
  BY <1>1, WaitingIsNotReading
<1>3. TypeOK'
  <2>1. faults' \in FaultSet
    <3>1. faults \in FaultSet
      BY DEF IInv, TypeOK
    <3> QED BY ONLY <1>1, <3>1 DEF FaultSet
  <2>2. pipe' \in [Files -> PipeSet]
    BY <1>1, StartTyped
  <2> QED BY <1>1, <2>1, <2>2 DEF IInv, TypeOK
<1>4. Growth
  BY <1>1, SameLogs, SameAccounted DEF Growth, IInv
<1>5. SavedOK' /\ LogsOK' /\ ImportOK' /\ IndexMatchesDisk'
  BY <1>1, <1>3, <1>4, Frame DEF IInv
<1>6. RegistryOK'
  BY <1>1, <1>5 DEF SavedOK, RegistryOK
<1>7. PipesOK'
  BY <1>1, <1>3, DropPipes DEF IInv
<1> QED BY <1>2, <1>3, <1>5, <1>6, <1>7, NotReadingOK DEF IInv

(* The watcher takes its batch. *)
LEMMA DrainStep ==
  ASSUME IInv, Drain
  PROVE  IInv'
<1>1. /\ logs' = logs /\ saved' = saved /\ queue' = queue /\ import' = import
      /\ mainUp' = mainUp /\ index' = index /\ dirs' = dirs /\ orphans' = orphans
      /\ dropped' = dropped /\ announced' = announced /\ cutShort' = cutShort /\ reading' = reading
      /\ registry' = registry /\ pipe' = pipe /\ faults' = faults
      /\ wpc = "watching" /\ wpc' = "drain" /\ agenda' = dirty /\ batch' = dirty /\ dirty' = {}
  BY DEF Drain, store, history
<1>2. reading' = NotReading
  BY <1>1, WaitingIsNotReading
<1>3. TypeOK'
  BY <1>1 DEF IInv, TypeOK
<1>4. Growth
  BY <1>1, SameLogs, SameAccounted DEF Growth, IInv
<1> QED BY <1>1, <1>2, <1>3, <1>4, Frame, NotReadingOK DEF IInv

(* The end of a round: the registry becomes the saved checkpoints, or      *)
(* nothing does, or the old file is gone.                                  *)
LEMMA SaveStep ==
  ASSUME IInv, SaveCheckpoints \/ SaveFails
  PROVE  IInv'
<1>1. /\ logs' = logs /\ queue' = queue /\ import' = import
      /\ mainUp' = mainUp /\ index' = index /\ dirs' = dirs /\ orphans' = orphans
      /\ dropped' = dropped /\ announced' = announced /\ cutShort' = cutShort /\ reading' = reading
      /\ registry' = registry /\ pipe' = pipe /\ reading = NotReading
      /\ wpc' = "watching" /\ agenda' = agenda /\ batch' = {} /\ dirty' \in {dirty, dirty \cup batch}
      /\ faults' = faults \/ faults' = [faults EXCEPT !.failures = @ + 1]
      /\ saved' \in {registry, saved, [f \in Files |-> NoCheckpoint]}
  BY DEF SaveCheckpoints, SaveFails, RoundDone, store, history
<1>2. TypeOK'
  <2>1. faults' \in FaultSet
    BY <1>1 DEF IInv, TypeOK, FaultSet
  <2>2. saved' \in [Files -> Checkpoint]
    BY <1>1, StartTyped DEF IInv, TypeOK
  <2> QED BY <1>1, <2>1, <2>2 DEF IInv, TypeOK
<1>3. Growth
  BY <1>1, SameLogs, SameAccounted DEF Growth, IInv
<1>4. RegistryOK' /\ LogsOK' /\ PipesOK' /\ ImportOK' /\ IndexMatchesDisk'
  BY <1>1, <1>2, <1>3, Frame DEF IInv
<1>5. SavedOK'
  <2>1. CASE saved' = registry
    BY <1>1, <1>4, <2>1 DEF RegistryOK, SavedOK
  <2>2. CASE saved' = saved
    BY <1>2, <1>3, <2>2, Frame DEF IInv
  <2>3. CASE saved' = [f \in Files |-> NoCheckpoint]
    <3>1. \A f \in Files : Upto(f, logs[f], Accounted, 0, 0, IdleParser)
      BY StartOK DEF IInv
    <3>2. Accounted' = Accounted
      BY <1>1, SameAccounted
    <3> QED BY <1>1, <2>3, <3>1, <3>2 DEF SavedOK, NoCheckpoint
  <2> QED BY <1>1, <2>1, <2>2, <2>3
<1>6. reading' = NotReading
  BY <1>1
<1> QED BY <1>2, <1>4, <1>5, <1>6, NotReadingOK DEF IInv

(* What the model calls the matches of a log up to a line, said of its     *)
(* value.                                                                  *)
LEMMA CompletedSame ==
  \A f \in Files, n \in Nat : Completed(f, n) = CompletedIn(f, logs[f], n)
BY DEF Completed, CompletedIn, CompletedBy, CompletedByIn, ParserAt, ParserIn

(* The channel keeps its first k messages: a match that nobody will read   *)
(* again is among them, on disk, or counted as dropped.                    *)
LEMMA CrashAccounts ==
  ASSUME IInv, NEW k \in 0..Len(queue), logs' = logs, saved' = saved, dirs' = dirs,
         queue' = SubSeq(queue, 1, k), dropped' = dropped \cup DroppedWith(LostAfter(k))
  PROVE  /\ SavedOK' /\ queue' \in Seq(Message) /\ MatchesOf(queue') \subseteq MatchesOf(queue)
         /\ StagedIn(LostAfter(k)) \subseteq MatchSet /\ dropped' \subseteq MatchSet
<1> DEFINE lost == LostAfter(k)
<1>1. /\ queue \in Seq(Message) /\ Len(queue) \in Nat /\ DOMAIN queue = 1..Len(queue)
      /\ \A i \in 1..Len(queue) : queue[i] \in Message
  <2>1. queue \in Seq(Message)
    BY DEF IInv, TypeOK, Message
  <2> QED BY <2>1
<1>2. /\ queue' \in Seq(Message) /\ DOMAIN queue' = 1..k
      /\ \A i \in 1..k : queue'[i] = queue[i]
  BY <1>1
<1>3. lost \subseteq Message
  BY <1>1 DEF LostAfter
<1>4. MatchesOf(queue) \subseteq MatchesOf(queue') \cup {msg.match : msg \in lost}
  <2> SUFFICES ASSUME NEW i \in 1..Len(queue)
               PROVE  queue[i].match \in MatchesOf(queue') \cup {msg.match : msg \in lost}
    BY <1>1 DEF MatchesOf
  <2>1. CASE i <= k
    BY <1>2, <2>1 DEF MatchesOf
  <2>2. CASE ~(i <= k)
    <3>1. i \in (k + 1)..Len(queue)
      BY <1>1, <2>2
    <3>2. queue[i] \in lost
      BY <3>1 DEF LostAfter
    <3> QED BY <3>2
  <2> QED BY <2>1, <2>2
<1>5. MatchesOf(queue') \subseteq MatchesOf(queue)
  <2>1. \A i \in 1..k : i \in 1..Len(queue)
    BY <1>1
  <2> QED BY <1>1, <1>2, <2>1 DEF MatchesOf
<1>6. StagedIn(lost) \subseteq MatchSet /\ DroppedWith(lost) \subseteq MatchSet
  BY <1>3 DEF StagedIn, DroppedWith, Message
<1>7. dropped' \subseteq MatchSet
  BY <1>6 DEF IInv, TypeOK
<1> HIDE DEF lost
<1>8. ASSUME NEW f \in Files, saved[f].gen = logs[f].gen,
             NEW m \in CompletedIn(f, logs[f], saved[f].offset)
      PROVE  m.id \in Accounted'
  <2>1. m.id \in Accounted
    BY <1>8 DEF IInv, SavedOK, Upto
  <2>2. CASE m.id \in Ids(dirs) \cup Ids(dropped)
    BY <2>2, AccountedIds DEF Ids
  <2>3. CASE m.id \in Ids(MatchesOf(queue))
    <3>1. PICK x \in MatchesOf(queue) : x.id = m.id
      BY <2>3 DEF Ids
    <3>2. CASE x \in MatchesOf(queue')
      BY <3>1, <3>2, AccountedIds DEF Ids
    <3>3. CASE x.id \in Ids(dirs)
      BY <3>1, <3>3, AccountedIds
    <3>4. CASE x \notin MatchesOf(queue') /\ x.id \notin Ids(dirs)
      <4>1. PICK msg \in lost : msg.match = x
        BY <1>4, <3>4
      <4>2. saved[f].offset \in Nat
        BY DEF IInv, TypeOK, Checkpoint
      <4>3. m \in Completed(f, saved[f].offset)
        BY <4>2, CompletedSame
      <4>4. Passed(x)
        BY <1>8, <3>1, <4>3 DEF Passed, Ids
      <4>5. x \in DroppedWith(lost)
        BY <3>4, <4>1, <4>4 DEF DroppedWith
      <4> QED BY <3>1, <4>5, AccountedIds DEF lost, Ids
    <3> QED BY <3>2, <3>3, <3>4
  <2> QED BY <2>1, <2>2, <2>3, AccountedIds
<1>9. SavedOK'
  <2> SUFFICES ASSUME NEW f \in Files
               PROVE  Upto(f, logs[f], Accounted', saved[f].gen, saved[f].offset, IdleParser)
    BY DEF SavedOK
  <2>1. Upto(f, logs[f], Accounted, saved[f].gen, saved[f].offset, IdleParser)
    BY DEF IInv, SavedOK
  <2> QED BY <1>8, <2>1 DEF Upto
<1> QED BY <1>2, <1>5, <1>6, <1>7, <1>9 DEF lost

(* A worker that is gone knows nothing, and so nothing that is wrong.      *)
LEMMA ProcessGone ==
  ASSUME IInv, WorkerGone, logs' = logs, saved' = saved, dirs' = dirs, announced' = announced,
         cutShort' = cutShort, SavedOK', queue' \in Seq(Message), dropped' \subseteq MatchSet,
         orphans' \subseteq MatchSet, faults' \in FaultSet, import' \in ImportSet,
         mainUp' \in BOOLEAN, index' \subseteq MatchIds, ImportOK', IndexMatchesDisk'
  PROVE  IInv'
<1>1. /\ wpc' = "down" /\ agenda' = {} /\ batch' = {} /\ reading' = NotReading /\ dirty' = {}
      /\ pipe' = [f \in Files |-> NoPipeline]
      /\ registry' = [f \in Files |-> NoCheckpoint]
  BY DEF WorkerGone
<1>2. TypeOK'
  <2>1. pipe' \in [Files -> PipeSet] /\ registry' \in [Files -> Checkpoint]
    BY <1>1, StartTyped
  <2>2. NotReading \in ReadingSet
    BY DEF NotReading, ReadingSet
  <2>3. /\ logs \in [Files -> LogSet] /\ saved \in [Files -> Checkpoint] /\ dirs \subseteq MatchSet
        /\ announced \in Seq(MatchIds) /\ cutShort \subseteq MatchSet
    BY DEF IInv, TypeOK
  <2> QED BY <1>1, <2>1, <2>2, <2>3 DEF TypeOK, Message
<1>3. LogsOK'
  BY DEF IInv, LogsOK
<1>4. RegistryOK'
  <2>1. \A f \in Files : logs'[f] \in LogSet /\ 0 <= logs'[f].gen
    BY <1>2 DEF TypeOK, LogSet
  <2>2. \A f \in Files : Upto(f, logs'[f], Accounted', 0, 0, IdleParser)
    BY <2>1, UptoStart
  <2> QED BY <1>1, <2>2 DEF RegistryOK, NoCheckpoint
<1>5. PipesOK'
  BY <1>1, <1>2, DropPipes DEF IInv
<1> QED BY <1>1, <1>2, <1>3, <1>4, <1>5, NotReadingOK DEF IInv

(* The worker dies, perhaps with its last messages: only the saved         *)
(* checkpoints stay.                                                       *)
LEMMA WorkerCrashStep ==
  ASSUME IInv, WorkerCrash
  PROVE  IInv'
<1> DEFINE writing == MatchesIn(reading.file, reading.gen,
                        Push(pipe[reading.file].parser, Head(reading.todo), reading.pos + 1).events)
<1>1. /\ logs' = logs /\ saved' = saved /\ import' = import
      /\ mainUp' = mainUp /\ index' = index /\ dirs' = dirs
      /\ announced' = announced /\ cutShort' = cutShort /\ WorkerGone
      /\ faults' = [faults EXCEPT !.worker = @ + 1]
  BY DEF WorkerCrash
<1>2. PICK k \in 0..Len(queue) :
        /\ queue' = SubSeq(queue, 1, k)
        /\ dropped' = dropped \cup DroppedWith(LostAfter(k))
        /\ \/ orphans' = orphans \cup StagedIn(LostAfter(k))
           \/ /\ reading # NotReading /\ reading.todo # <<>>
              /\ orphans' = orphans \cup StagedIn(LostAfter(k)) \cup writing
  BY DEF WorkerCrash
<1>3. /\ SavedOK' /\ queue' \in Seq(Message)
      /\ StagedIn(LostAfter(k)) \subseteq MatchSet /\ dropped' \subseteq MatchSet
  BY <1>1, <1>2, CrashAccounts
<1>4. orphans' \subseteq MatchSet
  <2>1. ASSUME reading # NotReading, reading.todo # <<>> PROVE writing \subseteq MatchSet
    <3>1. reading.file \in Files /\ reading.gen \in Nat /\ reading.pos + 1 \in Nat
      BY <2>1 DEF IInv, ReadingOK, FlushOK, TypeOK, ReadingSet
    <3>2. Head(reading.todo) \in Kinds
      BY <2>1 DEF IInv, TypeOK, ReadingSet
    <3>3. ParserOK(pipe[reading.file].parser)
      BY <3>1 DEF IInv, PipesOK
    <3> QED BY <3>1, <3>2, <3>3, PushMatches
  <2>2. orphans \subseteq MatchSet
    BY DEF IInv, TypeOK
  <2> HIDE DEF writing
  <2> QED BY <1>2, <1>3, <2>1, <2>2
<1>5. ImportOK' /\ IndexMatchesDisk'
  BY <1>1 DEF IInv, ImportOK, IndexMatchesDisk, Ids
<1>6. /\ faults' \in FaultSet /\ import' \in ImportSet /\ mainUp' \in BOOLEAN /\ index' \subseteq MatchIds
  BY <1>1 DEF IInv, TypeOK, FaultSet
<1> QED BY <1>1, <1>3, <1>4, <1>5, <1>6, ProcessGone
-----------------------------------------------------------------------------
(* The elements of a sequence behind its first n. *)
LEMMA RestOf ==
  ASSUME NEW S, NEW q \in Seq(S), NEW n \in 0..Len(q)
  PROVE  LET r == SubSeq(q, n + 1, Len(q))
         IN  /\ r \in Seq(S) /\ Len(r) = Len(q) - n
             /\ \A i \in 1..Len(r) : r[i] = q[n + i]
  OBVIOUS

(* The pipeline a flush starts with, new or old. *)
LEMMA PipelineForOK ==
  ASSUME IInv, NEW f \in Files, reading = NotReading
  PROVE  LET p == PipelineFor(f)
         IN  /\ p \in PipeSet /\ ParserOK(p.parser)
             /\ Upto(f, logs[f], Accounted, p.cp.gen, p.cp.offset, IdleParser)
             /\ Upto(f, logs[f], Accounted, p.gen, p.offset, p.parser)
<1>1. reading.file # f
  BY IngestAssumption DEF NotReading
<1>2. CASE pipe[f].live
  BY <1>1, <1>2 DEF PipelineFor, IInv, PipesOK, TypeOK
<1>3. CASE ~pipe[f].live
  <2> DEFINE c == registry[f]
             p == NewPipeline(c)
  <2>1. c \in Checkpoint /\ Upto(f, logs[f], Accounted, c.gen, c.offset, IdleParser)
    BY DEF IInv, TypeOK, RegistryOK
  <2>2. IdleParser \in Parser
    BY IdleParserOK DEF ParserOK
  <2>3. /\ p.gen = c.gen /\ p.offset = c.offset /\ p.parser = IdleParser /\ p.cp = c
        /\ p \in PipeSet
    BY <2>1, <2>2 DEF NewPipeline, PipeSet, Checkpoint
  <2>4. PipelineFor(f) = p
    BY <1>3 DEF PipelineFor
  <2> HIDE DEF p
  <2> QED BY <2>1, <2>3, <2>4, IdleParserOK
<1> QED BY <1>2, <1>3

(* A flush begins: with the lines behind its position in hand, and with a  *)
(* parser of its own after a rotation.                                     *)
LEMMA StartFlushStep ==
  ASSUME IInv, NEW f \in Files, StartFlush(f)
  PROVE  IInv'
<1> DEFINE p == PipelineFor(f)
           lg == logs[f]
           rotated == RotatedSince(p, f)
           from == IF rotated THEN 0 ELSE p.offset
           gen == IF rotated \/ p.gen = 0 THEN ChecksumOf(f) ELSE p.gen
           q == IF rotated THEN NewPipeline([gen |-> gen, offset |-> 0]) ELSE [p EXCEPT !.gen = gen]
           todo == SubSeq(lg.lines, from + 1, Len(lg.lines))
           ms == IF rotated THEN MatchesIn(f, p.gen, EndOfInput(p.parser).events) ELSE {}
<1>1. /\ wpc \in {"scan", "drain"} /\ reading = NotReading
      /\ pipe' = [pipe EXCEPT ![f] = q]
      /\ reading' = [file |-> f, gen |-> gen, pos |-> from, todo |-> todo]
      /\ Emit(ms)
      /\ registry' = registry /\ wpc' = wpc /\ agenda' = agenda /\ batch' = batch /\ logs' = logs
      /\ saved' = saved /\ dirty' = dirty /\ import' = import /\ mainUp' = mainUp
      /\ index' = index /\ dirs' = dirs /\ orphans' = orphans
      /\ dropped' = dropped /\ announced' = announced /\ cutShort' = cutShort
  BY DEF StartFlush, Restarted, store, history
<1>2. /\ p \in PipeSet /\ ParserOK(p.parser)
      /\ Upto(f, lg, Accounted, p.cp.gen, p.cp.offset, IdleParser)
      /\ Upto(f, lg, Accounted, p.gen, p.offset, p.parser)
  BY <1>1, PipelineForOK
<1>3. lg \in LogSet /\ lg.gen # 0 /\ lg.lines \in Seq(Kinds) /\ Len(lg.lines) \in Nat
  BY DEF IInv, TypeOK, LogsOK, LogOK, LogSet
<1>4. p.gen \in Nat /\ p.offset \in Nat /\ p.parser \in Parser /\ p.cp \in Checkpoint
  BY <1>2 DEF PipeSet
<1>5. from \in 0..Len(lg.lines)
  BY <1>3, <1>4 DEF RotatedSince
<1>6. gen \in Nat /\ gen <= lg.gen /\ (gen = 0 => lg.lines = <<>>)
  BY <1>2, <1>3, <1>4 DEF ChecksumOf, LogSet, Upto
<1>7. /\ q \in PipeSet /\ q.gen = gen /\ ParserOK(q.parser)
      /\ Upto(f, lg, Accounted, q.cp.gen, q.cp.offset, IdleParser)
      /\ Upto(f, lg, Accounted, gen, from, q.parser)
  <2>1. Upto(f, lg, Accounted, gen, 0, IdleParser)
    BY <1>3, <1>6, UptoStart
  <2>2. CASE rotated
    <3>1. IdleParser \in Parser
      BY IdleParserOK DEF ParserOK
    <3>2. q = NewPipeline([gen |-> gen, offset |-> 0]) /\ from = 0
      BY <2>2
    <3> HIDE DEF q, gen
    <3> QED BY <1>6, <2>1, <3>1, <3>2, IdleParserOK DEF NewPipeline, PipeSet, Checkpoint
  <2>3. CASE ~rotated
    <3>1. q = [p EXCEPT !.gen = gen] /\ from = p.offset
      BY <2>3
    <3>2. p.gen = 0 \/ gen = p.gen
      BY <2>3
    <3>3. p.gen = 0 => p.offset = 0 /\ p.parser = IdleParser
      BY <1>2 DEF Upto
    <3> HIDE DEF q, gen, from
    <3>4. q \in PipeSet /\ q.gen = gen /\ q.parser = p.parser /\ q.cp = p.cp
      BY <1>2, <1>6, <3>1 DEF PipeSet
    <3> QED BY <1>2, <2>1, <3>1, <3>2, <3>3, <3>4
  <2> QED BY <2>2, <2>3
<1>8. /\ todo \in Seq(Kinds) /\ ReadsOn(lg, from, todo) /\ (lg.lines = <<>> => todo = <<>>)
  <2>1. /\ todo \in Seq(Kinds) /\ Len(todo) = Len(lg.lines) - from
        /\ \A i \in 1..Len(todo) : todo[i] = lg.lines[from + i]
    <3> HIDE DEF from, lg
    <3> QED BY <1>3, <1>5, RestOf
  <2> HIDE DEF from, todo, lg
  <2>2. lg.lines = <<>> => Len(todo) = 0
    BY <1>3, <1>5, <2>1
  <2> QED BY <1>3, <1>5, <2>1, <2>2 DEF ReadsOn
<1>9. ms \in SUBSET MatchSet /\ \A m1, m2 \in ms : m1 = m2
  BY <1>2, <1>4, EndOfInputMatches
<1> HIDE DEF q, gen, from, todo, ms, p
<1>10. /\ queue' \in Seq(Message) /\ faults' \in FaultSet /\ Accounted \subseteq Accounted'
  BY <1>1, <1>9, EmitAccounts DEF IInv
<1>11. TypeOK'
  <2>1. reading' \in ReadingSet
    BY <1>1, <1>5, <1>6, <1>8, <1>3 DEF ReadingSet
  <2>2. pipe' \in [Files -> PipeSet]
    BY <1>1, <1>7 DEF IInv, TypeOK
  <2> QED BY <1>1, <1>10, <2>1, <2>2 DEF IInv, TypeOK, Message
<1>12. Growth
  BY <1>1, <1>10, SameLogs DEF Growth, IInv
<1>13. SavedOK' /\ RegistryOK' /\ LogsOK' /\ ImportOK' /\ IndexMatchesDisk'
  BY <1>1, <1>11, <1>12, Frame DEF IInv
<1>14. \A g \in Files, a \in Nat, n \in Nat, r \in Parser :
         Upto(g, logs[g], Accounted, a, n, r) => Upto(g, logs'[g], Accounted', a, n, r)
  BY <1>11, <1>12, Keeps DEF IInv
<1>15. IdleParser \in Parser
  BY IdleParserOK DEF ParserOK
<1>16. PipesOK'
  <2>1. ASSUME NEW g \in Files, g # f
        PROVE  /\ ParserOK(pipe'[g].parser)
               /\ Upto(g, logs'[g], Accounted', pipe'[g].cp.gen, pipe'[g].cp.offset, IdleParser)
               /\ Upto(g, logs'[g], Accounted', pipe'[g].gen, pipe'[g].offset, pipe'[g].parser)
    <3>1. pipe'[g] = pipe[g] /\ pipe[g] \in PipeSet
      BY <1>1, <2>1 DEF IInv, TypeOK
    <3>2. reading.file # g
      BY <1>1, IngestAssumption DEF NotReading
    <3> QED BY <1>14, <1>15, <3>1, <3>2 DEF IInv, PipesOK, PipeSet, Checkpoint
  <2>2. /\ ParserOK(pipe'[f].parser)
        /\ Upto(f, logs'[f], Accounted', pipe'[f].cp.gen, pipe'[f].cp.offset, IdleParser)
    <3>1. pipe'[f] = q
      BY <1>1 DEF IInv, TypeOK
    <3> QED BY <1>7, <1>14, <1>15, <3>1 DEF PipeSet, Checkpoint
  <2>3. reading'.file = f
    BY <1>1
  <2> QED BY <2>1, <2>2, <2>3 DEF PipesOK
<1>17. ReadingOK'
  <2>1. pipe'[f] = q
    BY <1>1 DEF IInv, TypeOK
  <2>2. Upto(f, logs'[f], Accounted', gen, from, q.parser)
    BY <1>5, <1>6, <1>7, <1>14 DEF PipeSet
  <2>3. reading'.file = f /\ reading'.gen = gen /\ reading'.pos = from /\ reading'.todo = todo
    BY <1>1
  <2>4. FlushOK(f)'
    BY <1>1, <1>6, <1>7, <1>8, <2>1, <2>2, <2>3 DEF FlushOK
  <2> QED BY <2>3, <2>4 DEF ReadingOK
<1> QED BY <1>11, <1>13, <1>16, <1>17 DEF IInv

(* With the first line in hand taken, the others follow one line later. *)
LEMMA ReadsOnTail ==
  ASSUME NEW lg \in LogSet, NEW n \in Nat, NEW todo \in Seq(Kinds), todo # <<>>,
         ReadsOn(lg, n, todo)
  PROVE  /\ n + 1 <= Len(lg.lines) /\ lg.lines[n + 1] = Head(todo)
         /\ ReadsOn(lg, n + 1, Tail(todo))
<1> DEFINE a == Len(lg.lines)
           c == Len(todo)
           r == Tail(todo)
<1>1. a \in Nat /\ c \in Nat \ {0} /\ Head(todo) = todo[1]
  BY DEF LogSet
<1>2. Len(r) = c - 1 /\ \A i \in 1..(c - 1) : r[i] = todo[i + 1]
  OBVIOUS
<1>3. n + c <= a /\ \A i \in 1..c : todo[i] = lg.lines[n + i]
  BY DEF ReadsOn
<1> HIDE DEF a, c, r
<1>4. n + 1 <= a /\ todo[1] = lg.lines[n + 1]
  BY <1>1, <1>3
<1>5. ASSUME NEW i \in 1..(c - 1) PROVE r[i] = lg.lines[n + 1 + i]
  <2>1. i + 1 \in 1..c /\ n + (i + 1) = n + 1 + i
    BY <1>1
  <2> QED BY <1>2, <1>3, <2>1
<1>6. n + 1 + (c - 1) <= a
  BY <1>1, <1>3
<1> QED BY <1>1, <1>2, <1>4, <1>5, <1>6 DEF ReadsOn, a, r

(* One line through the parser: the position moves by one, and the match   *)
(* the line completes is accounted for.                                    *)
LEMMA FlushLineStep ==
  ASSUME IInv, FlushLine
  PROVE  IInv'
<1> DEFINE f == reading.file
           lg == logs[f]
           p == pipe[f].parser
           k == Head(reading.todo)
           n == reading.pos + 1
           r == Push(p, k, n)
           ms == MatchesIn(f, reading.gen, r.events)
<1>1. /\ reading # NotReading /\ reading.todo # <<>>
      /\ pipe' = [pipe EXCEPT ![f].parser = r.parser]
      /\ reading' = [reading EXCEPT !.pos = n, !.todo = Tail(@)]
      /\ Emit(ms)
      /\ registry' = registry /\ wpc' = wpc /\ agenda' = agenda /\ batch' = batch /\ logs' = logs
      /\ saved' = saved /\ dirty' = dirty /\ import' = import /\ mainUp' = mainUp
      /\ index' = index /\ dirs' = dirs /\ orphans' = orphans
      /\ dropped' = dropped /\ announced' = announced /\ cutShort' = cutShort
  BY DEF FlushLine, store, history
<1>2. FlushOK(f) /\ f \in Files
  BY <1>1 DEF IInv, ReadingOK, FlushOK
<1>3. /\ lg \in LogSet /\ LogOK(lg) /\ pipe[f] \in PipeSet /\ ParserOK(p)
      /\ reading \in ReadingSet
  BY <1>2 DEF IInv, TypeOK, LogsOK, PipesOK
<1>4. /\ reading.gen \in Nat /\ reading.pos \in Nat /\ n \in Nat
      /\ reading.todo \in Seq(Kinds) /\ Tail(reading.todo) \in Seq(Kinds) /\ k \in Kinds
  BY <1>1, <1>3 DEF ReadingSet
<1>5. ParserOK(r.parser) /\ r.parser \in Parser
  BY <1>3, <1>4, PushOK DEF ParserOK
<1>6. ms \in SUBSET MatchSet /\ \A m1, m2 \in ms : m1 = m2
  BY <1>2, <1>3, <1>4, PushMatches
<1> HIDE DEF r, ms
<1>7. /\ queue' \in Seq(Message) /\ faults' \in FaultSet /\ Accounted \subseteq Accounted'
      /\ \A m \in ms : m.id \in Accounted'
  BY <1>1, <1>6, EmitAccounts DEF IInv
<1>8. TypeOK'
  <2>1. reading' \in ReadingSet
    BY <1>1, <1>3, <1>4 DEF ReadingSet
  <2>2. pipe' \in [Files -> PipeSet]
    BY <1>1, <1>2, <1>3, <1>5 DEF IInv, TypeOK, PipeSet
  <2> QED BY <1>1, <1>7, <2>1, <2>2 DEF IInv, TypeOK, Message
<1>9. Growth
  BY <1>1, <1>7, SameLogs DEF Growth, IInv
<1>10. SavedOK' /\ RegistryOK' /\ LogsOK' /\ ImportOK' /\ IndexMatchesDisk'
  BY <1>1, <1>8, <1>9, Frame DEF IInv
<1>11. \A g \in Files, a \in Nat, i \in Nat, q \in Parser :
         Upto(g, logs[g], Accounted, a, i, q) => Upto(g, logs'[g], Accounted', a, i, q)
  BY <1>8, <1>9, Keeps DEF IInv
<1>12. reading'.file = f /\ reading'.gen = reading.gen /\ reading'.pos = n /\ reading'.todo = Tail(reading.todo)
  BY <1>1, <1>3 DEF ReadingSet
<1>13. \A g \in Files :
         /\ pipe'[g].cp = pipe[g].cp /\ pipe'[g].gen = pipe[g].gen /\ pipe'[g].offset = pipe[g].offset
         /\ pipe'[g].parser = IF g = f THEN r.parser ELSE pipe[g].parser
  BY <1>1, <1>2 DEF IInv, TypeOK, PipeSet
<1>14. IdleParser \in Parser /\ \A g \in Files : pipe[g] \in PipeSet
  BY IdleParserOK DEF ParserOK, IInv, TypeOK
<1>15. PipesOK'
  BY <1>5, <1>11, <1>12, <1>13, <1>14 DEF IInv, PipesOK, PipeSet, Checkpoint
<1>16. ReadingOK'
  <2>1. /\ reading.gen # 0
        /\ reading.gen = lg.gen => ReadsOn(lg, reading.pos, reading.todo)
        /\ Upto(f, lg, Accounted, reading.gen, reading.pos, p)
        /\ wpc \in {"scan", "drain"} /\ pipe[f].gen = reading.gen
    BY <1>1, <1>2 DEF FlushOK
  <2>2. reading.gen = lg.gen =>
          /\ n <= Len(lg.lines) /\ lg.lines[n] = k
          /\ ReadsOn(lg, n, Tail(reading.todo))
    BY <1>1, <1>3, <1>4, <2>1, ReadsOnTail
  <2>3. Upto(f, lg, Accounted', reading.gen, n, r.parser)
    <3> HIDE DEF lg, p, k, f
    <3> QED BY <1>3, <1>4, <1>7, <2>1, <2>2, UptoLine DEF r, ms
  <2>4. FlushOK(f)'
    BY <1>1, <1>2, <1>12, <1>13, <2>1, <2>2, <2>3 DEF FlushOK
  <2> QED BY <1>12, <2>4 DEF ReadingOK
<1> QED BY <1>8, <1>10, <1>15, <1>16 DEF IInv

(* The flush is over: the position is the pipeline's, and the checkpoint's *)
(* when no match is open, for then the parser is the initial one.          *)
LEMMA EndFlushStep ==
  ASSUME IInv, EndFlush
  PROVE  IInv'
<1> DEFINE f == reading.file
           here == [gen |-> reading.gen, offset |-> reading.pos]
           cp == IF HasOpenSegment(pipe[f].parser) THEN pipe[f].cp ELSE here
<1>1. /\ reading # NotReading /\ reading.todo = <<>>
      /\ pipe' = [pipe EXCEPT ![f].offset = reading.pos, ![f].cp = cp]
      /\ registry' = [registry EXCEPT ![f] = cp]
      /\ agenda' = agenda \ {f} /\ reading' = NotReading
      /\ wpc' = wpc /\ batch' = batch /\ logs' = logs
      /\ saved' = saved /\ dirty' = dirty /\ queue' = queue /\ import' = import /\ mainUp' = mainUp
      /\ index' = index /\ dirs' = dirs /\ orphans' = orphans
      /\ dropped' = dropped /\ announced' = announced /\ cutShort' = cutShort /\ faults' = faults
  BY DEF EndFlush, store, history
<1>2. FlushOK(f) /\ f \in Files
  BY <1>1 DEF IInv, ReadingOK, FlushOK
<1>3. /\ pipe[f] \in PipeSet /\ ParserOK(pipe[f].parser)
      /\ reading.gen \in Nat /\ reading.pos \in Nat
      /\ Upto(f, logs[f], Accounted, pipe[f].cp.gen, pipe[f].cp.offset, IdleParser)
      /\ Upto(f, logs[f], Accounted, reading.gen, reading.pos, pipe[f].parser)
      /\ pipe[f].gen = reading.gen
  BY <1>2 DEF IInv, TypeOK, PipesOK, ReadingSet, FlushOK
<1>4. cp \in Checkpoint /\ Upto(f, logs[f], Accounted, cp.gen, cp.offset, IdleParser)
  <2>1. CASE HasOpenSegment(pipe[f].parser)
    BY <1>3, <2>1 DEF PipeSet
  <2>2. CASE ~HasOpenSegment(pipe[f].parser)
    <3>1. pipe[f].parser = IdleParser
      BY <1>3, <2>2 DEF HasOpenSegment, ParserOK
    <3> QED BY <1>3, <2>2, <3>1 DEF Checkpoint
  <2> QED BY <2>1, <2>2
<1> HIDE DEF cp
<1>5. TypeOK'
  <2>1. pipe' \in [Files -> PipeSet]
    BY <1>1, <1>2, <1>3, <1>4 DEF IInv, TypeOK, PipeSet
  <2>2. registry' \in [Files -> Checkpoint]
    BY <1>1, <1>4 DEF IInv, TypeOK
  <2>3. NotReading \in ReadingSet
    BY DEF NotReading, ReadingSet
  <2> QED BY <1>1, <2>1, <2>2, <2>3 DEF IInv, TypeOK
<1>6. Accounted' = Accounted
  BY <1>1, SameAccounted
<1>7. Growth
  BY <1>1, <1>6, SameLogs DEF Growth, IInv
<1>8. SavedOK' /\ LogsOK' /\ ImportOK' /\ IndexMatchesDisk'
  BY <1>1, <1>5, <1>7, Frame DEF IInv
<1>9. RegistryOK'
  BY <1>1, <1>4, <1>6 DEF IInv, RegistryOK, TypeOK
<1>10. PipesOK'
  <2>1. \A g \in Files : g # f => pipe'[g] = pipe[g]
    BY <1>1 DEF IInv, TypeOK
  <2>2. /\ pipe'[f].cp = cp /\ pipe'[f].offset = reading.pos
        /\ pipe'[f].gen = pipe[f].gen /\ pipe'[f].parser = pipe[f].parser
    BY <1>1, <1>2, <1>3 DEF IInv, TypeOK, PipeSet
  <2> QED BY <1>1, <1>3, <1>4, <1>6, <2>1, <2>2 DEF IInv, PipesOK
<1> QED BY <1>1, <1>5, <1>8, <1>9, <1>10, NotReadingOK DEF IInv
-----------------------------------------------------------------------------
(* A step of main that leaves logs, checkpoints and the worker alone.      *)
LEMMA MainStep ==
  ASSUME IInv, logs' = logs, pipe' = pipe, registry' = registry, saved' = saved, wpc' = wpc,
         reading' = reading, TypeOK', Accounted \subseteq Accounted', ImportOK', IndexMatchesDisk'
  PROVE  IInv'
<1>1. Growth
  BY SameLogs DEF Growth, IInv
<1> QED BY <1>1, Frame DEF IInv

(* A message taken out of the channel is stored, or was stored before. *)
LEMMA CommitStep ==
  ASSUME IInv, Commit
  PROVE  IInv'
<1> DEFINE m == Head(queue).match
<1>1. /\ mainUp /\ queue # <<>> /\ queue' = Tail(queue)
      /\ \/ m.id \in index /\ index' = index /\ dirs' = dirs /\ announced' = announced
         \/ /\ m.id \notin index /\ dirs' = {d \in dirs : d.id # m.id} \cup {m}
            /\ index' = index \cup {m.id} /\ announced' = Append(announced, m.id)
      /\ logs' = logs /\ pipe' = pipe /\ registry' = registry /\ wpc' = wpc /\ agenda' = agenda
      /\ batch' = batch /\ reading' = reading /\ saved' = saved /\ dirty' = dirty
      /\ import' = import /\ mainUp' = mainUp /\ orphans' = orphans /\ dropped' = dropped
      /\ cutShort' = cutShort /\ faults' = faults
  BY DEF Commit, worker
<1>2. /\ queue \in Seq(Message) /\ Tail(queue) \in Seq(Message) /\ m \in MatchSet /\ m.id \in MatchIds
  <2>1. queue \in Seq(Message)
    BY DEF IInv, TypeOK, Message
  <2>2. Head(queue) \in Message /\ Tail(queue) \in Seq(Message)
    BY <1>1, <2>1
  <2> QED BY <2>1, <2>2 DEF Message, MatchSet
<1>3. MatchesOf(queue) = {m} \cup MatchesOf(queue')
  BY <1>1, <1>2, MatchesOfTail
<1>4. index = Ids(dirs) /\ \A d, e \in dirs : d.id = e.id => d = e
  BY <1>1 DEF IInv, IndexMatchesDisk
<1>5. Ids(MatchesOf(queue)) = {m.id} \cup Ids(MatchesOf(queue'))
  BY <1>3 DEF Ids
<1> HIDE DEF m
<1>6. CASE m.id \in index
  <2>1. index' = index /\ dirs' = dirs /\ announced' = announced
    BY <1>1, <1>6
  <2>2. TypeOK'
    BY <1>1, <1>2, <2>1 DEF IInv, TypeOK, Message
  <2>3. Accounted \subseteq Accounted'
    BY <1>1, <1>4, <1>5, <1>6, <2>1, AccountedIds
  <2>4. IndexMatchesDisk' /\ ImportOK'
    BY <1>1, <2>1 DEF IInv, IndexMatchesDisk, ImportOK, Ids
  <2> QED BY <1>1, <2>2, <2>3, <2>4, MainStep
<1>7. CASE m.id \notin index
  <2>1. {d \in dirs : d.id # m.id} = dirs
    BY <1>4, <1>7 DEF Ids
  <2>2. dirs' = dirs \cup {m} /\ index' = index \cup {m.id} /\ announced' = Append(announced, m.id)
    BY <1>1, <1>7, <2>1
  <2>3. Ids(dirs') = Ids(dirs) \cup {m.id}
    BY <2>2 DEF Ids
  <2>4. TypeOK'
    <3>1. announced' \in Seq(MatchIds)
      BY <1>2, <2>2 DEF IInv, TypeOK
    <3> QED BY <1>1, <1>2, <2>2, <3>1 DEF IInv, TypeOK, Message
  <2>5. Accounted \subseteq Accounted'
    BY <1>1, <1>5, <2>3, AccountedIds
  <2>6. IndexMatchesDisk'
    <3>1. \A d \in dirs : d.id # m.id
      BY <1>4, <1>7 DEF Ids
    <3> QED BY <1>1, <1>4, <2>2, <2>3, <3>1 DEF IndexMatchesDisk
  <2>7. ImportOK'
    BY <1>1 DEF IInv, ImportOK
  <2> QED BY <1>1, <2>4, <2>5, <2>6, <2>7, MainStep
<1> QED BY <1>6, <1>7

(* A message that cannot be stored is dropped. *)
LEMMA CommitFailsStep ==
  ASSUME IInv, CommitFails
  PROVE  IInv'
<1> DEFINE m == Head(queue).match
<1>1. /\ queue # <<>> /\ queue' = Tail(queue)
      /\ dropped' = dropped \cup {m} /\ orphans' \subseteq orphans \cup {m}
      /\ logs' = logs /\ pipe' = pipe /\ registry' = registry /\ wpc' = wpc /\ agenda' = agenda
      /\ batch' = batch /\ reading' = reading /\ saved' = saved /\ dirty' = dirty
      /\ import' = import /\ mainUp' = mainUp /\ index' = index /\ dirs' = dirs
      /\ announced' = announced /\ cutShort' = cutShort /\ faults' = [faults EXCEPT !.failures = @ + 1]
  BY DEF CommitFails, worker
<1>2. /\ queue \in Seq(Message) /\ Tail(queue) \in Seq(Message) /\ m \in MatchSet
  <2>1. queue \in Seq(Message)
    BY DEF IInv, TypeOK, Message
  <2>2. Head(queue) \in Message /\ Tail(queue) \in Seq(Message)
    BY <1>1, <2>1
  <2> QED BY <2>1, <2>2 DEF Message
<1>3. MatchesOf(queue) = {m} \cup MatchesOf(queue')
  BY <1>1, <1>2, MatchesOfTail
<1> HIDE DEF m
<1>4. Ids(MatchesOf(queue)) = {m.id} \cup Ids(MatchesOf(queue')) /\ Ids(dropped') = Ids(dropped) \cup {m.id}
  BY <1>1, <1>3 DEF Ids
<1>5. TypeOK'
  <2>1. faults' \in FaultSet
    <3>1. faults \in FaultSet
      BY DEF IInv, TypeOK
    <3> QED BY ONLY <1>1, <3>1 DEF FaultSet
  <2> QED BY <1>1, <1>2, <2>1 DEF IInv, TypeOK, Message
<1>6. Accounted \subseteq Accounted'
  BY <1>1, <1>4, AccountedIds
<1>7. IndexMatchesDisk' /\ ImportOK'
  BY <1>1 DEF IInv, IndexMatchesDisk, ImportOK, Ids
<1> QED BY <1>1, <1>5, <1>6, <1>7, MainStep

(* Storing an imported match keeps one directory per id.                   *)
LEMMA ImportStores ==
  ASSUME IInv, mainUp, NEW ms \in SUBSET MatchSet, \A m1, m2 \in ms : m1 = m2,
         StoreImported(ms), mainUp' = mainUp, queue' = queue, dropped' = dropped
  PROVE  /\ dirs' \subseteq MatchSet /\ index' \subseteq MatchIds
         /\ dirs \subseteq dirs' /\ Accounted \subseteq Accounted' /\ IndexMatchesDisk'
<1> DEFINE new == {m \in ms : m.id \notin index}
<1>1. dirs' = dirs \cup new /\ index' = index \cup Ids(new)
  BY DEF StoreImported
<1>2. index = Ids(dirs) /\ \A d, e \in dirs : d.id = e.id => d = e
  BY DEF IInv, IndexMatchesDisk
<1>3. dirs' \subseteq MatchSet /\ index' \subseteq MatchIds
  BY <1>1 DEF IInv, TypeOK, MatchSet, Ids
<1>4. Ids(dirs') = Ids(dirs) \cup Ids(new)
  BY <1>1 DEF Ids
<1>5. Accounted \subseteq Accounted'
  BY <1>4, AccountedIds
<1>6. \A d \in dirs, m \in new : d.id # m.id
  BY <1>2 DEF Ids
<1>7. IndexMatchesDisk'
  BY <1>1, <1>2, <1>4, <1>6 DEF IndexMatchesDisk
<1> QED BY <1>1, <1>3, <1>5, <1>7

(* An import starts with a parser of its own. *)
LEMMA ImportStartStep ==
  ASSUME IInv, NEW f \in Files, ImportStart(f)
  PROVE  IInv'
<1>1. /\ mainUp /\ import' = [file |-> f, gen |-> logs[f].gen, pos |-> 0, parser |-> IdleParser]
      /\ faults' = [faults EXCEPT !.imports = @ + 1]
      /\ logs' = logs /\ pipe' = pipe /\ registry' = registry /\ wpc' = wpc /\ agenda' = agenda
      /\ batch' = batch /\ reading' = reading /\ saved' = saved /\ dirty' = dirty
      /\ queue' = queue /\ mainUp' = mainUp /\ index' = index /\ dirs' = dirs
      /\ orphans' = orphans /\ dropped' = dropped /\ announced' = announced /\ cutShort' = cutShort
  BY DEF ImportStart, worker, store, history
<1>2. import' \in ImportSet /\ ImportOK'
  <2>1. logs[f].gen \in Nat
    BY DEF IInv, TypeOK, LogSet
  <2> QED BY <1>1, <2>1, IdleParserOK DEF ImportSet, ParserOK, ImportOK
<1>3. TypeOK'
  <2>1. faults' \in FaultSet
    BY <1>1 DEF IInv, TypeOK, FaultSet
  <2> QED BY <1>1, <1>2, <2>1 DEF IInv, TypeOK
<1>4. Accounted' = Accounted
  BY <1>1, SameAccounted
<1>5. IndexMatchesDisk'
  BY <1>1 DEF IInv, IndexMatchesDisk, Ids
<1> QED BY <1>1, <1>2, <1>3, <1>4, <1>5, MainStep

(* An import reads a line and stores the match it completes. *)
LEMMA ImportLineStep ==
  ASSUME IInv, ImportLine
  PROVE  IInv'
<1> DEFINE n == import.pos + 1
           k == Head(ImportRest)
           r == Push(import.parser, k, n)
           ms == MatchesIn(import.file, import.gen, r.events)
<1>1. /\ import # NotImporting /\ ImportRest # <<>>
      /\ import' = [import EXCEPT !.pos = n, !.parser = r.parser]
      /\ StoreImported(ms)
      /\ logs' = logs /\ pipe' = pipe /\ registry' = registry /\ wpc' = wpc /\ agenda' = agenda
      /\ batch' = batch /\ reading' = reading /\ saved' = saved /\ dirty' = dirty
      /\ queue' = queue /\ mainUp' = mainUp /\ orphans' = orphans /\ dropped' = dropped
      /\ announced' = announced /\ cutShort' = cutShort /\ faults' = faults
  BY DEF ImportLine, worker, history
<1>2. import.file \in Files /\ mainUp /\ ParserOK(import.parser) /\ import \in ImportSet
  BY <1>1 DEF IInv, ImportOK, TypeOK
<1>3. import.gen \in Nat /\ import.pos \in Nat /\ n \in Nat /\ k \in Kinds
  <2>1. import.gen \in Nat /\ import.pos \in Nat
    BY <1>2 DEF ImportSet
  <2>2. logs[import.file] \in LogSet
    BY <1>2 DEF IInv, TypeOK
  <2>3. ImportRest \in Seq(Kinds)
    <3>1. logs[import.file].lines \in Seq(Kinds)
      BY <2>2 DEF LogSet
    <3> QED BY <2>1, <3>1, SMTT(30) DEF ImportRest
  <2> QED BY <1>1, <2>1, <2>3
<1>4. ParserOK(r.parser) /\ r.parser \in Parser
  BY <1>2, <1>3, PushOK DEF ParserOK
<1>5. ms \in SUBSET MatchSet /\ \A m1, m2 \in ms : m1 = m2
  BY <1>2, <1>3, PushMatches
<1> HIDE DEF r, ms, k
<1>6. /\ dirs' \subseteq MatchSet /\ index' \subseteq MatchIds
      /\ Accounted \subseteq Accounted' /\ IndexMatchesDisk'
  BY <1>1, <1>2, <1>5, ImportStores
<1>7. import' \in ImportSet /\ ImportOK'
  BY <1>1, <1>2, <1>3, <1>4 DEF ImportSet, ImportOK
<1>8. TypeOK'
  BY <1>1, <1>6, <1>7 DEF IInv, TypeOK
<1> QED BY <1>1, <1>6, <1>7, <1>8, MainStep

(* An import ends and stores the rounds it has. *)
LEMMA ImportEndStep ==
  ASSUME IInv, ImportEnd
  PROVE  IInv'
<1> DEFINE ms == MatchesIn(import.file, import.gen, EndOfInput(import.parser).events)
<1>1. /\ import # NotImporting /\ import' = NotImporting /\ StoreImported(ms)
      /\ logs' = logs /\ pipe' = pipe /\ registry' = registry /\ wpc' = wpc /\ agenda' = agenda
      /\ batch' = batch /\ reading' = reading /\ saved' = saved /\ dirty' = dirty
      /\ queue' = queue /\ mainUp' = mainUp /\ orphans' = orphans /\ dropped' = dropped
      /\ announced' = announced /\ cutShort' = cutShort \cup ms /\ faults' = faults
  BY DEF ImportEnd, worker, history
<1>2. import.file \in Files /\ mainUp /\ ParserOK(import.parser) /\ import.gen \in Nat
  BY <1>1 DEF IInv, ImportOK, TypeOK, ImportSet
<1>3. ms \in SUBSET MatchSet /\ \A m1, m2 \in ms : m1 = m2
  BY <1>2, EndOfInputMatches
<1> HIDE DEF ms
<1>4. /\ dirs' \subseteq MatchSet /\ index' \subseteq MatchIds
      /\ Accounted \subseteq Accounted' /\ IndexMatchesDisk'
  BY <1>1, <1>2, <1>3, ImportStores
<1>5. NotImporting \in ImportSet
  BY IdleParserOK DEF NotImporting, ImportSet, ParserOK
<1>6. TypeOK'
  BY <1>1, <1>3, <1>4, <1>5 DEF IInv, TypeOK
<1>7. ImportOK'
  BY <1>1 DEF ImportOK, NotImporting
<1> QED BY <1>1, <1>4, <1>6, <1>7, MainStep

(* The end of main takes the worker and the whole channel with it.         *)
LEMMA MainCrashStep ==
  ASSUME IInv, MainCrash
  PROVE  IInv'
<1>1. /\ mainUp' = FALSE /\ import' = NotImporting /\ index' = {} /\ queue' = <<>>
      /\ orphans' = orphans \cup StagedIn(LostAfter(0))
      /\ dropped' = dropped \cup DroppedWith(LostAfter(0))
      /\ faults' = [faults EXCEPT !.main = @ + 1]
      /\ logs' = logs /\ saved' = saved /\ dirs' = dirs /\ announced' = announced /\ cutShort' = cutShort
      /\ WorkerGone
  BY DEF MainCrash
<1>2. 0 \in 0..Len(queue) /\ queue' = SubSeq(queue, 1, 0)
  <2>1. queue \in Seq(Message)
    BY DEF IInv, TypeOK, Message
  <2> QED BY <1>1, <2>1
<1>3. /\ SavedOK' /\ queue' \in Seq(Message)
      /\ StagedIn(LostAfter(0)) \subseteq MatchSet /\ dropped' \subseteq MatchSet
  BY <1>1, <1>2, CrashAccounts
<1>4. ImportOK' /\ IndexMatchesDisk'
  BY <1>1 DEF ImportOK, NotImporting, IInv, IndexMatchesDisk
<1>5. /\ faults' \in FaultSet /\ import' \in ImportSet /\ mainUp' \in BOOLEAN
      /\ index' \subseteq MatchIds /\ orphans' \subseteq MatchSet
  <2>1. faults' \in FaultSet
    <3>1. faults \in FaultSet
      BY DEF IInv, TypeOK
    <3> QED BY ONLY <1>1, <3>1 DEF FaultSet
  <2>2. NotImporting \in ImportSet
    BY IdleParserOK DEF NotImporting, ImportSet, ParserOK
  <2>3. orphans \subseteq MatchSet
    BY DEF IInv, TypeOK
  <2> QED BY <1>1, <1>3, <2>1, <2>2, <2>3
<1> QED BY <1>1, <1>3, <1>4, <1>5, ProcessGone

(* Main starts: the index is read from the disk. *)
LEMMA MainStartStep ==
  ASSUME IInv, MainStart
  PROVE  IInv'
<1>1. /\ ~mainUp /\ mainUp' = TRUE /\ orphans' = {} /\ index' = Ids(dirs)
      /\ logs' = logs /\ pipe' = pipe /\ registry' = registry /\ wpc' = wpc /\ agenda' = agenda
      /\ batch' = batch /\ reading' = reading /\ saved' = saved /\ dirty' = dirty
      /\ queue' = queue /\ import' = import /\ dirs' = dirs /\ dropped' = dropped
      /\ announced' = announced /\ cutShort' = cutShort /\ faults' = faults
  BY DEF MainStart, worker, history
<1>2. Ids(dirs) \subseteq MatchIds
  BY DEF IInv, TypeOK, Ids, MatchSet
<1>3. TypeOK'
  BY <1>1, <1>2 DEF IInv, TypeOK
<1>4. Accounted' = Accounted
  BY <1>1, SameAccounted
<1>5. IndexMatchesDisk' /\ ImportOK'
  BY <1>1 DEF IInv, IndexMatchesDisk, ImportOK, Ids
<1> QED BY <1>1, <1>3, <1>4, <1>5, MainStep
-----------------------------------------------------------------------------
(* The invariant holds at the start: nothing has been read. *)
LEMMA InitInvariant == Init => IInv
<1> SUFFICES ASSUME Init PROVE IInv
  OBVIOUS
<1>1. TypeOK
  <2>1. IdleParser \in Parser
    BY IdleParserOK DEF ParserOK
  <2>2. /\ NotReading \in ReadingSet /\ NotImporting \in ImportSet
        /\ pipe \in [Files -> PipeSet] /\ saved \in [Files -> Checkpoint]
        /\ registry \in [Files -> Checkpoint]
    BY <2>1, StartTyped DEF Init, NotReading, ReadingSet, NotImporting, ImportSet
  <2>3. logs \in [Files -> LogSet] /\ faults \in FaultSet
    BY DEF Init, LogSet, FaultSet
  <2> QED BY <2>2, <2>3 DEF Init, TypeOK
<1>2. \A f \in Files : Upto(f, logs[f], Accounted, 0, 0, IdleParser)
  BY <1>1, StartOK
<1>3. LogsOK
  BY DEF Init, LogsOK, LogOK
<1>4. SavedOK /\ RegistryOK
  BY <1>2 DEF Init, SavedOK, RegistryOK, NoCheckpoint
<1>5. PipesOK
  BY <1>2, StartTyped, IdleParserOK DEF Init, PipesOK
<1>6. ReadingOK /\ ImportOK /\ IndexMatchesDisk
  BY DEF Init, ReadingOK, ImportOK, IndexMatchesDisk, Ids
<1> QED BY <1>1, <1>3, <1>4, <1>5, <1>6 DEF IInv

(* Every step keeps the invariant. *)
LEMMA NextInvariant == IInv /\ [Next]_vars => IInv'
<1> SUFFICES ASSUME IInv, [Next]_vars PROVE IInv'
  OBVIOUS
<1>1. CASE UNCHANGED vars
  <2>1. TypeOK' /\ LogsOK'
    BY <1>1 DEF IInv, TypeOK, LogsOK, vars, worker, store, history
  <2>2. Growth
    BY <1>1, SameLogs, SameAccounted DEF Growth, IInv, vars, store, history
  <2> QED BY <1>1, <2>1, <2>2, Frame DEF IInv, vars, worker, store, history
<1>2. CASE \E f \in Files : GameWrites(f) \/ GameRotates(f) \/ StartFlush(f) \/ ImportStart(f)
  BY <1>2, GameWritesStep, GameRotatesStep, StartFlushStep, ImportStartStep
<1>3. CASE Configure \/ ConfigureBlind \/ Drain \/ FlushLine \/ EndFlush
  BY <1>3, ConfigureStep, DrainStep, FlushLineStep, EndFlushStep
<1>4. CASE SaveCheckpoints \/ SaveFails \/ WorkerCrash
  BY <1>4, SaveStep, WorkerCrashStep
<1>5. CASE ImportLine \/ ImportEnd \/ Commit \/ CommitFails \/ MainCrash \/ MainStart
  BY <1>5, ImportLineStep, ImportEndStep, CommitStep, CommitFailsStep, MainCrashStep, MainStartStep
<1> QED BY <1>1, <1>2, <1>3, <1>4, <1>5 DEF Next

(* Every reachable state of the pipeline satisfies the invariant. *)
THEOREM InductiveInvariant == Spec => []IInv
BY InitInvariant, NextInvariant, PTL DEF Spec
-----------------------------------------------------------------------------
(* Every variable of the pipeline keeps its type. *)
THEOREM TypeCorrect == Spec => []TypeOK
<1>1. IInv => TypeOK
  BY DEF IInv
<1> QED BY <1>1, InductiveInvariant, PTL

(* A saved checkpoint of the log on disk lies outside every match: the     *)
(* parser of a worker that starts there is where a reader of the whole log *)
(* would be (FilePipeline.processFlush moves it only then).                *)
THEOREM CheckpointOutsideMatchHolds == Spec => []CheckpointOutsideMatch
<1>1. IInv => CheckpointOutsideMatch
  BY DEF IInv, CheckpointOutsideMatch, SavedOK, Upto, ParserAt, ParserIn
<1> QED BY <1>1, InductiveInvariant, PTL

(* Whatever crashes, rotations, imports and failing writes come together,  *)
(* a match before a saved checkpoint is in the library or in the channel,  *)
(* or it was dropped: its commit failed, or its message was one of those a *)
(* dying process took with it.                                             *)
THEOREM CheckpointedMatchAccountedHolds == Spec => []CheckpointedMatchAccounted
<1>1. IInv => CheckpointedMatchAccounted
  <2> SUFFICES ASSUME IInv, NEW f \in Files, saved[f].gen = logs[f].gen,
                      NEW m \in Completed(f, saved[f].offset)
               PROVE  m.id \in Accounted
    BY DEF CheckpointedMatchAccounted
  <2>1. saved[f].offset \in Nat
    BY DEF IInv, TypeOK, Checkpoint
  <2>2. m \in CompletedIn(f, logs[f], saved[f].offset)
    BY <2>1, CompletedSame
  <2> QED BY <2>2 DEF IInv, SavedOK, Upto
<1> QED BY <1>1, InductiveInvariant, PTL

(* What was announced as live is on disk. *)
AnnouncedOK == \A j \in DOMAIN announced : announced[j] \in Ids(dirs)

(* StoredOnce, of one step. *)
Once == /\ dirs \subseteq dirs'
        /\ announced' # announced =>
             \E i \in Ids(dirs') \ Ids(dirs) :
               announced' = Append(announced, i) /\ \A j \in DOMAIN announced : announced[j] # i

(* A step that announces nothing. *)
LEMMA NothingAnnounced ==
  ASSUME AnnouncedOK, dirs \subseteq dirs', announced' = announced
  PROVE  AnnouncedOK' /\ Once
BY DEF AnnouncedOK, Once, Ids

(* A message that main takes is announced only if no directory has its id, *)
(* and so only if no earlier announcement did.                             *)
LEMMA CommitAnnounces ==
  ASSUME IInv, AnnouncedOK, Commit
  PROVE  AnnouncedOK' /\ Once
<1> DEFINE m == Head(queue).match
<1>1. index = Ids(dirs)
  BY DEF IInv, IndexMatchesDisk, Commit
<1>2. CASE m.id \in index
  <2>1. dirs' = dirs /\ announced' = announced
    BY <1>2 DEF Commit
  <2> QED BY <2>1, NothingAnnounced
<1>3. CASE m.id \notin index
  <2>1. dirs' = {d \in dirs : d.id # m.id} \cup {m} /\ announced' = Append(announced, m.id)
    BY <1>3 DEF Commit
  <2>2. \A d \in dirs : d.id # m.id
    BY <1>1, <1>3 DEF Ids
  <2>3. dirs \subseteq dirs' /\ m.id \in Ids(dirs') \ Ids(dirs) /\ Ids(dirs) \subseteq Ids(dirs')
    BY <1>1, <1>3, <2>1, <2>2 DEF Ids
  <2>4. \A j \in DOMAIN announced : announced[j] # m.id
    BY <2>3 DEF AnnouncedOK
  <2>5. announced \in Seq(MatchIds)
    BY DEF IInv, TypeOK
  <2> HIDE DEF m
  <2>6. \A j \in DOMAIN announced' :
          \/ j \in DOMAIN announced /\ announced'[j] = announced[j]
          \/ announced'[j] = m.id
    BY <2>1, <2>5
  <2>7. AnnouncedOK'
    BY <2>3, <2>6 DEF AnnouncedOK
  <2> QED BY <2>1, <2>3, <2>4, <2>7 DEF Once
<1> QED BY <1>2, <1>3

(* No step removes or replaces a stored match, and a match is announced as *)
(* live at most once, by the step that stores it (commitStaged and store   *)
(* look at the index first).                                               *)
THEOREM StoredOnceHolds == Spec => StoredOnce
<1>1. Init => IInv /\ AnnouncedOK
  BY InitInvariant DEF Init, AnnouncedOK
<1>2. ASSUME IInv, AnnouncedOK, [Next]_vars PROVE IInv' /\ AnnouncedOK' /\ [Once]_vars
  <2>1. IInv'
    BY <1>2, NextInvariant
  <2>2. CASE Commit
    BY <1>2, <2>1, <2>2, CommitAnnounces
  <2>3. CASE ImportLine
    BY <1>2, <2>1, <2>3, NothingAnnounced DEF ImportLine, StoreImported, history
  <2>4. CASE ImportEnd
    BY <1>2, <2>1, <2>4, NothingAnnounced DEF ImportEnd, StoreImported
  <2>5. CASE \E f \in Files : GameWrites(f) \/ GameRotates(f) \/ StartFlush(f) \/ ImportStart(f)
    <3>1. dirs' = dirs /\ announced' = announced
      BY <2>5 DEF GameWrites, GameRotates, StartFlush, ImportStart, store, history
    <3> QED BY <1>2, <2>1, <3>1, NothingAnnounced
  <2>6. CASE \/ Configure \/ ConfigureBlind \/ Drain \/ FlushLine \/ EndFlush
             \/ SaveCheckpoints \/ SaveFails \/ WorkerCrash
    <3>1. dirs' = dirs /\ announced' = announced
      BY <2>6 DEF Configure, ConfigureBlind, Drain, FlushLine, EndFlush, SaveCheckpoints, SaveFails,
         WorkerCrash, store, history
    <3> QED BY <1>2, <2>1, <3>1, NothingAnnounced
  <2>7. CASE CommitFails \/ MainCrash \/ MainStart \/ UNCHANGED vars
    <3>1. dirs' = dirs /\ announced' = announced
      BY <2>7 DEF CommitFails, MainCrash, MainStart, history, vars, store
    <3> QED BY <1>2, <2>1, <3>1, NothingAnnounced
  <2> QED BY <1>2, <2>2, <2>3, <2>4, <2>5, <2>6, <2>7 DEF Next
<1> QED BY <1>1, <1>2, PTL DEF Spec, StoredOnce, Once
-----------------------------------------------------------------------------
(* A stored match stands for the one match of its log that has its id:     *)
(* where the matches of a log begin shows that no two of them share one.   *)

(* The line a parser's match begins at, its id. *)
FirstLine(p) == IF p.state = "IN_SHUFFLE" /\ p.rounds # <<>>
                THEN p.rounds[1].rawLines[1] ELSE p.current.rawLines[1]

(* The line a match begins at is the last part of its id. *)
BeginsAt(m) == m.id[3]

(* The matches of lg begin after the ends of all earlier ones. *)
Distinct(f, lg) ==
  LET n == Len(lg.lines)
      Ends(i) == CompletedByIn(f, lg, i) # {}
      p == ParserIn(lg, n)
  IN  /\ \A i \in 1..n : \A m \in CompletedByIn(f, lg, i) :
           BeginsAt(m) < i /\ \A h \in 1..(i - 1) : Ends(h) => h < BeginsAt(m)
      /\ HasOpenSegment(p) =>
           FirstLine(p) \in 1..n /\ \A h \in 1..n : Ends(h) => h < FirstLine(p)

(* A match begins where its first segment does, and a line that completes  *)
(* one leaves no match open.                                               *)
LEMMA PushFirst ==
  ASSUME NEW f \in Files, NEW gen \in Nat, NEW p, ParserOK(p), NEW k \in Kinds, NEW n \in Nat
  PROVE  /\ HasOpenSegment(Push(p, k, n).parser) =>
              \/ FirstLine(Push(p, k, n).parser) = n
              \/ HasOpenSegment(p) /\ FirstLine(Push(p, k, n).parser) = FirstLine(p)
         /\ \A m \in MatchesIn(f, gen, Push(p, k, n).events) :
              /\ HasOpenSegment(p) /\ ~HasOpenSegment(Push(p, k, n).parser)
              /\ BeginsAt(m) = FirstLine(p)
<1> DEFINE r == Push(p, k, n)
           q == r.parser
<1> USE DEF HasOpenSegment
<1>0. /\ p \in Parser /\ p.rounds \in Seq(Segment)
      /\ p.state \in {"IDLE", "IN_MATCH", "IN_SHUFFLE"}
      /\ p.state # "IDLE" => p.current \in Segment
  BY DEF ParserOK, Parser
(* No delivery, no match. *)
<1>1. ASSUME \A i \in DOMAIN r.events : ~IsDelivery(r.events[i])
      PROVE  MatchesIn(f, gen, r.events) = {}
  BY <1>1 DEF MatchesIn, IsDelivery
<1>2. CASE k \in Starts /\ p.state # "IN_SHUFFLE"
  <2>0. r = StartLine(p, k, n)
    BY <1>2 DEF Push, Starts
  <2>1. PICK t \in {"open", "DOUBLE_START"} : r = Result(Opened(k, n), <<Event(t, n, <<>>)>>)
    <3>1. CASE p.state = "IDLE"
      <4>1. StartLine(p, k, n) = Result(Opened(k, n), <<Event("open", n, <<>>)>>)
        BY <3>1 DEF StartLine
      <4> QED BY <2>0, <4>1
    <3>2. CASE p.state = "IN_MATCH"
      <4>1. StartLine(p, k, n) = Result(Opened(k, n), <<Event("DOUBLE_START", n, <<>>)>>)
        BY <3>2 DEF StartLine
      <4> QED BY <2>0, <4>1
    <3> QED BY <1>0, <1>2, <3>1, <3>2
  <2>2. FirstLine(q) = n
    <3>1. q = Opened(k, n)
      BY <2>1 DEF Result
    <3>2. q.rounds = <<>> /\ q.current.rawLines = <<n>>
      BY <3>1 DEF Opened, NewSegment
    <3> HIDE DEF q
    <3> QED BY <3>2 DEF FirstLine
  <2>3. r.events = <<Event(t, n, <<>>)>>
    BY <2>1 DEF Result
  <2>4. \A i \in DOMAIN r.events : ~IsDelivery(r.events[i])
    BY <2>3 DEF Event, IsDelivery
  <2> QED BY <1>1, <2>2, <2>4
<1>3. CASE k \in Starts /\ p.state = "IN_SHUFFLE"
  <2> DEFINE done == Append(p.rounds, p.current)
             next == NewSegment("shuffleRound", Len(done), n)
  <2>1. r = Result(NextRound(p, n), <<>>)
    <3>1. StartLine(p, k, n) = Result(NextRound(p, n), <<>>)
      BY <1>3 DEF StartLine
    <3> QED BY <1>3, <3>1 DEF Push, Starts
  <2>2. q = [p EXCEPT !.rounds = done, !.current = next] /\ r.events = <<>>
    BY <2>1 DEF Result, NextRound
  <2>3. q.rounds = done /\ q.state = "IN_SHUFFLE"
    <3> HIDE DEF done, next
    <3> QED BY <1>0, <1>3, <2>2 DEF Parser
  <2>4. done # <<>> /\ done[1] = IF p.rounds = <<>> THEN p.current ELSE p.rounds[1]
    <3>1. /\ Len(done) = Len(p.rounds) + 1 /\ done[Len(p.rounds) + 1] = p.current
          /\ \A i \in 1..Len(p.rounds) : done[i] = p.rounds[i] /\ done \in Seq(Segment)
      BY <1>0, <1>3, AppendAt
    <3>2. Len(p.rounds) \in Nat /\ (p.rounds = <<>> <=> Len(p.rounds) = 0)
      BY <1>0
    <3>3. done # <<>>
      BY <1>0, <1>3, <3>1, <3>2
    <3> HIDE DEF done
    <3>4. CASE p.rounds = <<>>
      BY <3>1, <3>2, <3>3, <3>4
    <3>5. CASE p.rounds # <<>>
      BY <3>1, <3>2, <3>3, <3>5
    <3> QED BY <3>4, <3>5
  <2> HIDE DEF done
  <2>5. FirstLine(q) = FirstLine(p)
    <3> HIDE DEF q
    <3> QED BY <1>3, <2>3, <2>4 DEF FirstLine
  <2>6. MatchesIn(f, gen, r.events) = {}
    BY <1>1, <2>2
  <2> QED BY <1>3, <2>5, <2>6
<1>4. CASE k = "END"
  <2>0. r = EndLine(p, n)
    BY <1>4 DEF Push, Starts
  <2>1. CASE p.state = "IDLE"
    <3>1. r = Result(p, <<Event("ORPHAN_END", n, <<>>)>>)
      BY <2>0, <2>1 DEF EndLine
    <3>2. r.events = <<Event("ORPHAN_END", n, <<>>)>> /\ q = p
      BY <3>1 DEF Result
    <3>3. \A i \in DOMAIN r.events : ~IsDelivery(r.events[i])
      BY <3>2 DEF Event, IsDelivery
    <3> QED BY <1>1, <2>1, <3>2, <3>3
  <2>2. CASE p.state # "IDLE"
    <3>0. PICK t \in {"match", "shuffle"} : \E done :
            /\ r = Result(IdleParser, <<Event(t, n, done), Event("close", n, <<>>)>>)
            /\ done[1].rawLines[1] = FirstLine(p)
      <4>1. CASE p.state = "IN_MATCH"
        <5>1. r = Result(IdleParser, <<Event("match", n, <<p.current>>), Event("close", n, <<>>)>>)
          BY <2>0, <4>1 DEF EndLine
        <5>2. <<p.current>>[1].rawLines[1] = FirstLine(p)
          BY <4>1 DEF FirstLine
        <5> QED BY <5>1, <5>2
      <4>2. CASE p.state = "IN_SHUFFLE"
        <5> DEFINE all == Append(p.rounds, p.current)
        <5>1. r = Result(IdleParser, <<Event("shuffle", n, all), Event("close", n, <<>>)>>)
          BY <2>0, <4>2 DEF EndLine
        <5>2. /\ all[Len(p.rounds) + 1] = p.current
              /\ \A i \in 1..Len(p.rounds) : all[i] = p.rounds[i]
          BY <1>0, <2>2, AppendAt
        <5>3. Len(p.rounds) \in Nat /\ (p.rounds = <<>> <=> Len(p.rounds) = 0)
          BY <1>0
        <5> HIDE DEF all
        <5>4. all[1] = IF p.rounds = <<>> THEN p.current ELSE p.rounds[1]
          <6>1. CASE p.rounds = <<>>
            BY <5>2, <5>3, <6>1
          <6>2. CASE p.rounds # <<>>
            BY <5>2, <5>3, <6>2
          <6> QED BY <6>1, <6>2
        <5>5. all[1].rawLines[1] = FirstLine(p)
          BY <4>2, <5>4 DEF FirstLine
        <5> QED BY <5>1, <5>5
      <4> QED BY <1>0, <2>2, <4>1, <4>2
    <3>1. PICK done : /\ r = Result(IdleParser, <<Event(t, n, done), Event("close", n, <<>>)>>)
                      /\ done[1].rawLines[1] = FirstLine(p)
      BY <3>0
    <3>2. /\ r.events = <<Event(t, n, done), Event("close", n, <<>>)>>
          /\ q.state = "IDLE"
      BY <3>1 DEF Result, IdleParser
    <3> HIDE DEF r, q
    <3>3. /\ DOMAIN r.events = {1, 2} /\ r.events[1].segments = done
          /\ r.events[2].type = "close"
      BY <3>2 DEF Event
    <3>4. \A m \in MatchesIn(f, gen, r.events) : m = MatchOf(f, gen, done)
      BY <3>3 DEF MatchesIn
    <3>5. \A m \in MatchesIn(f, gen, r.events) : BeginsAt(m) = FirstLine(p)
      BY <3>1, <3>4 DEF MatchOf, BeginsAt
    <3> QED BY <2>2, <3>2, <3>5 DEF r, q
  <2> QED BY <2>1, <2>2
<1>5. CASE k = "OTHER"
  <2>0. r = OtherLine(p, n)
    BY <1>5 DEF Push, Starts
  <2>1. r.events = <<>>
    BY <2>0 DEF OtherLine, Result
  <2>2. MatchesIn(f, gen, r.events) = {}
    BY <1>1, <2>1
  <2>3. CASE p.state = "IDLE"
    BY <2>0, <2>2, <2>3 DEF OtherLine, Result
  <2>4. CASE p.state # "IDLE"
    <3> DEFINE rec == [line |-> n, lineIndex |-> Len(p.current.rawLines)]
               seg == [p.current EXCEPT !.records  = Append(@, rec),
                                        !.rawLines = Append(@, n)]
    <3>1. q = [p EXCEPT !.current = seg]
      <4>1. OtherLine(p, n) = Result([p EXCEPT !.current = seg], <<>>)
        BY <2>4 DEF OtherLine, ParserOK, Parser, Result
      <4> QED BY <2>0, <4>1 DEF Result
    <3>2. seg.rawLines = Append(p.current.rawLines, n)
      BY <1>0, <2>4 DEF Segment
    <3>3. p.current.rawLines \in Seq(Nat) /\ Len(p.current.rawLines) >= 1
      BY <1>0, <2>4 DEF Segment
    <3>4. seg.rawLines[1] = p.current.rawLines[1]
      <4> HIDE DEF seg
      <4> QED BY <3>2, <3>3, AppendAt
    <3> HIDE DEF seg
    <3>5. q.state = p.state /\ q.rounds = p.rounds /\ q.current = seg
      BY <1>0, <3>1 DEF Parser
    <3> HIDE DEF q
    <3>6. FirstLine(q) = FirstLine(p)
      BY <3>4, <3>5 DEF FirstLine
    <3> QED BY <2>2, <2>4, <3>6 DEF q
  <2> QED BY <2>3, <2>4
<1> QED BY <1>2, <1>3, <1>4, <1>5 DEF Kinds

(* One more line keeps the matches of a log apart. *)
LEMMA DistinctAppend ==
  ASSUME NEW f \in Files, NEW lg \in LogSet, LogOK(lg), NEW k \in Kinds, NEW lg2 \in LogSet,
         Appended(lg, k, lg2), Distinct(f, lg)
  PROVE  Distinct(f, lg2)
<1> DEFINE n == Len(lg.lines)
           p == ParserIn(lg, n)
           r == Push(p, k, n + 1)
           q == r.parser
<1>1. /\ lg.lines \in Seq(Kinds) /\ lg.parsers \in Seq(Parser) /\ n \in Nat
      /\ Len(lg.parsers) = n /\ lg.gen \in Nat
  BY DEF LogSet, LogOK
<1>2. ParserOK(p) /\ q \in Parser
  <2>1. ParserOK(p)
    BY <1>1, ParserInOK
  <2> QED BY <1>1, <2>1, PushOK DEF ParserOK
<1>3. lg2.lines = Append(lg.lines, k) /\ lg2.parsers = Append(lg.parsers, q) /\ lg2.gen = lg.gen
  BY DEF LogSet, Appended
<1>4. /\ HasOpenSegment(q) =>
           FirstLine(q) = n + 1 \/ (HasOpenSegment(p) /\ FirstLine(q) = FirstLine(p))
      /\ \A m \in MatchesIn(f, lg.gen, r.events) :
           HasOpenSegment(p) /\ ~HasOpenSegment(q) /\ BeginsAt(m) = FirstLine(p)
  <2>1. n + 1 \in Nat /\ lg.gen \in Nat /\ ParserOK(p)
    BY <1>1, <1>2
  <2> HIDE DEF p, n
  <2>2. HasOpenSegment(r.parser) =>
          FirstLine(r.parser) = n + 1 \/ (HasOpenSegment(p) /\ FirstLine(r.parser) = FirstLine(p))
    BY <2>1, PushFirst
  <2>3. \A m \in MatchesIn(f, lg.gen, r.events) :
          HasOpenSegment(p) /\ ~HasOpenSegment(r.parser) /\ BeginsAt(m) = FirstLine(p)
    BY <2>1, PushFirst
  <2> QED BY <2>2, <2>3
<1> HIDE DEF q, r
<1>5. /\ Len(lg2.lines) = n + 1 /\ lg2.lines[n + 1] = k /\ lg2.parsers[n + 1] = q
      /\ \A i \in 1..n : lg2.lines[i] = lg.lines[i] /\ lg2.parsers[i] = lg.parsers[i]
  BY <1>1, <1>2, <1>3, AppendAt
<1>6. (\A i \in 0..n : ParserIn(lg2, i) = ParserIn(lg, i)) /\ ParserIn(lg2, n + 1) = q
  BY <1>1, <1>5 DEF ParserIn
<1>7. \A i \in 1..n : CompletedByIn(f, lg2, i) = CompletedByIn(f, lg, i)
  BY <1>1, <1>3, <1>5, <1>6 DEF CompletedByIn
<1>8. CompletedByIn(f, lg2, n + 1) = MatchesIn(f, lg.gen, r.events)
  <2>1. (n + 1) - 1 = n /\ ParserIn(lg2, n) = p
    BY <1>1, <1>6
  <2> QED BY <1>3, <1>5, <2>1 DEF CompletedByIn, r
<1>9. /\ \A i \in 1..n : \A m \in CompletedByIn(f, lg, i) :
           BeginsAt(m) < i /\ \A h \in 1..(i - 1) : CompletedByIn(f, lg, h) # {} => h < BeginsAt(m)
      /\ HasOpenSegment(p) =>
           FirstLine(p) \in 1..n /\ \A h \in 1..n : CompletedByIn(f, lg, h) # {} => h < FirstLine(p)
  BY DEF Distinct
<1> HIDE DEF p, n
<1>10. ASSUME NEW i \in 1..(n + 1), NEW m \in CompletedByIn(f, lg2, i)
       PROVE  BeginsAt(m) < i /\ \A h \in 1..(i - 1) : CompletedByIn(f, lg2, h) # {} => h < BeginsAt(m)
  <2>1. CASE i \in 1..n
    <3>1. \A h \in 1..(i - 1) : h \in 1..n
      BY <1>1, <2>1
    <3> QED BY <1>7, <1>9, <1>10, <2>1, <3>1
  <2>2. CASE i = n + 1
    <3>1. HasOpenSegment(p)
      BY <1>4, <1>8, <1>10, <2>2
    <3>2. BeginsAt(m) = FirstLine(p)
      BY <1>4, <1>8, <1>10, <2>2
    <3>3. 1..(i - 1) = 1..n
      BY <1>1, <2>2
    <3>4. FirstLine(p) \in 1..n /\ \A h \in 1..n : CompletedByIn(f, lg, h) # {} => h < FirstLine(p)
      BY <1>9, <3>1
    <3>5. BeginsAt(m) < i
      BY <1>1, <2>2, <3>2, <3>4
    <3> QED BY <1>7, <3>2, <3>3, <3>4, <3>5
  <2> QED BY <1>1, <2>1, <2>2
<1>11. ASSUME HasOpenSegment(q)
       PROVE  /\ FirstLine(q) \in 1..(n + 1)
              /\ \A h \in 1..(n + 1) : CompletedByIn(f, lg2, h) # {} => h < FirstLine(q)
  <2>1. CompletedByIn(f, lg2, n + 1) = {}
    BY <1>4, <1>8, <1>11
  <2>2. ASSUME NEW h \in 1..(n + 1), CompletedByIn(f, lg2, h) # {}
        PROVE  h \in 1..n /\ CompletedByIn(f, lg, h) # {}
    <3>1. h # n + 1
      BY <2>1, <2>2
    <3>2. h \in 1..n
      BY <1>1, <3>1
    <3> QED BY <1>7, <2>2, <3>2
  <2>3. CASE FirstLine(q) = n + 1
    <3>1. \A h \in 1..n : h < n + 1
      BY <1>1
    <3> QED BY <1>1, <2>2, <2>3, <3>1
  <2>4. CASE HasOpenSegment(p) /\ FirstLine(q) = FirstLine(p)
    <3>1. FirstLine(q) \in 1..n /\ \A h \in 1..n : CompletedByIn(f, lg, h) # {} => h < FirstLine(q)
      BY <1>9, <2>4
    <3> QED BY <1>1, <2>2, <3>1
  <2> QED BY <1>4, <1>11, <2>3, <2>4
<1> QED BY <1>5, <1>6, <1>10, <1>11 DEF Distinct

(* So no two matches of a log have one id.                                 *)
LEMMA DistinctIds ==
  ASSUME NEW f \in Files, NEW lg \in LogSet, LogOK(lg), Distinct(f, lg),
         NEW m1 \in CompletedIn(f, lg, Len(lg.lines)),
         NEW m2 \in CompletedIn(f, lg, Len(lg.lines)), m1.id = m2.id
  PROVE  m1 = m2
<1> DEFINE n == Len(lg.lines)
<1>0. n \in Nat /\ lg.gen \in Nat /\ lg.lines \in Seq(Kinds)
  BY DEF LogSet
<1>1. PICK i \in 1..n : m1 \in CompletedByIn(f, lg, i)
  BY DEF CompletedIn
<1>2. PICK j \in 1..n : m2 \in CompletedByIn(f, lg, j)
  BY DEF CompletedIn
<1>3. \A h \in 1..n : /\ CompletedByIn(f, lg, h) \subseteq MatchSet
                      /\ \A a, b \in CompletedByIn(f, lg, h) : a = b
  <2> SUFFICES ASSUME NEW h \in 1..n
               PROVE  /\ CompletedByIn(f, lg, h) \subseteq MatchSet
                      /\ \A a, b \in CompletedByIn(f, lg, h) : a = b
    OBVIOUS
  <2>1. ParserOK(ParserIn(lg, h - 1)) /\ lg.lines[h] \in Kinds /\ h \in Nat
    BY <1>0, ParserInOK
  <2> QED BY <1>0, <2>1, PushMatches DEF CompletedByIn
<1>4. BeginsAt(m1) < i /\ \A h \in 1..(i - 1) : CompletedByIn(f, lg, h) # {} => h < BeginsAt(m1)
  BY <1>1 DEF Distinct
<1>5. BeginsAt(m2) < j /\ \A h \in 1..(j - 1) : CompletedByIn(f, lg, h) # {} => h < BeginsAt(m2)
  BY <1>2 DEF Distinct
<1>6. BeginsAt(m1) \in Nat /\ BeginsAt(m2) = BeginsAt(m1)
  BY <1>1, <1>3 DEF MatchSet, MatchIds, BeginsAt
<1> HIDE DEF n
<1>7. ~(i < j) /\ ~(j < i)
  <2>1. ASSUME i < j PROVE FALSE
    <3>1. i \in 1..(j - 1)
      BY <1>0, <2>1
    <3>2. i < BeginsAt(m2)
      BY <1>1, <1>5, <3>1
    <3> QED BY <1>0, <1>4, <1>6, <3>2
  <2>2. ASSUME j < i PROVE FALSE
    <3>1. j \in 1..(i - 1)
      BY <1>0, <2>2
    <3>2. j < BeginsAt(m1)
      BY <1>2, <1>4, <3>1
    <3> QED BY <1>0, <1>5, <1>6, <3>2
  <2> QED BY <2>1, <2>2
<1>8. i = j
  BY <1>0, <1>7
<1> QED BY <1>1, <1>2, <1>3, <1>8

DistinctOK == \A f \in Files : Distinct(f, logs[f])

(* Two matches of the log on disk never have one id. *)
MatchesApart ==
  \A f \in Files : \A m1, m2 \in Completed(f, Len(logs[f].lines)) : m1.id = m2.id => m1 = m2

(* Only the game's writes bear on that. *)
LEMMA NextDistinct ==
  ASSUME IInv, DistinctOK, [Next]_vars
  PROVE  DistinctOK'
<1>1. CASE \E f \in Files : GameWrites(f)
  <2>1. PICK f \in Files : GameWrites(f)
    BY <1>1
  <2>2. PICK k \in Kinds, lg2 \in LogSet :
          Appended(logs[f], k, lg2) /\ logs' = [logs EXCEPT ![f] = lg2]
    BY <2>1, WritesAppend
  <2>3. logs[f] \in LogSet /\ LogOK(logs[f]) /\ Distinct(f, logs[f])
    BY DEF IInv, TypeOK, LogsOK, DistinctOK
  <2>4. Distinct(f, lg2)
    BY <2>2, <2>3, DistinctAppend
  <2>5. \A g \in Files : logs'[g] = IF g = f THEN lg2 ELSE logs[g]
    BY <2>2 DEF IInv, TypeOK
  <2> QED BY <2>4, <2>5 DEF DistinctOK
<1>2. CASE \E f \in Files : GameRotates(f)
  <2>1. PICK f \in Files : GameRotates(f)
    BY <1>2
  <2> DEFINE lg2 == [gen |-> logs[f].gen + 1, lines |-> <<>>, parsers |-> <<>>]
  <2>2. Distinct(f, lg2)
    BY DEF Distinct, ParserIn, IdleParser, HasOpenSegment
  <2>3. \A g \in Files : logs'[g] = IF g = f THEN lg2 ELSE logs[g]
    BY <2>1 DEF GameRotates, IInv, TypeOK
  <2> HIDE DEF lg2
  <2> QED BY <2>2, <2>3 DEF DistinctOK
<1>3. CASE logs' = logs
  BY <1>3 DEF DistinctOK
<1>4. [Next]_vars => \/ \E f \in Files : GameWrites(f) \/ GameRotates(f)
                     \/ logs' = logs
  BY DEF Next, vars, StartFlush, ImportStart, Configure, ConfigureBlind, Drain, FlushLine, EndFlush,
     SaveCheckpoints, SaveFails, ImportLine, ImportEnd, WorkerCrash, Commit, CommitFails, MainCrash,
     MainStart
<1> QED BY <1>1, <1>2, <1>3, <1>4

(* An id names one match of its log: the first line of the first segment   *)
(* tells the matches of a log apart (the store keys everything by it), so  *)
(* that a match dropped as "already indexed" is one that is stored.        *)
THEOREM MatchesApartHolds == Spec => []MatchesApart
<1>1. Init => IInv /\ DistinctOK
  <2>1. Init => DistinctOK
    BY DEF Init, DistinctOK, Distinct, ParserIn, IdleParser, HasOpenSegment
  <2> QED BY <2>1, InitInvariant
<1>2. IInv /\ DistinctOK /\ [Next]_vars => IInv' /\ DistinctOK'
  BY NextInvariant, NextDistinct
<1>3. IInv /\ DistinctOK => MatchesApart
  <2> SUFFICES ASSUME IInv, DistinctOK, NEW f \in Files,
                      NEW m1 \in Completed(f, Len(logs[f].lines)),
                      NEW m2 \in Completed(f, Len(logs[f].lines)), m1.id = m2.id
               PROVE  m1 = m2
    BY DEF MatchesApart
  <2>1. logs[f] \in LogSet /\ LogOK(logs[f]) /\ Distinct(f, logs[f]) /\ Len(logs[f].lines) \in Nat
    BY DEF IInv, TypeOK, LogsOK, DistinctOK, LogSet
  <2>2. /\ m1 \in CompletedIn(f, logs[f], Len(logs[f].lines))
        /\ m2 \in CompletedIn(f, logs[f], Len(logs[f].lines))
    BY <2>1, CompletedSame
  <2> QED BY <2>1, <2>2, DistinctIds
<1> QED BY <1>1, <1>2, <1>3, PTL DEF Spec
-----------------------------------------------------------------------------
(* m is a match of the log on disk, or of an earlier one (of f). *)
Known(f, lg, m) ==
  m.id[1] = f => /\ m.id[2] <= lg.gen
                 /\ m.id[2] = lg.gen => m \in CompletedIn(f, lg, Len(lg.lines))

(* The import in progress reads the log on disk from its beginning, or one *)
(* that was replaced.                                                      *)
ImportReads ==
  LET lg == logs[import.file]
  IN  import # NotImporting =>
        /\ import.gen <= lg.gen
        /\ import.gen = lg.gen =>
             import.pos <= Len(lg.lines) /\ import.parser = ParserIn(lg, import.pos)

(* What is stored or posted is a whole match of its log, but for what      *)
(* imports delivered from logs that ended inside a match.                  *)
KnownOK == \A m \in dirs \cup MatchesOf(queue) :
             m \in cutShort \/ \A f \in Files : Known(f, logs[f], m)
WholeInv == IInv /\ KnownOK /\ ImportReads

(* A known match stays known when the log grows. *)
LEMMA KnownGrows ==
  ASSUME NEW f \in Files, NEW lg \in LogSet, NEW lg2 \in LogSet, Grows(lg, lg2),
         NEW m \in MatchSet, Known(f, lg, m)
  PROVE  Known(f, lg2, m)
<1>1. /\ lg.gen \in Nat /\ lg2.gen \in Nat /\ Len(lg.lines) \in Nat /\ Len(lg2.lines) \in Nat
      /\ m.id[2] \in Nat
  BY DEF LogSet, MatchSet, MatchIds
<1>2. CASE lg.gen < lg2.gen
  BY <1>1, <1>2 DEF Known
<1>3. CASE ~(lg.gen < lg2.gen)
  <2>1. /\ lg.gen = lg2.gen /\ Len(lg.lines) <= Len(lg2.lines)
        /\ \A i \in 1..Len(lg.lines) :
             lg2.lines[i] = lg.lines[i] /\ lg2.parsers[i] = lg.parsers[i]
    BY <1>3 DEF Grows
  <2>2. \A i \in 0..Len(lg.lines) : ParserIn(lg2, i) = ParserIn(lg, i)
    BY <1>1, <2>1 DEF ParserIn
  <2>3. \A i \in 1..Len(lg.lines) : CompletedByIn(f, lg2, i) = CompletedByIn(f, lg, i)
    BY <1>1, <2>1, <2>2 DEF CompletedByIn
  <2>4. 1..Len(lg.lines) \subseteq 1..Len(lg2.lines)
    BY <1>1, <2>1
  <2>5. CompletedIn(f, lg, Len(lg.lines)) \subseteq CompletedIn(f, lg2, Len(lg2.lines))
    BY <2>3, <2>4 DEF CompletedIn
  <2> QED BY <2>1, <2>5 DEF Known
<1> QED BY <1>2, <1>3

(* The id of a match names the log and the generation it comes from. *)
LEMMA MatchComesFrom ==
  ASSUME NEW f \in Files, NEW gen \in Nat, NEW es, NEW m \in MatchesIn(f, gen, es)
  PROVE  m.id[1] = f /\ m.id[2] = gen
BY DEF MatchesIn, MatchOf

(* A match of an earlier generation is known, and so is one that a line of *)
(* the log on disk completes.                                              *)
LEMMA EarlierKnown ==
  ASSUME NEW f \in Files, NEW g \in Files, NEW lg \in LogSet, NEW gen \in Nat, NEW es,
         NEW m \in MatchesIn(f, gen, es), f = g => gen < lg.gen
  PROVE  Known(g, lg, m)
<1>1. m.id[1] = f /\ m.id[2] = gen /\ lg.gen \in Nat
  BY MatchComesFrom DEF LogSet
<1> QED BY <1>1 DEF Known

LEMMA LineKnown ==
  ASSUME NEW f \in Files, NEW g \in Files, NEW lg \in LogSet, NEW gen \in Nat, NEW n \in Nat, NEW es,
         f = g /\ gen = lg.gen => n \in 1..Len(lg.lines) /\ MatchesIn(f, gen, es) = CompletedByIn(f, lg, n),
         NEW m \in MatchesIn(f, gen, es), f = g => gen <= lg.gen
  PROVE  Known(g, lg, m)
<1>1. m.id[1] = f /\ m.id[2] = gen /\ lg.gen \in Nat
  <2>1. m \in MatchesIn(f, gen, es) /\ f \in Files /\ gen \in Nat /\ lg \in LogSet
    OBVIOUS
  <2> QED BY ONLY <2>1, MatchComesFrom DEF LogSet
<1>2. ASSUME f = g, gen = lg.gen PROVE m \in CompletedIn(f, lg, Len(lg.lines))
  BY <1>2 DEF CompletedIn
<1> QED BY <1>1, <1>2 DEF Known

(* What Emit posts is among what it is given. *)
LEMMA EmitPosts ==
  ASSUME TypeOK, NEW ms \in SUBSET MatchSet, Emit(ms)
  PROVE  MatchesOf(queue') \subseteq MatchesOf(queue) \cup ms
<1> DEFINE fresh == {m \in ms : m.id \notin Ids(dirs)}
<1>1. queue \in Seq(Message)
  BY DEF TypeOK, Message
<1>2. CASE fresh = {}
  BY <1>2 DEF Emit
<1>3. CASE fresh # {}
  <2>1. PICK m \in fresh : queue' = Append(queue, Msg("staged", m)) \/ queue' = Append(queue, Msg("full", m))
    BY <1>3 DEF Emit
  <2>2. PICK e \in Message : e.match = m /\ queue' = Append(queue, e)
    <3>1. Msg("staged", m) \in Message /\ Msg("full", m) \in Message
      BY DEF Msg, Message
    <3>2. Msg("staged", m).match = m /\ Msg("full", m).match = m
      BY DEF Msg
    <3> QED BY <2>1, <3>1, <3>2
  <2>3. MatchesOf(queue') = MatchesOf(queue) \cup {m}
    BY <1>1, <2>2, MatchesOfAppend
  <2> QED BY <2>3
<1> QED BY <1>2, <1>3
-----------------------------------------------------------------------------
(* A step that leaves the logs alone and stores or posts nothing but       *)
(* matches that are known, or that an import cut short.                    *)
LEMMA NothingNew ==
  ASSUME WholeInv, IInv', logs' = logs, ImportReads', cutShort \subseteq cutShort',
         \A m \in dirs' \cup MatchesOf(queue') :
           \/ m \in dirs \cup MatchesOf(queue)
           \/ m \in cutShort'
           \/ \A g \in Files : Known(g, logs[g], m)
  PROVE  WholeInv'
<1>1. KnownOK'
  BY DEF WholeInv, KnownOK
<1> QED BY <1>1 DEF WholeInv

LEMMA SameImport ==
  ASSUME WholeInv, logs' = logs, import' = import
  PROVE  ImportReads'
BY DEF WholeInv, ImportReads

LEMMA NoImport == ASSUME import' = NotImporting PROVE ImportReads'
BY DEF ImportReads, NotImporting

(* What is stored and posted is typed. *)
LEMMA StoreTyped ==
  ASSUME IInv
  PROVE  dirs \cup MatchesOf(queue) \subseteq MatchSet
<1>1. queue \in Seq(Message) /\ dirs \subseteq MatchSet
  BY DEF IInv, TypeOK, Message
<1>2. \A i \in DOMAIN queue : queue[i] \in Message
  BY <1>1
<1> QED BY <1>1, <1>2 DEF MatchesOf, Message

(* A reader of a log that only grew is where it was. *)
LEMMA ReadsGrown ==
  ASSUME NEW lg \in LogSet, NEW lg2 \in LogSet, Grows(lg, lg2), NEW n \in Nat, n <= Len(lg.lines),
         lg.gen = lg2.gen
  PROVE  n <= Len(lg2.lines) /\ ParserIn(lg2, n) = ParserIn(lg, n)
<1>1. /\ lg.gen \in Nat /\ Len(lg.lines) \in Nat /\ Len(lg2.lines) \in Nat
  BY DEF LogSet
<1>2. /\ Len(lg.lines) <= Len(lg2.lines)
      /\ \A i \in 1..Len(lg.lines) : lg2.parsers[i] = lg.parsers[i]
  BY <1>1 DEF Grows
<1> QED BY <1>1, <1>2 DEF ParserIn

(* The game: the matches known stay known. *)
LEMMA GameKeepsWhole ==
  ASSUME WholeInv, IInv', \A f \in Files : Grows(logs[f], logs'[f]),
         dirs' = dirs, queue' = queue, import' = import, cutShort' = cutShort
  PROVE  WholeInv'
<1>1. \A g \in Files : logs[g] \in LogSet /\ logs'[g] \in LogSet
  BY DEF WholeInv, IInv, TypeOK
<1>2. MatchesOf(queue') = MatchesOf(queue)
  OBVIOUS
<1>3. KnownOK'
  <2>1. \A m \in dirs \cup MatchesOf(queue) : m \in MatchSet
    BY StoreTyped DEF WholeInv
  <2>2. \A m \in dirs \cup MatchesOf(queue) :
          m \in cutShort \/ \A g \in Files : Known(g, logs'[g], m)
    BY <1>1, <2>1, KnownGrows DEF WholeInv, KnownOK
  <2> QED BY <1>2, <2>2 DEF KnownOK
<1>4. ImportReads'
  <2> SUFFICES ASSUME import # NotImporting PROVE ImportReads'
    BY NoImport
  <2> DEFINE f == import.file
  <2>1. f \in Files
    BY DEF WholeInv, IInv, ImportOK
  <2>2. import.gen \in Nat /\ import.pos \in Nat
    BY DEF WholeInv, IInv, TypeOK, ImportSet
  <2>3. /\ import.gen <= logs[f].gen
        /\ import.gen = logs[f].gen =>
             import.pos <= Len(logs[f].lines) /\ import.parser = ParserIn(logs[f], import.pos)
    BY DEF WholeInv, ImportReads
  <2>4. logs[f] \in LogSet /\ logs'[f] \in LogSet /\ Grows(logs[f], logs'[f])
    BY <1>1, <2>1
  <2>5. logs[f].gen \in Nat /\ logs'[f].gen \in Nat /\ logs[f].gen <= logs'[f].gen
    BY <2>4 DEF LogSet, Grows
  <2> HIDE DEF f
  <2>6. import.gen <= logs'[f].gen
    BY <2>2, <2>3, <2>5
  <2>7. ASSUME import.gen = logs'[f].gen
        PROVE  import.pos <= Len(logs'[f].lines) /\ import.parser = ParserIn(logs'[f], import.pos)
    <3>1. import.gen = logs[f].gen /\ logs[f].gen = logs'[f].gen
      BY <2>2, <2>3, <2>5, <2>7
    <3> QED BY <2>2, <2>3, <2>4, <3>1, ReadsGrown
  <2> QED BY <2>6, <2>7 DEF ImportReads, f
<1> QED BY <1>3, <1>4 DEF WholeInv

LEMMA GameWritesWhole ==
  ASSUME WholeInv, IInv', NEW f \in Files, GameWrites(f)
  PROVE  WholeInv'
<1>1. PICK k \in Kinds, lg2 \in LogSet :
        /\ logs' = [logs EXCEPT ![f] = lg2]
        /\ Grows(logs[f], lg2)
  BY WritesAppend DEF WholeInv
<1>2. dirs' = dirs /\ queue' = queue /\ import' = import /\ cutShort' = cutShort
  BY DEF GameWrites, store, history
<1>3. \A g \in Files : Grows(logs[g], logs'[g])
  BY <1>1, OneGrows DEF WholeInv, IInv
<1> QED BY <1>2, <1>3, GameKeepsWhole

LEMMA GameRotatesWhole ==
  ASSUME WholeInv, IInv', NEW f \in Files, GameRotates(f)
  PROVE  WholeInv'
<1> DEFINE lg2 == [gen |-> logs[f].gen + 1, lines |-> <<>>, parsers |-> <<>>]
<1>1. logs[f] \in LogSet
  BY DEF WholeInv, IInv, TypeOK
<1>2. lg2 \in LogSet /\ Grows(logs[f], lg2)
  BY <1>1, LogReplaced
<1>3. /\ logs' = [logs EXCEPT ![f] = lg2] /\ dirs' = dirs /\ queue' = queue /\ import' = import
      /\ cutShort' = cutShort
  BY DEF GameRotates, store, history
<1> HIDE DEF lg2
<1>4. \A g \in Files : Grows(logs[g], logs'[g])
  BY <1>2, <1>3, OneGrows DEF WholeInv, IInv
<1> QED BY <1>3, <1>4, GameKeepsWhole

(* What the end of a replaced log delivers belongs to the old generation. *)
LEMMA StartFlushWhole ==
  ASSUME WholeInv, IInv', NEW f \in Files, StartFlush(f)
  PROVE  WholeInv'
<1> DEFINE p == PipelineFor(f)
           rotated == RotatedSince(p, f)
           es == EndOfInput(p.parser).events
           ms == IF rotated THEN MatchesIn(f, p.gen, es) ELSE {}
<1>1. /\ Emit(ms) /\ reading = NotReading
      /\ logs' = logs /\ dirs' = dirs /\ import' = import /\ cutShort' = cutShort
  BY DEF StartFlush, store, history
<1>2. /\ p \in PipeSet /\ ParserOK(p.parser)
      /\ Upto(f, logs[f], Accounted, p.gen, p.offset, p.parser)
  BY <1>1, PipelineForOK DEF WholeInv
<1>3. p.gen \in Nat /\ logs[f] \in LogSet
  BY <1>2 DEF PipeSet, WholeInv, IInv, TypeOK
<1>4. ms \in SUBSET MatchSet
  BY <1>2, <1>3, EndOfInputMatches
<1>5. rotated => p.gen < logs[f].gen
  <2>1. p.gen <= logs[f].gen /\ (p.gen = logs[f].gen => p.offset <= Len(logs[f].lines))
    BY <1>2 DEF Upto
  <2>2. ChecksumOf(f) \in {0, logs[f].gen} /\ Len(logs[f].lines) \in Nat /\ p.offset \in Nat
    BY <1>2, <1>3 DEF ChecksumOf, LogSet, PipeSet
  <2> HIDE DEF p
  <2> QED BY <1>3, <2>1, <2>2 DEF RotatedSince, LogSet
<1>6. \A m \in ms : \A g \in Files : Known(g, logs[g], m)
  <2> SUFFICES ASSUME rotated, NEW m \in MatchesIn(f, p.gen, es), NEW g \in Files
               PROVE  Known(g, logs[g], m)
    OBVIOUS
  <2>1. logs[g] \in LogSet /\ (f = g => p.gen < logs[g].gen)
    BY <1>5 DEF WholeInv, IInv, TypeOK
  <2> HIDE DEF p, es
  <2> QED BY <1>3, <2>1, EarlierKnown
<1> HIDE DEF ms
<1>7. MatchesOf(queue') \subseteq MatchesOf(queue) \cup ms
  BY <1>1, <1>4, EmitPosts DEF WholeInv, IInv
<1> QED BY <1>1, <1>6, <1>7, NothingNew, SameImport

(* What a line delivers is what it completes, if it is of the log on disk. *)
LEMMA FlushLineWhole ==
  ASSUME WholeInv, IInv', FlushLine
  PROVE  WholeInv'
<1> DEFINE f == reading.file
           lg == logs[f]
           p == pipe[f].parser
           k == Head(reading.todo)
           n == reading.pos + 1
           es == Push(p, k, n).events
           ms == MatchesIn(f, reading.gen, es)
<1>1. /\ reading # NotReading /\ reading.todo # <<>> /\ Emit(ms)
      /\ logs' = logs /\ dirs' = dirs /\ import' = import /\ cutShort' = cutShort
  BY DEF FlushLine, store, history
<1>2. FlushOK(f) /\ f \in Files
  BY <1>1 DEF WholeInv, IInv, ReadingOK, FlushOK
<1>3. /\ lg \in LogSet /\ LogOK(lg) /\ pipe[f] \in PipeSet /\ ParserOK(p)
      /\ reading \in ReadingSet
  BY <1>2 DEF WholeInv, IInv, TypeOK, LogsOK, PipesOK
<1>4. /\ reading.gen \in Nat /\ reading.pos \in Nat /\ n \in Nat
      /\ reading.todo \in Seq(Kinds) /\ k \in Kinds
  BY <1>1, <1>3 DEF ReadingSet
<1>5. ms \in SUBSET MatchSet
  BY <1>2, <1>3, <1>4, PushMatches
<1>6. /\ reading.gen <= lg.gen
      /\ reading.gen = lg.gen => p = ParserIn(lg, reading.pos) /\ ReadsOn(lg, reading.pos, reading.todo)
  BY <1>2 DEF FlushOK, Upto
<1>7. reading.gen = lg.gen => n \in 1..Len(lg.lines) /\ ms = CompletedByIn(f, lg, n)
  <2> SUFFICES ASSUME reading.gen = lg.gen
               PROVE  n \in 1..Len(lg.lines) /\ ms = CompletedByIn(f, lg, n)
    OBVIOUS
  <2>1. n <= Len(lg.lines) /\ lg.lines[n] = k
    BY <1>1, <1>3, <1>4, <1>6, ReadsOnTail
  <2>2. n \in 1..Len(lg.lines) /\ n - 1 = reading.pos
    <3>1. lg.lines \in Seq(Kinds)
      BY <1>3 DEF LogSet
    <3>2. Len(lg.lines) \in Nat
      BY ONLY <3>1
    <3> HIDE DEF lg
    <3> QED BY <1>4, <2>1, <3>2, SMTT(30)
  <2> QED BY <1>6, <2>1, <2>2 DEF CompletedByIn
<1>8. \A m \in ms : \A g \in Files : Known(g, logs[g], m)
  <2> SUFFICES ASSUME NEW m \in ms, NEW g \in Files PROVE Known(g, logs[g], m)
    OBVIOUS
  <2>1. logs[g] \in LogSet
    BY DEF WholeInv, IInv, TypeOK
  <2> HIDE DEF es, n, p, k
  <2> QED BY <1>2, <1>4, <1>6, <1>7, <2>1, LineKnown
<1> HIDE DEF ms
<1>9. MatchesOf(queue') \subseteq MatchesOf(queue) \cup ms
  BY <1>1, <1>5, EmitPosts DEF WholeInv, IInv
<1> QED BY <1>1, <1>8, <1>9, NothingNew, SameImport

(* Main stores what was posted, or drops it. *)
LEMMA CommitWhole ==
  ASSUME WholeInv, IInv', Commit \/ CommitFails
  PROVE  WholeInv'
<1>1. /\ queue # <<>> /\ queue' = Tail(queue) /\ logs' = logs /\ import' = import
      /\ dirs' \subseteq dirs \cup {Head(queue).match} /\ cutShort' = cutShort
  BY DEF Commit, CommitFails
<1>2. queue \in Seq(Message)
  BY DEF WholeInv, IInv, TypeOK, Message
<1>3. MatchesOf(queue) = {Head(queue).match} \cup MatchesOf(queue')
  BY <1>1, <1>2, MatchesOfTail
<1> QED BY <1>1, <1>3, NothingNew, SameImport

(* An import starts at the beginning of the log on disk. *)
LEMMA ImportStartWhole ==
  ASSUME WholeInv, IInv', NEW f \in Files, ImportStart(f)
  PROVE  WholeInv'
<1>1. /\ import' = [file |-> f, gen |-> logs[f].gen, pos |-> 0, parser |-> IdleParser]
      /\ logs' = logs /\ dirs' = dirs /\ queue' = queue /\ cutShort' = cutShort
  BY DEF ImportStart, store, history
<1>2. logs[f].gen \in Nat /\ Len(logs[f].lines) \in Nat
  BY DEF WholeInv, IInv, TypeOK, LogSet
<1>3. ImportReads'
  BY <1>1, <1>2 DEF ImportReads, ParserIn
<1> QED BY <1>1, <1>3, NothingNew

(* A line of an import: it completes what the log completes there. *)
LEMMA ImportLineWhole ==
  ASSUME WholeInv, IInv', ImportLine
  PROVE  WholeInv'
<1> DEFINE f == import.file
           lg == logs[f]
           n == import.pos + 1
           k == Head(ImportRest)
           r == Push(import.parser, k, n)
           ms == MatchesIn(f, import.gen, r.events)
<1>1. /\ import # NotImporting /\ ImportRest # <<>>
      /\ import' = [import EXCEPT !.pos = n, !.parser = r.parser]
      /\ dirs' \subseteq dirs \cup ms
      /\ logs' = logs /\ queue' = queue /\ cutShort' = cutShort
  BY DEF ImportLine, StoreImported, history
<1>2. f \in Files /\ import \in ImportSet
  BY <1>1 DEF WholeInv, IInv, ImportOK, TypeOK
<1>3. lg \in LogSet /\ LogOK(lg) /\ import.gen \in Nat /\ import.pos \in Nat
  BY <1>2 DEF WholeInv, IInv, TypeOK, LogsOK, ImportSet
<1>4. import.gen = lg.gen /\ ImportRest = SubSeq(lg.lines, import.pos + 1, Len(lg.lines))
  BY <1>1 DEF ImportRest
<1>5. import.pos <= Len(lg.lines) /\ import.parser = ParserIn(lg, import.pos)
  BY <1>1, <1>4 DEF WholeInv, ImportReads
<1>6. n \in 1..Len(lg.lines) /\ n - 1 = import.pos /\ lg.lines[n] = k
  <2>1. lg.lines \in Seq(Kinds) /\ Len(lg.lines) \in Nat
    BY <1>3 DEF LogSet
  <2>2. import.pos # Len(lg.lines)
    <3> HIDE DEF lg
    <3> QED BY <1>1, <1>3, <1>4, <2>1, SMTT(30)
  <2> HIDE DEF lg
  <2> QED BY <1>3, <1>4, <1>5, <2>1, <2>2
<1> HIDE DEF k
<1>7. ms = CompletedByIn(f, lg, n) /\ r.parser = ParserIn(lg, n)
  <2>1. lg.lines[n] = k /\ import.parser = ParserIn(lg, n - 1)
    BY <1>5, <1>6
  <2>2. ParserIn(lg, n) = lg.parsers[n]
    BY <1>6 DEF ParserIn
  <2>3. lg.parsers[n] = Push(ParserIn(lg, n - 1), lg.lines[n], n).parser
    BY <1>3, <1>6 DEF LogOK
  <2> QED BY <1>4, <2>1, <2>2, <2>3 DEF CompletedByIn
<1> HIDE DEF r
<1>8. ImportReads'
  <2>1. /\ import'.file = f /\ import'.gen = import.gen /\ import'.pos = n /\ import'.parser = r.parser
    BY <1>1, <1>2 DEF ImportSet
  <2>2. logs'[f] = lg /\ import.gen <= lg.gen /\ n <= Len(lg.lines)
    BY <1>1, <1>3, <1>4, <1>6
  <2> HIDE DEF f, n
  <2> QED BY <1>7, <2>1, <2>2 DEF ImportReads
<1>9. \A m \in ms : \A g \in Files : Known(g, logs[g], m)
  <2> SUFFICES ASSUME NEW m \in ms, NEW g \in Files PROVE Known(g, logs[g], m)
    OBVIOUS
  <2>1. logs[g] \in LogSet /\ n \in Nat
    BY <1>3 DEF WholeInv, IInv, TypeOK
  <2>2. f = g => import.gen <= logs[g].gen
    BY <1>3, <1>4
  <2>3. f = g /\ import.gen = logs[g].gen =>
          n \in 1..Len(logs[g].lines) /\ ms = CompletedByIn(f, logs[g], n)
    BY <1>6, <1>7
  <2> HIDE DEF n, f
  <2> QED BY <1>2, <1>3, <2>1, <2>2, <2>3, LineKnown
<1> HIDE DEF ms
<1> QED BY <1>1, <1>8, <1>9, NothingNew

(* The end of an import: what it delivers then is counted as cut short. *)
LEMMA ImportEndWhole ==
  ASSUME WholeInv, IInv', ImportEnd
  PROVE  WholeInv'
<1> DEFINE ms == MatchesIn(import.file, import.gen, EndOfInput(import.parser).events)
<1>1. /\ import' = NotImporting /\ cutShort' = cutShort \cup ms
      /\ dirs' \subseteq dirs \cup ms /\ logs' = logs /\ queue' = queue
  BY DEF ImportEnd, StoreImported
<1> HIDE DEF ms
<1> QED BY <1>1, NothingNew, NoImport

(* The death of a process posts nothing. *)
LEMMA CrashWhole ==
  ASSUME WholeInv, IInv', WorkerCrash \/ MainCrash
  PROVE  WholeInv'
<1>1. logs' = logs /\ dirs' = dirs /\ saved' = saved /\ cutShort' = cutShort
  BY DEF WorkerCrash, MainCrash
<1>2. MatchesOf(queue') \subseteq MatchesOf(queue)
  <2>1. CASE MainCrash
    BY <2>1 DEF MainCrash, MatchesOf
  <2>2. CASE WorkerCrash
    <3>1. PICK k \in 0..Len(queue) :
            queue' = SubSeq(queue, 1, k) /\ dropped' = dropped \cup DroppedWith(LostAfter(k))
      BY <2>2 DEF WorkerCrash
    <3> QED BY <1>1, <3>1, CrashAccounts DEF WholeInv
  <2> QED BY <2>1, <2>2
<1>3. ImportReads'
  BY <1>1, SameImport, NoImport DEF WorkerCrash, MainCrash
<1> QED BY <1>1, <1>2, <1>3, NothingNew

(* Every step keeps what is stored whole. *)
LEMMA NextWhole == WholeInv /\ [Next]_vars => WholeInv'
<1> SUFFICES ASSUME WholeInv, [Next]_vars PROVE WholeInv'
  OBVIOUS
<1>0. IInv'
  BY NextInvariant DEF WholeInv
<1>1. CASE \E f \in Files : GameWrites(f) \/ GameRotates(f) \/ StartFlush(f) \/ ImportStart(f)
  BY <1>0, <1>1, GameWritesWhole, GameRotatesWhole, StartFlushWhole, ImportStartWhole
<1>2. CASE FlushLine \/ Commit \/ CommitFails
  BY <1>0, <1>2, FlushLineWhole, CommitWhole
<1>3. CASE ImportLine \/ ImportEnd \/ WorkerCrash \/ MainCrash
  BY <1>0, <1>3, ImportLineWhole, ImportEndWhole, CrashWhole
<1>4. CASE \/ Configure \/ ConfigureBlind \/ Drain \/ EndFlush \/ SaveCheckpoints \/ SaveFails
           \/ MainStart \/ UNCHANGED vars
  <2>1. logs' = logs /\ import' = import /\ dirs' = dirs /\ queue' = queue /\ cutShort' = cutShort
    BY <1>4 DEF Configure, ConfigureBlind, Drain, EndFlush, SaveCheckpoints, SaveFails,
       MainStart, store, history, vars
  <2> QED BY <1>0, <2>1, NothingNew, SameImport
<1> QED BY <1>1, <1>2, <1>3, <1>4 DEF Next

(* A stored match of the log on disk is one that a reader of the whole log *)
(* delivers, with all its rounds, whatever crashes, rotations, failing     *)
(* writes and imports come together: the pipeline restarts only outside a  *)
(* match, or after a rotation, when the id is another                      *)
(* (FilePipeline.processFlush, rotation branch and checkpoint).  What is   *)
(* exempt is what an import delivered from a log that ended inside it.     *)
THEOREM StoredWholeHolds == Spec => []StoredWhole
<1>1. Init => WholeInv
  <2> SUFFICES ASSUME Init PROVE WholeInv
    OBVIOUS
  <2>1. KnownOK /\ ImportReads
    BY DEF Init, KnownOK, MatchesOf, ImportReads
  <2> QED BY <2>1, InitInvariant DEF WholeInv
<1>2. WholeInv => StoredWhole
  <2> SUFFICES ASSUME WholeInv, NEW d \in dirs, NEW f \in Files,
                      d.id[1] = f, d.id[2] = logs[f].gen, d \notin cutShort
               PROVE  d \in Completed(f, Len(logs[f].lines))
    BY DEF StoredWhole
  <2>1. Known(f, logs[f], d) /\ Len(logs[f].lines) \in Nat
    BY DEF WholeInv, KnownOK, IInv, TypeOK, LogSet
  <2> QED BY <2>1, CompletedSame DEF Known
<1>3. WholeInv /\ [Next]_vars => WholeInv'
  BY NextWhole
<1> QED BY <1>1, <1>2, <1>3, PTL DEF Spec
=============================================================================
