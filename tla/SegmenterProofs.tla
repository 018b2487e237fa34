--------------------------- MODULE SegmenterProofs ---------------------------
(***************************************************************************)
(* What the segmenter delivers and signals, for logs of any length.  None  *)
(* of its invariants is inductive.  What is delivered was built up line by *)
(* line in the open segment and in the finished rounds, so the induction   *)
(* carries their well-formedness (Sound) and how they stand to the log:    *)
(* which of its starts they hold, in which order, and that each ends right *)
(* before the next one begins (Tracks).                                    *)
(* The second half is about the reader that hands the segmenter its lines: *)
(* where it stands in the file (Shape), and which lines it has handed over *)
(* and kept by then (Content).                                             *)
(***************************************************************************)
EXTENDS Segmenter, SegmenterOpsProofs, TailReader, FiniteSetTheorems, FunctionTheorems

Whole(s) == Aligned(s) /\ Contiguous(s)

(* A parser that has read n lines. *)
Sound(p, n) ==
  /\ p.state # "IDLE" => Whole(p.current) /\ LastOf(p.current) = n
  /\ \A i \in DOMAIN p.rounds : Whole(p.rounds[i])

EventsSound(es) ==
  \A i \in DOMAIN es : es[i].type \in {"match", "shuffle"} =>
    \A j \in DOMAIN es[i].segments : Whole(es[i].segments[j])

-----------------------------------------------------------------------------
(* A segment that has only its START is whole. *)
LEMMA NewSegmentWhole ==
  ASSUME NEW kind, NEW seqNo, NEW n \in Nat
  PROVE  /\ Whole(NewSegment(kind, seqNo, n))
         /\ LastOf(NewSegment(kind, seqNo, n)) = n
  BY DEF Whole, Aligned, Contiguous, NewSegment, LastOf

(* A whole segment stays whole when the line after its last one joins it.  *)
LEMMA JoinWhole ==
  ASSUME NEW s \in Segment, Whole(s), NEW n \in Nat, LastOf(s) = n,
         NEW t \in Segment,
         t.rawLines = Append(s.rawLines, n + 1),
         t.records = Append(s.records, [line |-> n + 1, lineIndex |-> Len(s.rawLines)])
  PROVE  Whole(t) /\ LastOf(t) = n + 1
<1> DEFINE rec == [line |-> n + 1, lineIndex |-> Len(s.rawLines)]
<1>1. s.rawLines \in Seq(Nat) /\ s.records \in Seq(Record) /\ rec \in Record
  BY DEF Segment, Record
<1>2. /\ Len(s.rawLines) = Len(s.records) + 1
      /\ Len(s.rawLines) \in Nat /\ Len(s.records) \in Nat
      /\ DOMAIN s.rawLines = 1..Len(s.rawLines) /\ DOMAIN s.records = 1..Len(s.records)
  BY <1>1 DEF Whole, Aligned
<1>3. /\ Len(t.rawLines) = Len(s.rawLines) + 1
      /\ DOMAIN t.rawLines = 1..(Len(s.rawLines) + 1)
      /\ t.rawLines[Len(s.rawLines) + 1] = n + 1
      /\ \A i \in 1..Len(s.rawLines) : t.rawLines[i] = s.rawLines[i]
  BY <1>1, AppendAt, n + 1 \in Nat
<1>4. /\ Len(t.records) = Len(s.records) + 1
      /\ DOMAIN t.records = 1..(Len(s.records) + 1)
      /\ t.records[Len(s.records) + 1] = rec
      /\ \A i \in 1..Len(s.records) : t.records[i] = s.records[i]
  <2> HIDE DEF rec
  <2>1. t.records = Append(s.records, rec)
    BY DEF rec
  <2> QED BY <1>1, <2>1, AppendAt
<1>5. Aligned(t)
  <2>1. ASSUME NEW r \in DOMAIN t.records
        PROVE  /\ t.records[r].lineIndex + 1 \in DOMAIN t.rawLines
               /\ t.rawLines[t.records[r].lineIndex + 1] = t.records[r].line
    <3>1. CASE r \in 1..Len(s.records)
      <4>1. /\ s.records[r].lineIndex + 1 \in 1..Len(s.rawLines)
            /\ s.rawLines[s.records[r].lineIndex + 1] = s.records[r].line
        BY <1>2, <3>1 DEF Whole, Aligned
      <4> QED BY <1>2, <1>3, <1>4, <3>1, <4>1
    <3>2. CASE r = Len(s.records) + 1
      BY <1>2, <1>3, <1>4, <3>2
    <3>3. r \in 1..Len(s.records) \/ r = Len(s.records) + 1
      <4>1. r \in 1..(Len(s.records) + 1)
        BY <1>4, <2>1
      <4> QED BY <1>2, <4>1
    <3> QED BY <3>1, <3>2, <3>3
  <2> QED BY <1>2, <1>3, <1>4, <2>1 DEF Aligned
<1>6. Contiguous(t)
  <2>1. s.rawLines # <<>> /\ \A i \in 1..Len(s.rawLines) : s.rawLines[i] = s.rawLines[1] + i - 1
    BY <1>2 DEF Whole, Contiguous
  <2>2. Len(s.rawLines) >= 1 /\ s.rawLines[1] \in Nat
    BY <1>1, <1>2
  <2>3. n = s.rawLines[1] + Len(s.rawLines) - 1
    <3>1. Len(s.rawLines) \in 1..Len(s.rawLines)
      BY <1>2, <2>2
    <3>2. s.rawLines[Len(s.rawLines)] = s.rawLines[1] + Len(s.rawLines) - 1
      BY <2>1, <3>1
    <3> QED BY <3>2 DEF LastOf
  <2>4. t.rawLines[1] = s.rawLines[1]
    BY <1>2, <1>3, <2>2
  <2>5. ASSUME NEW i \in 1..(Len(s.rawLines) + 1)
        PROVE  t.rawLines[i] = t.rawLines[1] + i - 1
    <3>1. CASE i \in 1..Len(s.rawLines)
      BY <1>3, <2>1, <2>4, <3>1
    <3>2. CASE i = Len(s.rawLines) + 1
      BY <1>2, <1>3, <2>2, <2>3, <2>4, <3>2
    <3> QED BY <1>2, <3>1, <3>2
  <2>6. t.rawLines # <<>>
    BY DEF Segment
  <2> QED BY <1>3, <2>5, <2>6 DEF Contiguous
<1> QED BY <1>2, <1>3, <1>5, <1>6 DEF Whole, LastOf

(* Pushing the next line keeps a parser sound; what it delivers is whole.  *)
LEMMA PushSound ==
  ASSUME NEW p, ParserOK(p), NEW k \in Kinds, NEW n \in Nat, Sound(p, n)
  PROVE  /\ Sound(Push(p, k, n + 1).parser, n + 1)
         /\ EventsSound(Push(p, k, n + 1).events)
<1>0. p \in Parser /\ (p.state # "IDLE" => p.current \in Segment)
  BY DEF ParserOK
<1>1. CASE k \in Starts
  <2>1. Push(p, k, n + 1) = StartLine(p, k, n + 1)
    BY <1>1 DEF Push, Starts
  <2>2. Sound(Opened(k, n + 1), n + 1)
    BY NewSegmentWhole DEF Opened, Sound
  <2>3. CASE p.state = "IDLE"
    <3>1. StartLine(p, k, n + 1) = Result(Opened(k, n + 1), <<Event("open", n + 1, <<>>)>>)
      BY <2>3 DEF StartLine
    <3> QED BY <2>1, <2>2, <3>1 DEF Result, Event, EventsSound
  <2>4. CASE p.state = "IN_MATCH"
    <3>1. StartLine(p, k, n + 1) = Result(Opened(k, n + 1), <<Event("DOUBLE_START", n + 1, <<>>)>>)
      BY <2>4 DEF StartLine
    <3> QED BY <2>1, <2>2, <3>1 DEF Result, Event, EventsSound
  <2>5. CASE p.state = "IN_SHUFFLE"
    <3>1. StartLine(p, k, n + 1) = Result(NextRound(p, n + 1), <<>>)
      BY <2>5 DEF StartLine
    <3> DEFINE done == Append(p.rounds, p.current)
               next == NewSegment("shuffleRound", Len(done), n + 1)
    <3>2. NextRound(p, n + 1) = [p EXCEPT !.rounds = done, !.current = next]
      BY DEF NextRound
    <3>3. \A i \in DOMAIN done : Whole(done[i])
      BY <1>0, <2>5 DEF Sound, Parser
    <3>4. Whole(next) /\ LastOf(next) = n + 1
      BY NewSegmentWhole
    <3>5. Sound(NextRound(p, n + 1), n + 1)
      <4> HIDE DEF done, next
      <4> QED BY <1>0, <3>2, <3>3, <3>4 DEF Sound, Parser
    <3> QED BY <2>1, <3>1, <3>5 DEF Result, EventsSound
  <2> QED BY <1>0, <2>3, <2>4, <2>5 DEF Parser
<1>2. CASE k = "END"
  <2>1. Push(p, k, n + 1) = EndLine(p, n + 1)
    BY <1>2 DEF Push, Starts
  <2>2. Sound(IdleParser, n + 1)
    BY DEF Sound, IdleParser
  <2>3. CASE p.state = "IDLE"
    <3>1. EndLine(p, n + 1) = Result(p, <<Event("ORPHAN_END", n + 1, <<>>)>>)
      BY <2>3 DEF EndLine
    <3>2. Sound(p, n + 1)
      BY <2>3 DEF Sound
    <3> QED BY <2>1, <3>1, <3>2 DEF Result, Event, EventsSound
  <2>4. CASE p.state = "IN_MATCH"
    <3>1. EndLine(p, n + 1) = Result(IdleParser, <<Event("match", n + 1, <<p.current>>),
                                                   Event("close", n + 1, <<>>)>>)
      BY <2>4 DEF EndLine
    <3>2. Whole(p.current)
      BY <2>4 DEF Sound
    <3>3. EventsSound(<<Event("match", n + 1, <<p.current>>), Event("close", n + 1, <<>>)>>)
      BY <3>2 DEF Event, EventsSound
    <3> QED BY <2>1, <2>2, <3>1, <3>3 DEF Result
  <2>5. CASE p.state = "IN_SHUFFLE"
    <3> DEFINE done == Append(p.rounds, p.current)
    <3>1. EndLine(p, n + 1) = Result(IdleParser, <<Event("shuffle", n + 1, done),
                                                   Event("close", n + 1, <<>>)>>)
      BY <2>5 DEF EndLine
    <3>2. \A i \in DOMAIN done : Whole(done[i])
      BY <1>0, <2>5 DEF Sound, Parser
    <3>3. EventsSound(<<Event("shuffle", n + 1, done), Event("close", n + 1, <<>>)>>)
      <4> HIDE DEF done
      <4> QED BY <3>2 DEF Event, EventsSound
    <3> QED BY <2>1, <2>2, <3>1, <3>3 DEF Result
  <2> QED BY <1>0, <2>3, <2>4, <2>5 DEF Parser
<1>3. CASE k = "OTHER"
  <2>1. Push(p, k, n + 1) = OtherLine(p, n + 1)
    BY <1>3 DEF Push, Starts
  <2>2. CASE p.state = "IDLE"
    BY <2>1, <2>2 DEF OtherLine, Result, Sound, EventsSound
  <2>3. CASE p.state # "IDLE"
    <3> DEFINE rec == [line |-> n + 1, lineIndex |-> Len(p.current.rawLines)]
               seg == [p.current EXCEPT !.records  = Append(@, rec),
                                        !.rawLines = Append(@, n + 1)]
    <3>1. Push(p, k, n + 1) = Result([p EXCEPT !.current = seg], <<>>)
      BY <1>0, <2>1, <2>3 DEF OtherLine, Parser, Result
    <3>2. ParserOK([p EXCEPT !.current = seg])
      BY <3>1, PushOK, n + 1 \in Nat DEF Result
    <3>3. seg \in Segment
      BY <1>0, <2>3, <3>2 DEF ParserOK, Parser
    <3>4. /\ seg.rawLines = Append(p.current.rawLines, n + 1)
          /\ seg.records = Append(p.current.records, rec)
      BY <1>0, <2>3 DEF Segment
    <3>5. Whole(p.current) /\ LastOf(p.current) = n /\ p.current \in Segment
      BY <1>0, <2>3 DEF Sound
    <3>6. Whole(seg) /\ LastOf(seg) = n + 1
      <4> HIDE DEF seg
      <4> QED BY <3>3, <3>4, <3>5, JoinWhole
    <3> HIDE DEF seg
    <3>7. Sound([p EXCEPT !.current = seg], n + 1)
      BY <1>0, <3>6 DEF Sound, Parser
    <3> QED BY <3>1, <3>7 DEF Result, EventsSound
  <2> QED BY <2>2, <2>3
<1> QED BY <1>1, <1>2, <1>3 DEF Kinds

(* Callbacks accumulate. *)
LEMMA ConcatSound ==
  ASSUME NEW es \in Seq(EventSet), NEW fs \in Seq(EventSet), EventsSound(es), EventsSound(fs)
  PROVE  EventsSound(es \o fs)
<1>1. ASSUME NEW i \in DOMAIN (es \o fs)
      PROVE  \/ i \in DOMAIN es /\ (es \o fs)[i] = es[i]
             \/ i - Len(es) \in DOMAIN fs /\ (es \o fs)[i] = fs[i - Len(es)]
  OBVIOUS
<1> QED BY <1>1 DEF EventsSound

(* end() delivers whole rounds only. *)
LEMMA EndOfInputSound ==
  ASSUME NEW p, ParserOK(p), NEW n \in Nat, Sound(p, n)
  PROVE  EventsSound(EndOfInput(p).events)
<1>1. CASE p.state = "IDLE"
  BY <1>1 DEF EndOfInput, Result, EventsSound
<1>2. CASE p.state # "IDLE"
  <2> DEFINE done == IF p.state = "IN_SHUFFLE" /\ p.rounds # <<>>
                     THEN <<Event("shuffle", 0, p.rounds)>> ELSE <<>>
             rest == <<Event("UNCLOSED_SEGMENT", 0, <<>>), Event("abortedClose", 0, <<>>)>>
  <2>1. EndOfInput(p).events = done \o rest
    BY <1>2 DEF EndOfInput, Result
  <2>2. p.rounds \in Seq(Segment) /\ \A i \in DOMAIN p.rounds : Whole(p.rounds[i])
    BY DEF ParserOK, Parser, Sound
  <2>3. rest \in Seq(EventSet) /\ EventsSound(rest)
    BY DEF EventsSound, Event, EventSet, EventTypes
  <2>4. done \in Seq(EventSet) /\ EventsSound(done)
    <3>1. Event("shuffle", 0, p.rounds) \in EventSet
      BY <2>2 DEF Event, EventSet, EventTypes
    <3>2. EventsSound(<<Event("shuffle", 0, p.rounds)>>) /\ EventsSound(<<>>)
      BY <2>2 DEF EventsSound, Event
    <3> QED BY <3>1, <3>2
  <2> HIDE DEF done, rest
  <2> QED BY <2>1, <2>3, <2>4, ConcatSound
<1> QED BY <1>1, <1>2

-----------------------------------------------------------------------------
(* What an open parser will deliver: the finished rounds, then the segment *)
(* still open.                                                             *)
Bundle(p) == Append(p.rounds, p.current)

Chained(segs) ==
  \A i \in DOMAIN segs :
    /\ segs[i].sequenceNumber = i - 1
    /\ \A h \in DOMAIN segs : h < i => StartOf(segs[h]) < StartOf(segs[i])
    /\ \A h \in DOMAIN segs : h = i + 1 => LastOf(segs[i]) + 1 = StartOf(segs[h])

StartsOf(segs) == {StartOf(segs[i]) : i \in DOMAIN segs}

(* The parser has seen the starts S since the last break, the rounds R     *)
(* among them.                                                             *)
Tracks(p, S, R) ==
  /\ p.state = "IDLE" <=> S = {}
  /\ p.state = "IN_SHUFFLE" <=> R # {}
  /\ p.state = "IN_MATCH" => p.current.sequenceNumber = 0
  /\ p.state = "IN_SHUFFLE" => Chained(Bundle(p)) /\ StartsOf(Bundle(p)) = R
  /\ p.state # "IDLE" => StartOf(p.current) \in S /\ \A y \in S : y <= StartOf(p.current)

(* How the group of starts changes with a call k at m. *)
GroupStep(k, m, S, R, S2, R2) ==
  /\ k \in Starts => S2 = S \cup {m}
  /\ k = "OTHER" => S2 = S /\ R2 = R
  /\ k \in {"END", "EOF"} => S2 = {} /\ R2 = {}
  /\ k \in Starts /\ (k = "SHUFFLE_START" \/ R # {}) => R2 = R \cup {m}
  /\ k = "START" /\ R = {} => R2 = {}

(* Adding a segment that starts right after the last one ends. *)
LEMMA AppendChained ==
  ASSUME NEW segs \in Seq(Segment), Chained(segs),
         NEW s \in Segment, s.sequenceNumber = Len(segs),
         \A i \in DOMAIN segs : StartOf(segs[i]) < StartOf(s),
         segs # <<>> => LastOf(segs[Len(segs)]) + 1 = StartOf(s)
  PROVE  Chained(Append(segs, s)) /\ StartsOf(Append(segs, s)) = StartsOf(segs) \cup {StartOf(s)}
<1> DEFINE all == Append(segs, s)
<1>1. /\ all \in Seq(Segment) /\ DOMAIN all = 1..(Len(segs) + 1) /\ all[Len(segs) + 1] = s
      /\ \A i \in 1..Len(segs) : all[i] = segs[i]
      /\ Len(segs) \in Nat /\ DOMAIN segs = 1..Len(segs)
  BY AppendAt
<1> HIDE DEF all
<1>2. ASSUME NEW i \in DOMAIN all
      PROVE  /\ all[i].sequenceNumber = i - 1
             /\ \A h \in DOMAIN all : h < i => StartOf(all[h]) < StartOf(all[i])
             /\ \A h \in DOMAIN all : h = i + 1 => LastOf(all[i]) + 1 = StartOf(all[h])
  <2>1. CASE i \in 1..Len(segs)
    <3>1. all[i].sequenceNumber = i - 1
      BY <1>1, <2>1 DEF Chained
    <3>2. ASSUME NEW h \in DOMAIN all, h < i PROVE StartOf(all[h]) < StartOf(all[i])
      <4>1. h \in 1..Len(segs)
        BY <1>1, <2>1, <3>2
      <4> QED BY <1>1, <2>1, <3>2, <4>1 DEF Chained
    <3>3. ASSUME NEW h \in DOMAIN all, h = i + 1 PROVE LastOf(all[i]) + 1 = StartOf(all[h])
      <4>1. CASE h \in 1..Len(segs)
        BY <1>1, <2>1, <3>3, <4>1 DEF Chained
      <4>2. CASE h = Len(segs) + 1
        <5>1. i = Len(segs) /\ segs # <<>>
          BY <1>1, <2>1, <3>3, <4>2
        <5> QED BY <1>1, <2>1, <4>2, <5>1
      <4> QED BY <1>1, <4>1, <4>2
    <3> QED BY <3>1, <3>2, <3>3
  <2>2. CASE i = Len(segs) + 1
    <3>1. ASSUME NEW h \in DOMAIN all, h < i PROVE StartOf(all[h]) < StartOf(all[i])
      BY <1>1, <2>2, <3>1
    <3> QED BY <1>1, <2>2, <3>1
  <2> QED BY <1>1, <2>1, <2>2
<1>3. StartsOf(all) = StartsOf(segs) \cup {StartOf(s)}
  BY <1>1 DEF StartsOf
<1> QED BY <1>2, <1>3 DEF Chained, all

(* Replacing the last segment by one with the same start and number.       *)
LEMMA ReplaceLast ==
  ASSUME NEW segs \in Seq(Segment), NEW s \in Segment, NEW t \in Segment,
         Chained(Append(segs, s)), StartOf(t) = StartOf(s), t.sequenceNumber = s.sequenceNumber
  PROVE  Chained(Append(segs, t)) /\ StartsOf(Append(segs, t)) = StartsOf(Append(segs, s))
<1> DEFINE old == Append(segs, s)
           new == Append(segs, t)
<1>1. /\ DOMAIN old = 1..(Len(segs) + 1) /\ DOMAIN new = 1..(Len(segs) + 1) /\ Len(segs) \in Nat
      /\ old[Len(segs) + 1] = s /\ new[Len(segs) + 1] = t
      /\ \A i \in 1..Len(segs) : old[i] = segs[i] /\ new[i] = segs[i]
  BY AppendAt
<1> HIDE DEF old, new
<1>2. \A i \in 1..(Len(segs) + 1) : /\ StartOf(new[i]) = StartOf(old[i])
                                    /\ new[i].sequenceNumber = old[i].sequenceNumber
                                    /\ i # Len(segs) + 1 => new[i] = old[i]
  BY <1>1
<1>3. Chained(old)
  BY DEF old
<1>4. ASSUME NEW i \in DOMAIN new
      PROVE  /\ new[i].sequenceNumber = i - 1
             /\ \A h \in DOMAIN new : h < i => StartOf(new[h]) < StartOf(new[i])
             /\ \A h \in DOMAIN new : h = i + 1 => LastOf(new[i]) + 1 = StartOf(new[h])
  <2>1. i \in DOMAIN old /\ new[i].sequenceNumber = i - 1
    BY <1>1, <1>2, <1>3 DEF Chained
  <2>2. ASSUME NEW h \in DOMAIN new, h < i PROVE StartOf(new[h]) < StartOf(new[i])
    BY <1>1, <1>2, <1>3, <2>1, <2>2 DEF Chained
  <2>3. ASSUME NEW h \in DOMAIN new, h = i + 1 PROVE LastOf(new[i]) + 1 = StartOf(new[h])
    <3>1. i # Len(segs) + 1
      BY <1>1, <2>3
    <3>2. LastOf(old[i]) + 1 = StartOf(old[h])
      BY <1>1, <1>3, <2>1, <2>3 DEF Chained
    <3> QED BY <1>1, <1>2, <2>3, <3>1, <3>2
  <2> QED BY <2>1, <2>2, <2>3
<1>5. StartsOf(new) = StartsOf(old)
  BY <1>1, <1>2 DEF StartsOf
<1> QED BY <1>4, <1>5 DEF Chained, new, old

(* A line leaves a parser that tracks the log tracking it. *)
LEMMA PushTracks ==
  ASSUME NEW p, ParserOK(p), NEW n \in Nat, Sound(p, n), NEW k \in Kinds,
         NEW S, NEW R, R \subseteq S, S \subseteq 1..n, Tracks(p, S, R),
         NEW S2, NEW R2, GroupStep(k, n + 1, S, R, S2, R2)
  PROVE  Tracks(Push(p, k, n + 1).parser, S2, R2)
<1> DEFINE q == Push(p, k, n + 1).parser
<1>0. /\ p \in Parser /\ p.rounds \in Seq(Segment)
      /\ p.state # "IDLE" => p.current \in Segment /\ LastOf(p.current) = n
      /\ ParserOK(q)
  BY PushOK, n + 1 \in Nat DEF ParserOK, Parser, Sound
<1>1. CASE k \in Starts /\ p.state # "IN_SHUFFLE"
  <2>0. Push(p, k, n + 1) = StartLine(p, k, n + 1)
    BY <1>1 DEF Push, Starts
  <2>1. q = Opened(k, n + 1)
    <3>1. p.state = "IDLE" \/ p.state = "IN_MATCH"
      BY <1>0, <1>1 DEF Parser
    <3>2. CASE p.state = "IDLE"
      <4>1. StartLine(p, k, n + 1) = Result(Opened(k, n + 1), <<Event("open", n + 1, <<>>)>>)
        BY <3>2 DEF StartLine
      <4> QED BY <2>0, <4>1 DEF Result
    <3>3. CASE p.state = "IN_MATCH"
      <4>1. StartLine(p, k, n + 1) = Result(Opened(k, n + 1), <<Event("DOUBLE_START", n + 1, <<>>)>>)
        BY <3>3 DEF StartLine
      <4> QED BY <2>0, <4>1 DEF Result
    <3> QED BY <3>1, <3>2, <3>3
  <2>2. /\ q.state = IF k = "SHUFFLE_START" THEN "IN_SHUFFLE" ELSE "IN_MATCH"
        /\ StartOf(q.current) = n + 1 /\ q.current.sequenceNumber = 0
        /\ q.rounds = <<>>
    BY <2>1 DEF Opened, NewSegment, StartOf
  <2>3. R = {} /\ S2 = S \cup {n + 1}
    BY <1>1 DEF Tracks, GroupStep
  <2>4. \A y \in S2 : y <= n + 1
    BY <2>3
  <2>5. R2 = IF k = "SHUFFLE_START" THEN {n + 1} ELSE {}
    BY <1>1, <2>3 DEF GroupStep, Starts
  <2>6. ASSUME k = "SHUFFLE_START"
        PROVE  Chained(Bundle(q)) /\ StartsOf(Bundle(q)) = {n + 1}
    <3>1. q.current \in Segment
      BY <1>0, <2>2, <2>6 DEF ParserOK
    <3> HIDE DEF q
    <3>2. DOMAIN Bundle(q) = {1} /\ Bundle(q)[1] = q.current
      BY <2>2, <3>1 DEF Bundle
    <3> QED BY <2>2, <3>2 DEF Chained, StartsOf
  <2> HIDE DEF q
  <2>7. Tracks(q, S2, R2)
    BY <2>2, <2>3, <2>4, <2>5, <2>6 DEF Tracks
  <2> QED BY <2>7 DEF q
<1>2. CASE k \in Starts /\ p.state = "IN_SHUFFLE"
  <2> DEFINE done == Append(p.rounds, p.current)
             next == NewSegment("shuffleRound", Len(done), n + 1)
  <2>1. q = [p EXCEPT !.rounds = done, !.current = next]
    <3>1. Push(p, k, n + 1) = StartLine(p, k, n + 1)
      BY <1>2 DEF Push, Starts
    <3>2. StartLine(p, k, n + 1) = Result(NextRound(p, n + 1), <<>>)
      BY <1>2 DEF StartLine
    <3> QED BY <3>1, <3>2 DEF Result, NextRound
  <2>2. q.state = "IN_SHUFFLE" /\ q.rounds = done /\ q.current = next
    BY <1>0, <1>2, <2>1 DEF Parser
  <2>3. done \in Seq(Segment) /\ Chained(done) /\ StartsOf(done) = R /\ Len(done) \in Nat
    BY <1>0, <1>2 DEF Tracks, Bundle
  <2>4. next \in Segment /\ next.sequenceNumber = Len(done) /\ StartOf(next) = n + 1
    <3> HIDE DEF done
    <3> QED BY <2>3 DEF NewSegment, Segment, Record, StartOf
  <2>5. \A i \in DOMAIN done : StartOf(done[i]) < n + 1
    <3> HIDE DEF done
    <3>1. \A i \in DOMAIN done : StartOf(done[i]) \in 1..n
      BY <2>3 DEF StartsOf
    <3> QED BY <3>1
  <2>6. LastOf(done[Len(done)]) + 1 = n + 1
    BY <1>0, <1>2
  <2>7. R # {} /\ S2 = S \cup {n + 1} /\ R2 = R \cup {n + 1}
    BY <1>2 DEF Tracks, GroupStep, Starts
  <2>8. Chained(Append(done, next)) /\ StartsOf(Append(done, next)) = R \cup {n + 1}
    <3> HIDE DEF done, next
    <3> QED BY <2>3, <2>4, <2>5, <2>6, AppendChained
  <2>9. \A y \in S2 : y <= n + 1
    BY <2>7
  <2> HIDE DEF q, done, next
  <2>10. Tracks(q, S2, R2)
    BY <2>2, <2>4, <2>7, <2>8, <2>9 DEF Tracks, Bundle
  <2> QED BY <2>10 DEF q
<1>3. CASE k = "END"
  <2>1. q.state = "IDLE"
    BY <1>0, <1>3 DEF Push, EndLine, Starts, Result, IdleParser, Parser
  <2>2. S2 = {} /\ R2 = {}
    BY <1>3 DEF GroupStep
  <2> HIDE DEF q
  <2>3. Tracks(q, S2, R2)
    BY <2>1, <2>2 DEF Tracks
  <2> QED BY <2>3 DEF q
<1>4. CASE k = "OTHER"
  <2>1. S2 = S /\ R2 = R
    BY <1>4 DEF GroupStep
  <2>2. CASE p.state = "IDLE"
    <3>1. q = p
      BY <1>4, <2>2 DEF Push, OtherLine, Starts, Result
    <3> HIDE DEF q
    <3>2. Tracks(q, S2, R2)
      BY <2>1, <3>1
    <3> QED BY <3>2 DEF q
  <2>3. CASE p.state # "IDLE"
    <3> DEFINE rec == [line |-> n + 1, lineIndex |-> Len(p.current.rawLines)]
               seg == [p.current EXCEPT !.records  = Append(@, rec),
                                        !.rawLines = Append(@, n + 1)]
    <3>1. q = [p EXCEPT !.current = seg]
      BY <1>0, <1>4, <2>3 DEF Push, OtherLine, Starts, Parser, Result
    <3>2. q.state = p.state /\ q.current = seg /\ q.rounds = p.rounds
      BY <1>0, <3>1 DEF Parser
    <3>3. seg \in Segment
      BY <1>0, <2>3, <3>2 DEF ParserOK
    <3>4. StartOf(seg) = StartOf(p.current) /\ seg.sequenceNumber = p.current.sequenceNumber
      <4>1. p.current.rawLines \in Seq(Nat) /\ Len(p.current.rawLines) >= 1
        BY <1>0, <2>3 DEF Segment
      <4>2. Append(p.current.rawLines, n + 1)[1] = p.current.rawLines[1]
        BY <4>1, n + 1 \in Nat, AppendAt
      <4>3. seg.rawLines = Append(p.current.rawLines, n + 1)
        BY <1>0, <2>3 DEF Segment
      <4>4. seg.sequenceNumber = p.current.sequenceNumber
        BY <1>0, <2>3 DEF Segment
      <4> QED BY <4>2, <4>3, <4>4 DEF StartOf
    <3> HIDE DEF seg
    <3>5. ASSUME p.state = "IN_SHUFFLE"
          PROVE  Chained(Bundle(q)) /\ StartsOf(Bundle(q)) = R
      <4>1. Chained(Append(p.rounds, p.current)) /\ StartsOf(Append(p.rounds, p.current)) = R
        BY <3>5 DEF Tracks, Bundle
      <4> HIDE DEF q
      <4> QED BY <1>0, <2>3, <3>2, <3>3, <3>4, <4>1, ReplaceLast DEF Bundle
    <3> HIDE DEF q
    <3>6. Tracks(q, S2, R2)
      BY <2>1, <3>2, <3>4, <3>5 DEF Tracks
    <3> QED BY <3>6 DEF q
  <2> QED BY <2>2, <2>3
<1> QED BY <1>1, <1>2, <1>3, <1>4 DEF Kinds

-----------------------------------------------------------------------------
(* The signals of one call, made by p and leaving q. *)
CallSignals(p, es, q) ==
  /\ \A h, i \in Signals(es) : h = i
  /\ Signals(es) = {} => (HasOpenSegment(q) <=> HasOpenSegment(p))
  /\ \A i \in Signals(es) : /\ es[i].type = "open" <=> ~HasOpenSegment(p)
                            /\ es[i].type = "open" <=> HasOpenSegment(q)
  /\ \A d \in Deliveries(es) : \E i \in Signals(es) : d < i /\ es[i].type # "open"

(* One callback that is neither signal nor delivery, or none: nothing      *)
(* changes for the recorder.                                               *)
LEMMA PushSignals ==
  ASSUME NEW p, ParserOK(p), NEW k \in Kinds, NEW n \in Nat
  PROVE  CallSignals(p, Push(p, k, n).events, Push(p, k, n).parser)
<1> DEFINE r == Push(p, k, n)
<1>0. p \in Parser /\ p.state \in {"IDLE", "IN_MATCH", "IN_SHUFFLE"}
  BY DEF ParserOK, Parser
<1>1. CASE k \in Starts
  <2>0. r = StartLine(p, k, n)
    BY <1>1 DEF Push, Starts
  <2>1. CASE p.state = "IDLE"
    <3>1. r = Result(Opened(k, n), <<Event("open", n, <<>>)>>)
      BY <2>0, <2>1 DEF StartLine
    <3>2. r.events = <<Event("open", n, <<>>)>> /\ r.parser.state # "IDLE"
      BY <3>1 DEF Result, Opened
    <3> HIDE DEF r
    <3>3. CallSignals(p, r.events, r.parser)
      BY <2>1, <3>2 DEF CallSignals, Signals, Deliveries, HasOpenSegment, Event
    <3> QED BY <3>3 DEF r
  <2>2. CASE p.state = "IN_MATCH"
    <3>1. r = Result(Opened(k, n), <<Event("DOUBLE_START", n, <<>>)>>)
      BY <2>0, <2>2 DEF StartLine
    <3>2. r.events = <<Event("DOUBLE_START", n, <<>>)>> /\ r.parser.state # "IDLE"
      BY <3>1 DEF Result, Opened
    <3> HIDE DEF r
    <3>3. CallSignals(p, r.events, r.parser)
      BY <2>2, <3>2 DEF CallSignals, Signals, Deliveries, HasOpenSegment, Event
    <3> QED BY <3>3 DEF r
  <2>3. CASE p.state = "IN_SHUFFLE"
    <3>1. r = Result(NextRound(p, n), <<>>)
      BY <2>0, <2>3 DEF StartLine
    <3> DEFINE done == Append(p.rounds, p.current)
               next == NewSegment("shuffleRound", Len(done), n)
    <3>2. NextRound(p, n) = [p EXCEPT !.rounds = done, !.current = next]
      BY DEF NextRound
    <3>3. NextRound(p, n).state = p.state
      <4> HIDE DEF done, next
      <4> QED BY <1>0, <3>2 DEF Parser
    <3>4. r.events = <<>> /\ r.parser.state # "IDLE"
      BY <2>3, <3>1, <3>3 DEF Result
    <3> HIDE DEF r
    <3>5. CallSignals(p, r.events, r.parser)
      BY <2>3, <3>4 DEF CallSignals, Signals, Deliveries, HasOpenSegment
    <3> QED BY <3>5 DEF r
  <2> QED BY <1>0, <2>1, <2>2, <2>3
<1>2. CASE k = "END"
  <2>0. r = EndLine(p, n)
    BY <1>2 DEF Push, Starts
  <2>1. CASE p.state = "IDLE"
    <3>1. r.events = <<Event("ORPHAN_END", n, <<>>)>> /\ r.parser = p
      BY <2>0, <2>1 DEF EndLine, Result
    <3> HIDE DEF r
    <3>2. CallSignals(p, r.events, r.parser)
      BY <2>1, <3>1 DEF CallSignals, Signals, Deliveries, HasOpenSegment, Event
    <3> QED BY <3>2 DEF r
  <2>2. CASE p.state # "IDLE"
    <3>0. PICK t \in {"match", "shuffle"} : \E done :
            r = Result(IdleParser, <<Event(t, n, done), Event("close", n, <<>>)>>)
      <4>1. CASE p.state = "IN_MATCH"
        <5>1. r = Result(IdleParser, <<Event("match", n, <<p.current>>), Event("close", n, <<>>)>>)
          BY <2>0, <4>1 DEF EndLine
        <5> QED BY <5>1
      <4>2. CASE p.state = "IN_SHUFFLE"
        <5>1. r = Result(IdleParser, <<Event("shuffle", n, Append(p.rounds, p.current)),
                                       Event("close", n, <<>>)>>)
          BY <2>0, <4>2 DEF EndLine
        <5> QED BY <5>1
      <4> QED BY <1>0, <2>2, <4>1, <4>2
    <3>1. PICK done : r = Result(IdleParser, <<Event(t, n, done), Event("close", n, <<>>)>>)
      BY <3>0
    <3>2. /\ r.events = <<Event(t, n, done), Event("close", n, <<>>)>>
          /\ r.parser.state = "IDLE"
      BY <3>1 DEF Result, IdleParser
    <3> HIDE DEF r
    <3>3. CallSignals(p, r.events, r.parser)
      BY <2>2, <3>2 DEF CallSignals, Signals, Deliveries, HasOpenSegment, Event
    <3> QED BY <3>3 DEF r
  <2> QED BY <2>1, <2>2
<1>3. CASE k = "OTHER"
  <2>0. r = OtherLine(p, n)
    BY <1>3 DEF Push, Starts
  <2>1. r.events = <<>> /\ r.parser.state = p.state
    BY <1>0, <2>0 DEF OtherLine, Result, Parser
  <2> HIDE DEF r
  <2>2. CallSignals(p, r.events, r.parser)
    BY <2>1 DEF CallSignals, Signals, Deliveries, HasOpenSegment
  <2> QED BY <2>2 DEF r
<1> QED BY <1>1, <1>2, <1>3 DEF Kinds

(* The callbacks of end(), place by place: the rounds completed, if any,   *)
(* then the warning and the aborted close.                                 *)
LEMMA EndOfInputEvents ==
  ASSUME NEW p, ParserOK(p)
  PROVE  LET es == EndOfInput(p).events
             final == <<Event("UNCLOSED_SEGMENT", 0, <<>>), Event("abortedClose", 0, <<>>)>>
         IN  /\ p.state = "IDLE" => es = <<>>
             /\ p.state # "IDLE" /\ ~(p.state = "IN_SHUFFLE" /\ p.rounds # <<>>) => es = final
             /\ p.state = "IN_SHUFFLE" /\ p.rounds # <<>> =>
                  /\ DOMAIN es = {1, 2, 3}
                  /\ es[1] = Event("shuffle", 0, p.rounds)
                  /\ es[2] = Event("UNCLOSED_SEGMENT", 0, <<>>)
                  /\ es[3] = Event("abortedClose", 0, <<>>)
<1> DEFINE es == EndOfInput(p).events
           final == <<Event("UNCLOSED_SEGMENT", 0, <<>>), Event("abortedClose", 0, <<>>)>>
           first == Event("shuffle", 0, p.rounds)
<1>1. p.state = "IDLE" => es = <<>>
  BY DEF EndOfInput, Result
<1>2. final \in Seq(EventSet) /\ Len(final) = 2
  BY DEF Event, EventSet, EventTypes
<1>3. ASSUME p.state # "IDLE", ~(p.state = "IN_SHUFFLE" /\ p.rounds # <<>>)
      PROVE  es = final
  <2>1. es = <<>> \o final
    BY <1>3 DEF EndOfInput, Result
  <2> HIDE DEF final
  <2>2. <<>> \o final = final
    BY <1>2, ConcatEmptySeq
  <2> QED BY <2>1, <2>2
<1>4. ASSUME p.state = "IN_SHUFFLE", p.rounds # <<>>
      PROVE  /\ DOMAIN es = {1, 2, 3}
             /\ es[1] = first
             /\ es[2] = Event("UNCLOSED_SEGMENT", 0, <<>>)
             /\ es[3] = Event("abortedClose", 0, <<>>)
  <2>1. es = <<first>> \o final
    BY <1>4 DEF EndOfInput, Result
  <2>2. first \in EventSet
    BY DEF ParserOK, Parser, Event, EventSet, EventTypes
  <2>0. final[1] = Event("UNCLOSED_SEGMENT", 0, <<>>) /\ final[2] = Event("abortedClose", 0, <<>>)
    OBVIOUS
  <2> HIDE DEF final, first, es
  <2>3. <<first>> \in Seq(EventSet) /\ Len(<<first>>) = 1 /\ <<first>>[1] = first
    BY <2>2
  <2> DEFINE one == <<first>>
  <2> HIDE DEF one
  <2>4. /\ one \o final \in Seq(EventSet) /\ Len(one \o final) = 3
        /\ \A i \in 1..3 : (one \o final)[i] = IF i <= 1 THEN one[i] ELSE final[i - 1]
    <3>1. one \in Seq(EventSet) /\ Len(one) = 1
      BY <2>3 DEF one
    <3>2. Len(one \o final) = Len(one) + Len(final)
      BY <1>2, <3>1, ConcatProperties
    <3> QED BY <1>2, <3>1, <3>2, ConcatProperties
  <2>5. DOMAIN (one \o final) = {1, 2, 3}
    <3> DEFINE all == one \o final
    <3> HIDE DEF all
    <3>1. all \in Seq(EventSet) /\ Len(all) = 3
      BY <2>4 DEF all
    <3>2. DOMAIN all = 1..3
      BY <3>1
    <3> QED BY <3>2 DEF all
  <2>6. one[1] = first /\ es = one \o final
    BY <2>1, <2>3 DEF one
  <2> QED BY <2>0, <2>4, <2>5, <2>6
<1> QED BY <1>1, <1>3, <1>4

(* end() signals an aborted close exactly when a segment is open. *)
LEMMA EndOfInputSignals ==
  ASSUME NEW p, ParserOK(p)
  PROVE  CallSignals(p, EndOfInput(p).events, EndOfInput(p).parser)
<1> DEFINE es == EndOfInput(p).events
           q == EndOfInput(p).parser
<1>1. q.state = "IDLE"
  BY EndOfInputOK DEF IdleParser
<1>2. CASE p.state = "IDLE"
  <2>1. es = <<>>
    BY <1>2, EndOfInputEvents
  <2> HIDE DEF es, q
  <2>2. CallSignals(p, es, q)
    BY <1>1, <1>2, <2>1 DEF CallSignals, Signals, Deliveries, HasOpenSegment
  <2> QED BY <2>2 DEF es, q
<1>3. CASE p.state # "IDLE" /\ ~(p.state = "IN_SHUFFLE" /\ p.rounds # <<>>)
  <2>1. es = <<Event("UNCLOSED_SEGMENT", 0, <<>>), Event("abortedClose", 0, <<>>)>>
    BY <1>3, EndOfInputEvents
  <2>2. /\ DOMAIN es = {1, 2}
        /\ es[1].type = "UNCLOSED_SEGMENT" /\ es[2].type = "abortedClose"
    BY <2>1 DEF Event
  <2> HIDE DEF es, q
  <2>3. Signals(es) = {2} /\ Deliveries(es) = {}
    BY <2>2 DEF Signals, Deliveries
  <2>4. CallSignals(p, es, q)
    BY <1>1, <1>3, <2>2, <2>3 DEF CallSignals, HasOpenSegment
  <2> QED BY <2>4 DEF es, q
<1>4. CASE p.state = "IN_SHUFFLE" /\ p.rounds # <<>>
  <2>0. /\ DOMAIN es = {1, 2, 3}
        /\ es[1] = Event("shuffle", 0, p.rounds)
        /\ es[2] = Event("UNCLOSED_SEGMENT", 0, <<>>)
        /\ es[3] = Event("abortedClose", 0, <<>>)
    BY <1>4, EndOfInputEvents
  <2>1. /\ DOMAIN es = {1, 2, 3}
        /\ es[1].type = "shuffle" /\ es[2].type = "UNCLOSED_SEGMENT" /\ es[3].type = "abortedClose"
    <3> HIDE DEF es
    <3> QED BY <2>0 DEF Event
  <2> HIDE DEF es, q
  <2>2. Signals(es) = {3} /\ Deliveries(es) = {1}
    BY <2>1 DEF Signals, Deliveries
  <2>3. CallSignals(p, es, q)
    BY <1>1, <1>4, <2>1, <2>2 DEF CallSignals, HasOpenSegment
  <2> QED BY <2>3 DEF es, q
<1> QED BY <1>2, <1>3, <1>4
(* What a call at n + 1 adds to the log does not change what the earlier   *)
(* ones belonged to.                                                       *)
LEMMA LaterLog ==
  ASSUME NEW n \in Nat, log \in Seq(Kinds \cup {"EOF"}), n = Len(log),
         NEW k \in Kinds \cup {"EOF"}, log' = Append(log, k),
         NEW j \in 1..(n + 1)
  PROVE  /\ Since(j)' = Since(j) /\ Rounds(j)' = Rounds(j)
         /\ \A i : SegmentEnd(i, j)' = SegmentEnd(i, j)
         /\ j \in 1..n => log'[j] = log[j] /\ ReferenceStarts(j)' = ReferenceStarts(j)
<1>1. /\ DOMAIN log = 1..n /\ DOMAIN log' = 1..(n + 1)
      /\ \A i \in 1..n : log'[i] = log[i]
  BY AppendAt
<1>2. Since(j)' = Since(j)
  BY <1>1 DEF Since, Breaks
<1>3. Rounds(j)' = Rounds(j)
  BY <1>1, <1>2 DEF Rounds, Since
<1>4. ASSUME NEW i PROVE SegmentEnd(i, j)' = SegmentEnd(i, j)
  BY <1>2 DEF SegmentEnd
<1>5. ASSUME j \in 1..n PROVE log'[j] = log[j] /\ ReferenceStarts(j)' = ReferenceStarts(j)
  BY <1>1, <1>2, <1>3, <1>5 DEF ReferenceStarts
<1> QED BY <1>2, <1>3, <1>4, <1>5

(* The group of starts open after one more call. *)
LEMMA NextGroup ==
  ASSUME NEW n \in Nat, log \in Seq(Kinds \cup {"EOF"}), n = Len(log),
         NEW k \in Kinds \cup {"EOF"}, log' = Append(log, k)
  PROVE  /\ k \in Starts => Since(n + 2)' = Since(n + 1) \cup {n + 1}
         /\ k = "OTHER" => Since(n + 2)' = Since(n + 1)
         /\ k \in {"END", "EOF"} => Since(n + 2)' = {}
         /\ k \in Starts /\ (k = "SHUFFLE_START" \/ Rounds(n + 1) # {}) =>
              Rounds(n + 2)' = Rounds(n + 1) \cup {n + 1}
         /\ k = "START" /\ Rounds(n + 1) = {} => Rounds(n + 2)' = {}
         /\ k = "OTHER" => Rounds(n + 2)' = Rounds(n + 1)
         /\ k \in {"END", "EOF"} => Rounds(n + 2)' = {}
<1>1. /\ DOMAIN log = 1..n /\ DOMAIN log' = 1..(n + 1)
      /\ \A i \in 1..n : log'[i] = log[i]
      /\ log'[n + 1] = k
  BY AppendAt
<1>2. Since(n + 1) \subseteq 1..n
  BY <1>1 DEF Since
<1>3. k \in Starts => Since(n + 2)' = Since(n + 1) \cup {n + 1}
  BY <1>1 DEF Since, Breaks, Starts
<1>4. k = "OTHER" => Since(n + 2)' = Since(n + 1)
  BY <1>1 DEF Since, Breaks, Starts
<1>5. k \in {"END", "EOF"} => Since(n + 2)' = {}
  BY <1>1 DEF Since, Breaks, Starts
<1>6. k \in Starts /\ (k = "SHUFFLE_START" \/ Rounds(n + 1) # {}) =>
              Rounds(n + 2)' = Rounds(n + 1) \cup {n + 1}
  BY <1>1, <1>2, <1>3 DEF Rounds
<1>7. k = "START" /\ Rounds(n + 1) = {} => Rounds(n + 2)' = {}
  BY <1>1, <1>2, <1>3 DEF Rounds, Starts
<1>8. k = "OTHER" => Rounds(n + 2)' = Rounds(n + 1)
  BY <1>1, <1>2, <1>4 DEF Rounds
<1>9. k \in {"END", "EOF"} => Rounds(n + 2)' = {}
  BY <1>5 DEF Rounds
<1> QED BY <1>3, <1>4, <1>5, <1>6, <1>7, <1>8, <1>9

(* Rounds are the starts from the first shuffle on. *)
LEMMA RoundsUpward ==
  ASSUME NEW j, NEW i \in Rounds(j), NEW x \in Since(j), x >= i,
         log \in Seq(Kinds \cup {"EOF"})
  PROVE  x \in Rounds(j)
<1>1. Since(j) \subseteq Nat
  BY DEF Since
<1>2. i \in Nat /\ x \in Nat
  BY <1>1 DEF Rounds
<1> QED BY <1>1, <1>2 DEF Rounds

LEMMA LatestIs ==
  ASSUME NEW S, S \subseteq Nat, NEW m \in S, \A y \in S : y <= m
  PROVE  Latest(S) = m
<1>1. \A x \in S : (\A y \in S : y <= x) => x = m
  OBVIOUS
<1>2. Latest(S) \in S /\ \A y \in S : y <= Latest(S)
  BY DEF Latest
<1> QED BY <1>1, <1>2

LEMMA EarliestIs ==
  ASSUME NEW S, S \subseteq Nat, NEW m \in S, \A y \in S : m <= y
  PROVE  Earliest(S) = m
<1>1. \A x \in S : (\A y \in S : x <= y) => x = m
  OBVIOUS
<1>2. Earliest(S) \in S /\ \A y \in S : Earliest(S) <= y
  BY DEF Earliest
<1> QED BY <1>1, <1>2

-----------------------------------------------------------------------------
(* A chain whose starts are the rounds of the group at j, and which ends   *)
(* right before j, ends each of its segments where the log says.           *)
LEMMA ChainEnds ==
  ASSUME log \in Seq(Kinds \cup {"EOF"}), NEW j \in Nat, Since(j) \subseteq 1..(j - 1),
         NEW segs \in Seq(Segment), Chained(segs), StartsOf(segs) = Rounds(j),
         segs # <<>>, LastOf(segs[Len(segs)]) = j - 1,
         NEW i \in DOMAIN segs
  PROVE  LastOf(segs[i]) = SegmentEnd(StartOf(segs[i]), j)
<1> DEFINE later == {x \in Since(j) : x > StartOf(segs[i])} \cup {j}
<1>1. /\ DOMAIN segs = 1..Len(segs) /\ Len(segs) \in Nat /\ i \in 1..Len(segs)
      /\ Rounds(j) \subseteq Since(j)
      /\ \A h \in DOMAIN segs : StartOf(segs[h]) \in Rounds(j)
  BY DEF Rounds, StartsOf
<1>2. \A h \in DOMAIN segs : StartOf(segs[h]) \in 1..(j - 1)
  BY <1>1
<1>3. LastOf(segs[i]) \in Nat
  <2>1. segs[i] \in Segment
    OBVIOUS
  <2>2. segs[i].rawLines \in Seq(Nat) /\ segs[i].rawLines # <<>>
    BY <2>1 DEF Segment
  <2>3. Len(segs[i].rawLines) \in DOMAIN segs[i].rawLines
    BY <2>2
  <2> QED BY <2>2, <2>3 DEF LastOf
<1>4. later \subseteq Nat
  BY <1>1
<1>5. CASE i = Len(segs)
  <2>1. ASSUME NEW x \in Since(j), x > StartOf(segs[i]) PROVE FALSE
    <3>1. x \in Rounds(j)
      BY <1>1, <1>2, <2>1, RoundsUpward
    <3>2. PICK h \in DOMAIN segs : x = StartOf(segs[h])
      BY <3>1 DEF StartsOf
    <3>3. h = i \/ h < i
      BY <1>1, <1>5
    <3>4. StartOf(segs[h]) <= StartOf(segs[i])
      BY <1>2, <3>3 DEF Chained
    <3> QED BY <1>2, <2>1, <3>2, <3>4
  <2>2. later = {j}
    BY <2>1
  <2> HIDE DEF later
  <2>4. j \in later /\ \A y \in later : j <= y
    BY <2>2
  <2>3. Earliest(later) = j
    BY <1>4, <2>4, EarliestIs
  <2> USE DEF later
  <2> QED BY <1>3, <1>5, <2>3 DEF SegmentEnd
<1>6. CASE i # Len(segs)
  <2>1. i + 1 \in DOMAIN segs
    BY <1>1, <1>6
  <2> DEFINE m == StartOf(segs[i + 1])
  <2>2. LastOf(segs[i]) + 1 = m /\ StartOf(segs[i]) < m
    BY <1>1, <2>1 DEF Chained
  <2>3. m \in later
    BY <1>1, <1>2, <2>1, <2>2
  <2>4. ASSUME NEW x \in Since(j), x > StartOf(segs[i]) PROVE m <= x
    <3>1. x \in Rounds(j)
      BY <1>1, <1>2, <2>4, RoundsUpward
    <3>2. PICK h \in DOMAIN segs : x = StartOf(segs[h])
      BY <3>1 DEF StartsOf
    <3>3. i < h
      <4>1. ~(h < i) /\ h # i
        BY <1>1, <1>2, <2>4, <3>2 DEF Chained
      <4> QED BY <1>1, <4>1
    <3>4. h = i + 1 \/ i + 1 < h
      BY <1>1, <3>3
    <3> QED BY <1>2, <2>1, <3>2, <3>4 DEF Chained
  <2>5. \A y \in later : m <= y
    BY <1>2, <2>1, <2>4
  <2> HIDE DEF later, m
  <2>6. Earliest(later) = m
    BY <1>4, <2>3, <2>5, EarliestIs
  <2>7. SegmentEnd(StartOf(segs[i]), j) = m - 1
    BY <2>6 DEF SegmentEnd, later
  <2> QED BY <1>3, <2>2, <2>7
<1> QED BY <1>5, <1>6

(* The starts the call k at n + 1 must deliver, from the group before it.  *)
LEMMA ReferenceNow ==
  ASSUME NEW n \in Nat, log \in Seq(Kinds \cup {"EOF"}), n = Len(log),
         NEW k \in Kinds \cup {"EOF"}, log' = Append(log, k)
  PROVE  LET S == Since(n + 1)
             R == Rounds(n + 1)
         IN  /\ k = "END" /\ R # {} => ReferenceStarts(n + 1)' = R
             /\ k = "END" /\ R = {} /\ S # {} => ReferenceStarts(n + 1)' = {Latest(S)}
             /\ k = "END" /\ R = {} /\ S = {} => ReferenceStarts(n + 1)' = {}
             /\ k = "EOF" /\ R # {} => ReferenceStarts(n + 1)' = R \ {Latest(R)}
             /\ k = "EOF" /\ R = {} => ReferenceStarts(n + 1)' = {}
             /\ k \notin {"END", "EOF"} => ReferenceStarts(n + 1)' = {}
<1>1. log'[n + 1] = k
  BY AppendAt
<1>2. Since(n + 1)' = Since(n + 1) /\ Rounds(n + 1)' = Rounds(n + 1)
  BY LaterLog, n + 1 \in 1..(n + 1)
<1>3. CASE k = "END"
  BY <1>1, <1>2, <1>3 DEF ReferenceStarts
<1>4. CASE k = "EOF"
  BY <1>1, <1>2, <1>4 DEF ReferenceStarts
<1>5. CASE k \notin {"END", "EOF"}
  BY <1>1, <1>2, <1>5 DEF ReferenceStarts
<1> QED BY <1>3, <1>4, <1>5

(* Everything read so far precedes the next position. *)
LEMMA GroupBefore ==
  ASSUME NEW n \in Nat, log \in Seq(Kinds \cup {"EOF"}), n = Len(log)
  PROVE  Since(n + 1) \subseteq 1..n /\ Rounds(n + 1) \subseteq Since(n + 1)
  BY DEF Since, Rounds

(* A call delivers what the log says it must. *)
LEMMA NowDelivers ==
  ASSUME NEW n \in Nat, log \in Seq(Kinds \cup {"EOF"}), n = Len(log),
         NEW k \in Kinds \cup {"EOF"}, log' = Append(log, k),
         NEW p, ParserOK(p), Sound(p, n), Tracks(p, Since(n + 1), Rounds(n + 1)),
         NEW es, emitted'[n + 1] = es,
         es = IF k = "EOF" THEN EndOfInput(p).events ELSE Push(p, k, n + 1).events
  PROVE  CallDelivers(n + 1)'
<1> DEFINE S == Since(n + 1)
           R == Rounds(n + 1)
<1>a. PICK j \in Nat : j = n + 1
  OBVIOUS
<1>0. /\ p \in Parser /\ p.rounds \in Seq(Segment)
      /\ p.state \in {"IDLE", "IN_MATCH", "IN_SHUFFLE"}
      /\ p.state # "IDLE" => p.current \in Segment /\ LastOf(p.current) = n
      /\ S \subseteq 1..n /\ R \subseteq S
  BY GroupBefore DEF ParserOK, Parser, Sound
<1>1. /\ Since(j)' = S /\ Rounds(j)' = R /\ emitted'[j] = es
      /\ \A i : SegmentEnd(i, j)' = SegmentEnd(i, j)
  BY <1>a, LaterLog, n + 1 \in 1..(n + 1)
(* It is enough to say it of the callbacks es. *)
<1>2. ASSUME ReferenceStarts(j)' = {}, Deliveries(es) = {}
      PROVE  CallDelivers(n + 1)'
  <2>1. CallDelivers(j)'
    BY <1>1, <1>2 DEF CallDelivers
  <2> QED BY <1>a, <2>1
<1>3. ASSUME NEW i \in DOMAIN es, Deliveries(es) = {i},
             NEW T, T # {}, ReferenceStarts(j)' = T,
             NEW segs, es[i].segments = segs, StartsOf(segs) = T,
             es[i].type = IF R # {} THEN "shuffle" ELSE "match",
             \A x \in DOMAIN segs :
               /\ segs[x].sequenceNumber = x - 1
               /\ LastOf(segs[x]) = SegmentEnd(StartOf(segs[x]), j)
               /\ \A h \in DOMAIN segs : h < x => StartOf(segs[h]) < StartOf(segs[x])
      PROVE  CallDelivers(n + 1)'
  <2>1. DeliversReference(es[i], j)'
    BY <1>1, <1>3 DEF DeliversReference, StartsOf
  <2>2. Deliveries(emitted'[j]) = {i} /\ i \in DOMAIN emitted'[j] /\ emitted'[j][i] = es[i]
    BY <1>1, <1>3
  <2>3. CallDelivers(j)'
    BY <1>3, <2>1, <2>2 DEF CallDelivers
  <2> QED BY <1>a, <2>3
<1>4. CASE k = "END"
  <2>0. es = EndLine(p, j).events
    BY <1>a, <1>4 DEF Push, Starts
  <2>1. CASE p.state = "IDLE"
    <3>1. es = <<Event("ORPHAN_END", j, <<>>)>>
      BY <2>0, <2>1 DEF EndLine, Result
    <3>2. Deliveries(es) = {}
      BY <3>1 DEF Event, Deliveries
    <3>3. ReferenceStarts(j)' = {}
      <4>1. S = {} /\ R = {}
        BY <1>0, <2>1 DEF Tracks
      <4> QED BY <1>a, <1>4, <4>1, ReferenceNow
    <3> QED BY <1>a, <1>2, <3>2, <3>3
  <2>2. CASE p.state = "IN_MATCH"
    <3> DEFINE one == <<p.current>>
    <3>1. es = <<Event("match", j, one), Event("close", j, <<>>)>>
      BY <2>0, <2>2 DEF EndLine, Result
    <3>2. /\ DOMAIN one = {1} /\ one[1] = p.current /\ one # <<>>
      OBVIOUS
    <3> HIDE DEF one
    <3>3. /\ DOMAIN es = {1, 2} /\ es[1].type = "match" /\ es[2].type = "close"
          /\ es[1].segments = one
      BY <3>1 DEF Event
    <3>4. Deliveries(es) = {1}
      BY <3>3 DEF Deliveries
    <3>5. R = {} /\ S # {} /\ StartOf(p.current) \in S /\ \A y \in S : y <= StartOf(p.current)
      BY <2>2 DEF Tracks
    <3>6. ReferenceStarts(j)' = {StartOf(p.current)}
      <4>1. Latest(S) = StartOf(p.current)
        <5> HIDE DEF S
        <5>1. S \subseteq Nat
          BY <1>0
        <5> QED BY <3>5, <5>1, LatestIs
      <4> QED BY <1>a, <1>4, <3>5, <4>1, ReferenceNow
    <3>7. LastOf(p.current) = SegmentEnd(StartOf(p.current), j)
      <4> DEFINE later == {x \in S : x > StartOf(p.current)} \cup {j}
      <4>1. later = {j}
        BY <1>a, <1>0, <3>5
      <4> HIDE DEF later
      <4>2. Earliest(later) = j
        <5>1. later \subseteq Nat /\ j \in later /\ \A y \in later : j <= y
          BY <4>1
        <5> QED BY <5>1, EarliestIs
      <4>3. SegmentEnd(StartOf(p.current), j) = Earliest(later) - 1
        BY <1>a DEF SegmentEnd, later
      <4> QED BY <1>a, <1>0, <2>2, <4>2, <4>3
    <3>8. p.current.sequenceNumber = 0
      BY <2>2 DEF Tracks
    <3>9. StartsOf(one) = {StartOf(p.current)}
      BY <3>2 DEF StartsOf
    <3>10. \A x \in DOMAIN one :
             /\ one[x].sequenceNumber = x - 1
             /\ LastOf(one[x]) = SegmentEnd(StartOf(one[x]), j)
             /\ \A h \in DOMAIN one : h < x => StartOf(one[h]) < StartOf(one[x])
      BY <3>2, <3>7, <3>8
    <3> HIDE DEF S, R
    <3> QED BY <1>3, <3>3, <3>4, <3>5, <3>6, <3>9, <3>10
  <2>3. CASE p.state = "IN_SHUFFLE"
    <3> DEFINE all == Bundle(p)
    <3>1. es = <<Event("shuffle", j, all), Event("close", j, <<>>)>>
      BY <2>0, <2>3 DEF EndLine, Result, Bundle
    <3>2. /\ all \in Seq(Segment) /\ all # <<>> /\ all[Len(all)] = p.current
      <4>1. all \in Seq(Segment) /\ Len(all) = Len(p.rounds) + 1 /\ all[Len(p.rounds) + 1] = p.current
        BY <1>0, <2>3, AppendAt DEF Bundle
      <4> HIDE DEF all
      <4> QED BY <1>0, <4>1
    <3>3. R # {} /\ Chained(all) /\ StartsOf(all) = R
      BY <2>3 DEF Tracks
    <3> HIDE DEF all
    <3>4. /\ DOMAIN es = {1, 2} /\ es[1].type = "shuffle" /\ es[2].type = "close"
          /\ es[1].segments = all
      BY <3>1 DEF Event
    <3>5. Deliveries(es) = {1}
      BY <3>4 DEF Deliveries
    <3>6. ReferenceStarts(j)' = R
      BY <1>a, <1>4, <3>3, ReferenceNow
    <3>7. \A x \in DOMAIN all : LastOf(all[x]) = SegmentEnd(StartOf(all[x]), j)
      <4>1. j \in Nat /\ Since(j) \subseteq 1..(j - 1) /\ LastOf(all[Len(all)]) = j - 1
        BY <1>a, <1>0, <2>3, <3>2
      <4> QED BY <1>a, <3>2, <3>3, <4>1, ChainEnds
    <3>8. \A x \in DOMAIN all :
             /\ all[x].sequenceNumber = x - 1
             /\ LastOf(all[x]) = SegmentEnd(StartOf(all[x]), j)
             /\ \A h \in DOMAIN all : h < x => StartOf(all[h]) < StartOf(all[x])
      BY <3>3, <3>7 DEF Chained
    <3> HIDE DEF S, R
    <3> QED BY <1>3, <3>3, <3>4, <3>5, <3>6, <3>8
  <2> QED BY <1>0, <2>1, <2>2, <2>3
<1>5. CASE k = "EOF"
  <2>0. es = EndOfInput(p).events
    BY <1>5
  <2>1. CASE p.state = "IDLE"
    <3>1. es = <<>>
      BY <2>0, <2>1, EndOfInputEvents
    <3>2. Deliveries(es) = {}
      BY <3>1 DEF Deliveries
    <3>3. ReferenceStarts(j)' = {}
      <4>1. R = {}
        BY <1>0, <2>1 DEF Tracks
      <4> QED BY <1>a, <1>5, <4>1, ReferenceNow
    <3> QED BY <1>a, <1>2, <3>2, <3>3
  <2>2. CASE p.state # "IDLE" /\ ~(p.state = "IN_SHUFFLE" /\ p.rounds # <<>>)
    <3>1. es = <<Event("UNCLOSED_SEGMENT", 0, <<>>), Event("abortedClose", 0, <<>>)>>
      BY <2>0, <2>2, EndOfInputEvents
    <3>2. Deliveries(es) = {}
      BY <3>1 DEF Deliveries, Event
    <3>3. CASE p.state = "IN_MATCH"
      <4>1. R = {}
        BY <3>3 DEF Tracks
      <4>2. ReferenceStarts(j)' = {}
        BY <1>a, <1>5, <4>1, ReferenceNow
      <4> QED BY <1>a, <1>2, <3>2, <4>2
    <3>4. CASE p.state = "IN_SHUFFLE"
      <4>1. Bundle(p) = Append(<<>>, p.current) /\ p.current \in Segment
        BY <1>0, <2>2, <3>4 DEF Bundle
      <4>2. DOMAIN Bundle(p) = {1} /\ Bundle(p)[1] = p.current
        BY <4>1
      <4>3. R = {StartOf(p.current)}
        BY <3>4, <4>2 DEF Tracks, StartsOf
      <4>4. Latest(R) = StartOf(p.current)
        <5> HIDE DEF R
        <5>1. R \subseteq Nat
          BY <1>0
        <5>2. StartOf(p.current) \in R /\ \A y \in R : y <= StartOf(p.current)
          BY <4>3, <5>1
        <5> QED BY <5>1, <5>2, LatestIs
      <4>5. ReferenceStarts(j)' = {}
        BY <1>a, <1>5, <4>3, <4>4, ReferenceNow
      <4> QED BY <1>a, <1>2, <3>2, <4>5
    <3> QED BY <1>0, <2>2, <3>3, <3>4
  <2>3. CASE p.state = "IN_SHUFFLE" /\ p.rounds # <<>>
    <3> DEFINE all == Bundle(p)
               done == p.rounds
    <3>1. /\ DOMAIN es = {1, 2, 3}
          /\ es[1] = Event("shuffle", 0, done)
          /\ es[2] = Event("UNCLOSED_SEGMENT", 0, <<>>)
          /\ es[3] = Event("abortedClose", 0, <<>>)
      BY <2>0, <2>3, EndOfInputEvents
    <3>2. /\ all \in Seq(Segment) /\ DOMAIN all = 1..(Len(done) + 1) /\ Len(done) \in Nat
          /\ Len(all) = Len(done) + 1
          /\ all[Len(done) + 1] = p.current
          /\ \A i \in 1..Len(done) : all[i] = done[i]
      BY <1>0, <2>3, AppendAt DEF Bundle
    <3>3. R # {} /\ Chained(all) /\ StartsOf(all) = R
      BY <2>3 DEF Tracks
    <3>4. DOMAIN done = 1..Len(done)
      BY <1>0
    <3> HIDE DEF all, done
    <3>5. /\ DOMAIN es = {1, 2, 3} /\ es[1].type = "shuffle"
          /\ es[2].type = "UNCLOSED_SEGMENT" /\ es[3].type = "abortedClose"
          /\ es[1].segments = done
      BY <3>1 DEF Event
    <3>6. Deliveries(es) = {1}
      BY <3>5 DEF Deliveries
    <3>7. StartOf(p.current) \in R /\ \A y \in R : y <= StartOf(p.current)
      <4>1. StartOf(p.current) \in R
        <5>1. Len(done) + 1 \in DOMAIN all
          BY <3>2
        <5> QED BY <3>2, <3>3, <5>1 DEF StartsOf
      <4> QED BY <1>0, <2>3, <4>1 DEF Tracks
    <3>8. Latest(R) = StartOf(p.current)
      <4> HIDE DEF R
      <4>1. R \subseteq Nat
        BY <1>0
      <4> QED BY <3>7, <4>1, LatestIs
    <3>9. ReferenceStarts(j)' = R \ {StartOf(p.current)}
      BY <1>a, <1>5, <3>3, <3>8, ReferenceNow
    <3>10. \A x \in DOMAIN all : LastOf(all[x]) = SegmentEnd(StartOf(all[x]), j)
      <4>1. /\ j \in Nat /\ Since(j) \subseteq 1..(j - 1) /\ all # <<>>
            /\ LastOf(all[Len(all)]) = j - 1
        BY <1>a, <1>0, <2>3, <3>2
      <4> QED BY <1>a, <3>2, <3>3, <4>1, ChainEnds
    <3>11. \A x \in DOMAIN done : StartOf(done[x]) < StartOf(p.current)
      <4> SUFFICES ASSUME NEW x \in DOMAIN done PROVE StartOf(done[x]) < StartOf(p.current)
        OBVIOUS
      <4>1. x \in DOMAIN all /\ x < Len(done) + 1 /\ Len(done) + 1 \in DOMAIN all
        BY <3>2, <3>4
      <4> QED BY <3>2, <3>3, <3>4, <4>1 DEF Chained
    <3>12. StartsOf(done) = R \ {StartOf(p.current)}
      <4>1. \A x \in DOMAIN done : StartOf(done[x]) \in R
        BY <3>2, <3>3, <3>4 DEF StartsOf
      <4>2. \A x \in DOMAIN done : StartOf(done[x]) # StartOf(p.current)
        <5>1. StartOf(p.current) \in Nat
          BY <1>0, <3>7
        <5> QED BY <3>11, <4>1, <1>0, <5>1
      <4>3. ASSUME NEW y \in R, y # StartOf(p.current)
            PROVE  \E x \in DOMAIN done : y = StartOf(done[x])
        <5>1. PICK x \in DOMAIN all : y = StartOf(all[x])
          BY <3>3 DEF StartsOf
        <5>2. x # Len(done) + 1
          BY <3>2, <4>3, <5>1
        <5> QED BY <3>2, <3>4, <5>1, <5>2
      <4> QED BY <4>1, <4>2, <4>3 DEF StartsOf
    <3>13. \A x \in DOMAIN done :
             /\ done[x].sequenceNumber = x - 1
             /\ LastOf(done[x]) = SegmentEnd(StartOf(done[x]), j)
             /\ \A h \in DOMAIN done : h < x => StartOf(done[h]) < StartOf(done[x])
      <4>1. \A x \in DOMAIN done : x \in DOMAIN all /\ all[x] = done[x]
        BY <3>2, <3>4
      <4> QED BY <3>3, <3>10, <4>1 DEF Chained
    <3>14. StartsOf(done) # {}
      <4>1. 1 \in DOMAIN done
        <5>1. done # <<>> /\ done \in Seq(Segment)
          BY <1>0, <2>3 DEF done
        <5> QED BY <5>1
      <4> QED BY <4>1 DEF StartsOf
    <3> HIDE DEF S, R
    <3> QED BY <1>3, <3>3, <3>5, <3>6, <3>9, <3>12, <3>13, <3>14
  <2> QED BY <1>0, <2>1, <2>2, <2>3
<1>6. CASE k \in Starts \cup {"OTHER"}
  <2>1. ReferenceStarts(j)' = {}
    BY <1>a, <1>6, ReferenceNow DEF Starts
  <2>2. Deliveries(es) = {}
    <3>1. CASE k = "OTHER"
      <4>1. es = <<>>
        BY <3>1 DEF Push, Starts, OtherLine, Result
      <4> QED BY <4>1 DEF Deliveries
    <3>2. CASE k \in Starts
      <4>0. es = StartLine(p, k, n + 1).events
        BY <3>2 DEF Push, Starts
      <4>1. CASE p.state = "IDLE"
        <5>1. es = <<Event("open", n + 1, <<>>)>>
          BY <4>0, <4>1 DEF StartLine, Result
        <5> QED BY <5>1 DEF Deliveries, Event
      <4>2. CASE p.state = "IN_MATCH"
        <5>1. es = <<Event("DOUBLE_START", n + 1, <<>>)>>
          BY <4>0, <4>2 DEF StartLine, Result
        <5> QED BY <5>1 DEF Deliveries, Event
      <4>3. CASE p.state = "IN_SHUFFLE"
        <5>1. es = <<>>
          BY <4>0, <4>3 DEF StartLine, Result
        <5> QED BY <5>1 DEF Deliveries
      <4> QED BY <1>0, <4>1, <4>2, <4>3
    <3> QED BY <1>6, <3>1, <3>2
  <2> QED BY <1>a, <1>2, <2>1, <2>2
<1> QED BY <1>4, <1>5, <1>6 DEF Kinds

(* Open and close keep alternating when one more call is recorded. *)
LEMMA NowSignals ==
  ASSUME NEW n \in Nat, n = Len(log), Len(log') = n + 1,
         emitted \in Seq(Seq(EventSet)), Len(emitted) = n, OpenCloseAlternate,
         NEW es \in Seq(EventSet), emitted' = Append(emitted, es),
         CallSignals(parser, es, parser')
  PROVE  OpenCloseAlternate'
<1>1. /\ DOMAIN emitted = 1..n /\ DOMAIN emitted' = 1..(n + 1)
      /\ emitted'[n + 1] = es /\ \A j \in 1..n : emitted'[j] = emitted[j]
  BY AppendAt
<1>2. \A j \in 1..n : (j \in Signalling' <=> j \in Signalling) /\ (Opens(j)' <=> Opens(j))
  BY <1>1 DEF Signalling, Opens
<1>3. Signalling \subseteq 1..n /\ Signalling' \subseteq 1..(n + 1)
  BY <1>1 DEF Signalling
<1>4. \A m \in 0..n : OpenAfter(m)' <=> OpenAfter(m)
  <2> SUFFICES ASSUME NEW m \in 0..n PROVE OpenAfter(m)' <=> OpenAfter(m)
    OBVIOUS
  <2>1. \A j \in 1..(n + 1) : j \in Signalling' /\ j <= m <=> j \in Signalling /\ j <= m
    BY <1>2, <1>3
  <2>2. \A j \in Signalling : Opens(j)' <=> Opens(j)
    BY <1>2, <1>3
  <2>3. ASSUME OpenAfter(m) PROVE OpenAfter(m)'
    <3>1. PICK j \in Signalling : /\ j <= m /\ Opens(j)
                                  /\ ~\E i \in Signalling : j < i /\ i <= m
      BY <2>3 DEF OpenAfter
    <3>2. j \in Signalling' /\ Opens(j)'
      BY <1>3, <2>1, <2>2, <3>1
    <3>3. ~\E i \in Signalling' : j < i /\ i <= m
      BY <1>3, <2>1, <3>1
    <3> QED BY <3>1, <3>2, <3>3 DEF OpenAfter
  <2>4. ASSUME OpenAfter(m)' PROVE OpenAfter(m)
    <3>1. PICK j \in Signalling' : /\ j <= m /\ Opens(j)'
                                   /\ ~\E i \in Signalling' : j < i /\ i <= m
      BY <2>4 DEF OpenAfter
    <3>2. j \in Signalling /\ Opens(j)
      BY <1>3, <2>1, <2>2, <3>1
    <3>3. ~\E i \in Signalling : j < i /\ i <= m
      BY <1>3, <2>1, <3>1
    <3> QED BY <3>1, <3>2, <3>3 DEF OpenAfter
  <2> QED BY <2>3, <2>4
<1>5. OpenAfter(n) <=> HasOpenSegment(parser)
  BY DEF OpenCloseAlternate
<1>6. /\ (n + 1 \in Signalling') <=> Signals(es) # {}
      /\ Opens(n + 1)' <=> \E i \in Signals(es) : es[i].type = "open"
  BY <1>1 DEF Signalling, Opens
<1>7. OpenAfter(n + 1)' <=> HasOpenSegment(parser')
  <2>1. CASE Signals(es) = {}
    <3>1. \A j \in Signalling' : j \in 1..n
      BY <1>3, <1>6, <2>1
    <3>2. OpenAfter(n + 1)' <=> OpenAfter(n)'
      BY <3>1 DEF OpenAfter
    <3>3. HasOpenSegment(parser') <=> HasOpenSegment(parser)
      BY <2>1 DEF CallSignals
    <3> QED BY <1>4, <1>5, <3>2, <3>3
  <2>2. CASE Signals(es) # {}
    <3>1. n + 1 \in Signalling'
      BY <1>6, <2>2
    <3>2. OpenAfter(n + 1)' <=> Opens(n + 1)'
      BY <1>3, <3>1 DEF OpenAfter
    <3>3. Opens(n + 1)' <=> HasOpenSegment(parser')
      BY <1>6, <2>2 DEF CallSignals
    <3> QED BY <3>2, <3>3
  <2> QED BY <2>1, <2>2
<1>8. ASSUME NEW j \in 1..n
      PROVE  /\ \A h, i \in Signals(emitted'[j]) : h = i
             /\ Signals(emitted'[j]) # {} => (Opens(j)' <=> ~OpenAfter(j - 1)')
             /\ \A d \in Deliveries(emitted'[j]) :
                  ~Opens(j)' /\ \E i \in Signals(emitted'[j]) : d < i
  <2>1. /\ emitted'[j] = emitted[j] /\ j - 1 \in 0..n
        /\ Opens(j)' <=> Opens(j)
        /\ OpenAfter(j - 1)' <=> OpenAfter(j - 1)
    BY <1>1, <1>2, <1>4
  <2>2. /\ \A h, i \in Signals(emitted[j]) : h = i
        /\ Signals(emitted[j]) # {} => (Opens(j) <=> ~OpenAfter(j - 1))
        /\ \A d \in Deliveries(emitted[j]) :
             ~Opens(j) /\ \E i \in Signals(emitted[j]) : d < i
    BY <1>1 DEF OpenCloseAlternate
  <2> QED BY <2>1, <2>2
<1>9. /\ \A h, i \in Signals(es) : h = i
      /\ Signals(es) # {} => (Opens(n + 1)' <=> ~OpenAfter(n)')
      /\ \A d \in Deliveries(es) : ~Opens(n + 1)' /\ \E i \in Signals(es) : d < i
  <2>1. Signals(es) # {} => (Opens(n + 1)' <=> ~HasOpenSegment(parser))
    BY <1>6 DEF CallSignals
  <2>2. OpenAfter(n)' <=> HasOpenSegment(parser)
    BY <1>4, <1>5
  <2>3. ASSUME NEW d \in Deliveries(es)
        PROVE  ~Opens(n + 1)' /\ \E i \in Signals(es) : d < i
    BY <1>6, <2>3 DEF CallSignals
  <2> QED BY <2>1, <2>2, <2>3 DEF CallSignals
<1>10. ASSUME NEW j \in DOMAIN emitted'
       PROVE  /\ \A h, i \in Signals(emitted'[j]) : h = i
              /\ Signals(emitted'[j]) # {} => (Opens(j)' <=> ~OpenAfter(j - 1)')
              /\ \A d \in Deliveries(emitted'[j]) :
                   ~Opens(j)' /\ \E i \in Signals(emitted'[j]) : d < i
  <2>1. CASE j \in 1..n
    BY <1>8, <2>1
  <2>2. CASE j = n + 1
    <3>0. j - 1 = n
      BY <2>2
    <3>1. (OpenAfter(j - 1)' <=> OpenAfter(n)') /\ emitted'[j] = es
      BY <1>1, <2>2, <3>0
    <3>2. Opens(j)' <=> Opens(n + 1)'
      BY <2>2
    <3>3. \A h, i \in Signals(emitted'[j]) : h = i
      BY <1>9, <3>1
    <3>4. Signals(emitted'[j]) # {} => (Opens(j)' <=> ~OpenAfter(j - 1)')
      <4>1. CASE Signals(es) = {}
        BY <3>1, <4>1
      <4>2. CASE Signals(es) # {}
        <5>1. Opens(n + 1)' <=> ~OpenAfter(n)'
          BY <1>9, <4>2
        <5>2. Opens(j)' <=> ~OpenAfter(j - 1)'
          BY <3>1, <3>2, <5>1
        <5> QED BY <5>2
      <4> QED BY <4>1, <4>2
    <3>5. \A d \in Deliveries(emitted'[j]) : ~Opens(j)' /\ \E i \in Signals(emitted'[j]) : d < i
      BY <1>9, <3>1, <3>2
    <3> QED BY <3>3, <3>4, <3>5
  <2>3. j \in 1..n \/ j = n + 1
    BY <1>1
  <2> QED BY <2>1, <2>2, <2>3
<1>11. (HasOpenSegment(parser) <=> OpenAfter(Len(log)))'
  BY <1>7
<1> QED BY <1>10, <1>11 DEF OpenCloseAlternate, Signals, Deliveries

-----------------------------------------------------------------------------
(* The parser follows the log, and every call so far did what it should.   *)
IInv == /\ log \in Seq(Kinds \cup {"EOF"})
        /\ ParserOK(parser)
        /\ emitted \in Seq(Seq(EventSet))
        /\ Len(emitted) = Len(log)
        /\ Sound(parser, Len(log))
        /\ \A j \in DOMAIN emitted : EventsSound(emitted[j])
        /\ Tracks(parser, Since(Len(log) + 1), Rounds(Len(log) + 1))
        /\ MatchesReference
        /\ OpenCloseAlternate

(* A call of either kind, once it is known what it makes of the parser.    *)
LEMMA CallKeeps ==
  ASSUME IInv, NEW n \in Nat, n = Len(log), NEW k \in Kinds \cup {"EOF"}, log' = Append(log, k),
         NEW es, emitted' = Append(emitted, es),
         es = IF k = "EOF" THEN EndOfInput(parser).events ELSE Push(parser, k, n + 1).events,
         es \in Seq(EventSet), EventsSound(es), ParserOK(parser'), Sound(parser', n + 1),
         CallSignals(parser, es, parser'),
         Tracks(parser', Since(n + 2)', Rounds(n + 2)')
  PROVE  IInv'
<1>1. /\ log' \in Seq(Kinds \cup {"EOF"}) /\ Len(log') = n + 1
      /\ DOMAIN log = 1..n /\ DOMAIN log' = 1..(n + 1)
  BY AppendAt DEF IInv
<1>2. /\ emitted' \in Seq(Seq(EventSet)) /\ Len(emitted') = n + 1
      /\ DOMAIN emitted = 1..n /\ DOMAIN emitted' = 1..(n + 1)
      /\ emitted'[n + 1] = es /\ \A j \in 1..n : emitted'[j] = emitted[j]
  BY AppendAt DEF IInv
<1>3. \A j \in DOMAIN emitted' : EventsSound(emitted'[j])
  BY <1>2 DEF IInv
<1>4. PICK p : p = parser
  OBVIOUS
<1>5. CallDelivers(n + 1)'
  <2>1. ParserOK(p) /\ Sound(p, n) /\ Tracks(p, Since(n + 1), Rounds(n + 1))
    BY <1>4 DEF IInv
  <2>2. es = IF k = "EOF" THEN EndOfInput(p).events ELSE Push(p, k, n + 1).events
    BY <1>4
  <2> QED BY <1>2, <2>1, <2>2, NowDelivers DEF IInv
<1>6. ASSUME NEW j \in 1..n PROVE CallDelivers(j)'
  <2>1. CallDelivers(j)
    BY <1>1 DEF IInv, MatchesReference
  <2>2. /\ Rounds(j)' = Rounds(j) /\ ReferenceStarts(j)' = ReferenceStarts(j)
        /\ \A i : SegmentEnd(i, j)' = SegmentEnd(i, j)
    BY LaterLog, j \in 1..(n + 1) DEF IInv
  <2>3. \A d : DeliversReference(d, j)' <=> DeliversReference(d, j)
    BY <2>2 DEF DeliversReference
  <2>4. emitted'[j] = emitted[j]
    BY <1>2
  <2> QED BY <2>1, <2>2, <2>3, <2>4 DEF CallDelivers
<1>7. MatchesReference'
  <2>1. \A j \in 1..(n + 1) : CallDelivers(j)'
    BY <1>5, <1>6
  <2> QED BY <1>1, <2>1 DEF MatchesReference
<1>8. OpenCloseAlternate'
  BY <1>1, NowSignals DEF IInv
<1>9. Tracks(parser, Since(Len(log) + 1), Rounds(Len(log) + 1))'
  <2>1. Len(log') + 1 = n + 2
    BY <1>1
  <2> QED BY <2>1
<1>10. Sound(parser', Len(log'))
  BY <1>1
<1> QED BY <1>1, <1>2, <1>3, <1>7, <1>8, <1>9, <1>10 DEF IInv, ParserOK, Sound, Tracks

(* IInv holds in every reachable state. *)
LEMMA InductiveInvariant == Spec => []IInv
<1>1. Init => IInv
  <2> SUFFICES ASSUME Init PROVE IInv
    OBVIOUS
  <2>1. log = <<>> /\ emitted = <<>> /\ parser = IdleParser /\ parser.state = "IDLE"
    BY DEF Init, IdleParser
  <2>2. ParserOK(parser) /\ Sound(parser, Len(log))
    BY <2>1, IdleParserOK DEF Sound, IdleParser
  <2>3. Since(Len(log) + 1) = {} /\ Rounds(Len(log) + 1) = {}
    BY <2>1 DEF Since, Rounds
  <2>4. Tracks(parser, Since(Len(log) + 1), Rounds(Len(log) + 1))
    BY <2>1, <2>3 DEF Tracks
  <2>5. MatchesReference
    BY <2>1 DEF MatchesReference
  <2>6. OpenCloseAlternate
    BY <2>1 DEF OpenCloseAlternate, OpenAfter, Signalling, HasOpenSegment
  <2> QED BY <2>1, <2>2, <2>4, <2>5, <2>6 DEF IInv
<1>2. IInv /\ [Next]_vars => IInv'
  <2> SUFFICES ASSUME IInv, [Next]_vars PROVE IInv'
    OBVIOUS
  <2>0. PICK n \in Nat : n = Len(log)
    BY DEF IInv
  <2>00. Since(n + 1) \subseteq 1..n /\ Rounds(n + 1) \subseteq Since(n + 1)
    BY <2>0, GroupBefore DEF IInv
  <2>1. ASSUME NEW k \in Kinds, PushLine(k) PROVE IInv'
    <3>0. PICK r : r = Push(parser, k, n + 1)
      OBVIOUS
    <3>1. log' = Append(log, k) /\ parser' = r.parser /\ emitted' = Append(emitted, r.events)
      BY <2>0, <2>1, <3>0 DEF PushLine
    <3>2. ParserOK(r.parser) /\ r.events \in Seq(EventSet)
      BY <2>0, <3>0, PushOK, n + 1 \in Nat DEF IInv
    <3>3. Sound(r.parser, n + 1) /\ EventsSound(r.events)
      BY <2>0, <3>0, PushSound DEF IInv
    <3>4. CallSignals(parser, r.events, r.parser)
      BY <2>0, <3>0, PushSignals, n + 1 \in Nat DEF IInv
    <3>5. GroupStep(k, n + 1, Since(n + 1), Rounds(n + 1), Since(n + 2)', Rounds(n + 2)')
      BY <2>0, <3>1, NextGroup DEF IInv, GroupStep
    <3>6. Tracks(r.parser, Since(n + 2)', Rounds(n + 2)')
      BY <2>0, <2>00, <3>0, <3>5, PushTracks DEF IInv
    <3>7. k # "EOF" /\ k \in Kinds \cup {"EOF"}
      BY DEF Kinds, Starts
    <3> QED BY <2>0, <3>0, <3>1, <3>2, <3>3, <3>4, <3>6, <3>7, CallKeeps
  <2>2. ASSUME End PROVE IInv'
    <3>0. PICK r : r = EndOfInput(parser)
      OBVIOUS
    <3>1. log' = Append(log, "EOF") /\ parser' = r.parser /\ emitted' = Append(emitted, r.events)
      BY <2>2, <3>0 DEF End
    <3>2. r.parser = IdleParser /\ r.events \in Seq(EventSet)
      BY <3>0, EndOfInputOK DEF IInv
    <3>3. EventsSound(r.events)
      BY <2>0, <3>0, EndOfInputSound DEF IInv
    <3>4. ParserOK(r.parser) /\ Sound(r.parser, n + 1)
      BY <3>2, IdleParserOK DEF Sound, IdleParser
    <3>5. CallSignals(parser, r.events, r.parser)
      BY <3>0, EndOfInputSignals DEF IInv
    <3>6. Since(n + 2)' = {} /\ Rounds(n + 2)' = {}
      BY <2>0, <3>1, NextGroup DEF IInv
    <3>7. Tracks(r.parser, Since(n + 2)', Rounds(n + 2)')
      BY <3>2, <3>6 DEF Tracks, IdleParser
    <3> QED BY <2>0, <3>0, <3>1, <3>2, <3>3, <3>4, <3>5, <3>7, CallKeeps
  <2>3. ASSUME UNCHANGED vars PROVE IInv'
    <3>1. log' = log /\ parser' = parser /\ emitted' = emitted
      BY <2>3 DEF vars
    <3>2. \A j : Since(j)' = Since(j) /\ Rounds(j)' = Rounds(j)
      BY <3>1 DEF Since, Breaks, Rounds
    <3>3. \A j : ReferenceStarts(j)' = ReferenceStarts(j)
      BY <3>1, <3>2 DEF ReferenceStarts
    <3>4. \A i, j : SegmentEnd(i, j)' = SegmentEnd(i, j)
      BY <3>2 DEF SegmentEnd
    <3>5. \A d, j : DeliversReference(d, j)' <=> DeliversReference(d, j)
      BY <3>2, <3>3, <3>4 DEF DeliversReference
    <3>6. MatchesReference'
      BY <3>1, <3>3, <3>5 DEF IInv, MatchesReference, CallDelivers
    <3>7. \A j : (Opens(j)' <=> Opens(j)) /\ (OpenAfter(j)' <=> OpenAfter(j))
      BY <3>1 DEF Opens, OpenAfter, Signalling
    <3>8. OpenCloseAlternate'
      BY <3>1, <3>7 DEF IInv, OpenCloseAlternate
    <3>9. Tracks(parser, Since(Len(log) + 1), Rounds(Len(log) + 1))'
      BY <3>1, <3>2 DEF IInv, Tracks
    <3> QED BY <3>1, <3>6, <3>8, <3>9 DEF IInv
  <2> QED BY <2>1, <2>2, <2>3 DEF Next
<1> QED BY <1>1, <1>2, PTL DEF Spec

(* Type correctness of the segmenter's state and of all it emits. *)
THEOREM TypeCorrect == Spec => []TypeOK
<1>1. IInv => TypeOK
  BY DEF IInv, TypeOK, ParserOK
<1> QED BY <1>1, InductiveInvariant, PTL

(* In every reachable state, for logs of any length, each delivered segment*)
(* and the open one is an uninterrupted run of the log whose records point *)
(* at their own raw lines.                                                 *)
THEOREM LineIndexAlignmentHolds == Spec => []LineIndexAlignment
<1>1. IInv => LineIndexAlignment
  <2> SUFFICES ASSUME IInv PROVE LineIndexAlignment
    OBVIOUS
  <2>1. ASSUME NEW s \in DeliveredSegments PROVE Whole(s)
    BY <2>1 DEF DeliveredSegments, Deliveries, IInv, EventsSound
  <2>2. parser.state # "IDLE" => Whole(parser.current)
    BY DEF IInv, Sound
  <2> QED BY <2>1, <2>2 DEF LineIndexAlignment, Whole
<1> QED BY <1>1, InductiveInvariant, PTL

(* In a log of any length the segmenter delivers exactly the matches and   *)
(* rounds a declarative reading of the log says, each by the call that     *)
(* ends it, in order, and from its first line to its last.                 *)
THEOREM MatchesReferenceHolds == Spec => []MatchesReference
<1>1. IInv => MatchesReference
  BY DEF IInv
<1> QED BY <1>1, InductiveInvariant, PTL

(* In a log of any length the open and close signals the recorder follows  *)
(* alternate and agree with the parser, and a match comes before its close.*)
THEOREM OpenCloseAlternateHolds == Spec => []OpenCloseAlternate
<1>1. IInv => OpenCloseAlternate
  BY DEF IInv
<1> QED BY <1>1, InductiveInvariant, PTL

-----------------------------------------------------------------------------
(* The number of complete lines, and the lines, when the bytes begin with  *)
(* a line: every line has three bytes.                                     *)
Lined(s) == \A i \in 1..Len(s) : s[i].part = (i - 1) % LineBytes
Thirds(n) == {LineBytes * k : k \in 1..n}

(* There are as many multiples of three up to 3n as numbers up to n.       *)
LEMMA CountThirds == ASSUME NEW n \in Nat PROVE Cardinality(Thirds(n)) = n
<1> DEFINE f == [k \in 1..n |-> LineBytes * k]
<1>1. f \in Bijection(1..n, Thirds(n))
  <2>1. f \in [1..n -> Thirds(n)]
    BY DEF Thirds
  <2>2. \A a, b \in 1..n : f[a] = f[b] => a = b
    BY DEF LineBytes
  <2>3. \A t \in Thirds(n) : \E a \in 1..n : f[a] = t
    BY DEF Thirds
  <2> QED
    BY <2>1, <2>2, <2>3, Fun_IsBij
<1>2. ExistsBijection(1..n, Thirds(n))
  BY <1>1 DEF ExistsBijection
<1> QED
  BY <1>2, FS_CountingElements

(* Where the line feeds are.                                               *)
LEMMA NewlinesAt ==
  ASSUME NEW s \in Seq(ByteSet), Lined(s)
  PROVE  /\ Newlines(s) = Thirds(Len(s) \div LineBytes)
         /\ Len(s) \div LineBytes \in Nat
         /\ LineBytes * (Len(s) \div LineBytes) <= Len(s)
         /\ Len(s) < LineBytes * (Len(s) \div LineBytes) + LineBytes
<1>1. Len(s) \in Nat /\ DOMAIN s = 1..Len(s)
  OBVIOUS
<1>2. PICK m \in Nat : m = Len(s) \div LineBytes
  BY <1>1 DEF LineBytes
<1>3. LineBytes * m <= Len(s) /\ Len(s) < LineBytes * m + LineBytes
  BY <1>1, <1>2 DEF LineBytes
<1>4. ASSUME NEW i \in Newlines(s) PROVE i \in Thirds(m)
  <2>1. i \in 1..Len(s) /\ (i - 1) % LineBytes = LineBytes - 1
    BY <1>1, <1>4 DEF Newlines, IsNewline, Lined
  <2>2. PICK k \in Nat : k = (i - 1) \div LineBytes
    BY <2>1 DEF LineBytes
  <2>3. i = LineBytes * (k + 1) /\ k + 1 \in 1..m
    BY <1>1, <1>3, <2>1, <2>2 DEF LineBytes
  <2> QED
    BY <2>3 DEF Thirds
<1>5. ASSUME NEW k \in 1..m PROVE LineBytes * k \in Newlines(s)
  <2>1. LineBytes * k \in 1..Len(s) /\ (LineBytes * k - 1) % LineBytes = LineBytes - 1
    BY <1>1, <1>3, <1>5 DEF LineBytes
  <2> QED
    BY <1>1, <2>1 DEF Newlines, IsNewline, Lined
<1> QED
  BY <1>2, <1>3, <1>4, <1>5 DEF Thirds

(* The complete lines.                                                     *)
LEMMA LinesAt ==
  ASSUME NEW s \in Seq(ByteSet), Lined(s), NEW m \in Nat, m = Len(s) \div LineBytes
  PROVE  /\ CompleteLines(s) = [k \in 1..m |-> SubSeq(s, LineBytes * k - 2, LineBytes * k - 1)]
         /\ CompleteLength(s) = LineBytes * m
<1>1. Newlines(s) = Thirds(m)
  BY NewlinesAt
<1>2. Cardinality(Newlines(s)) = m
  BY <1>1, CountThirds
<1> DEFINE nl == Newlines(s)
           EndAt(k) == CHOOSE e \in nl : Cardinality({x \in nl : x <= e}) = k
           BeginAt(k) == IF k = 1 THEN 1 ELSE EndAt(k - 1) + 1
<1>3. ASSUME NEW k \in 1..m PROVE EndAt(k) = LineBytes * k
  <2>1. ASSUME NEW j \in 1..m PROVE Cardinality({x \in nl : x <= LineBytes * j}) = j
    <3>1. ASSUME NEW x \in Thirds(m), x <= LineBytes * j PROVE x \in Thirds(j)
      <4>1. PICK i \in 1..m : x = LineBytes * i
        BY <3>1 DEF Thirds
      <4>2. i \in 1..j
        BY <2>1, <3>1, <4>1 DEF LineBytes
      <4> QED
        BY <4>1, <4>2 DEF Thirds
    <3>2. ASSUME NEW x \in Thirds(j) PROVE x \in Thirds(m) /\ x <= LineBytes * j
      <4>1. PICK i \in 1..j : x = LineBytes * i
        BY <3>2 DEF Thirds
      <4>2. i \in 1..m /\ x <= LineBytes * j
        BY <2>1, <4>1 DEF LineBytes
      <4> QED
        BY <4>1, <4>2 DEF Thirds
    <3>3. {x \in Newlines(s) : x <= LineBytes * j} = Thirds(j)
      BY <1>1, <3>1, <3>2
    <3>4. Cardinality({x \in Newlines(s) : x <= LineBytes * j}) = j
      <4>1. j \in Nat
        BY <2>1
      <4>2. Cardinality(Thirds(j)) = j
        BY <4>1, CountThirds
      <4> QED
        BY <3>3, <4>2
    <3> QED
      BY <3>4
  <2>2. LineBytes * k \in nl
    BY <1>1 DEF Thirds
  <2>3. ASSUME NEW e \in nl, Cardinality({x \in nl : x <= e}) = k PROVE e = LineBytes * k
    <3>1. PICK j \in 1..m : e = LineBytes * j
      BY <1>1, <2>3 DEF Thirds
    <3> QED
      BY <2>1, <2>3, <3>1
  <2> QED
    BY <2>1, <2>2, <2>3
<1>4. ASSUME NEW k \in 1..m PROVE BeginAt(k) = LineBytes * k - 2
  <2>1. CASE k = 1
    BY <2>1 DEF LineBytes
  <2>2. CASE k # 1
    <3>1. k - 1 \in 1..m
      BY <2>2
    <3>2. EndAt(k - 1) = LineBytes * (k - 1)
      BY <1>3, <3>1
    <3>3. LineBytes * (k - 1) + 1 = LineBytes * k - 2
      BY DEF LineBytes
    <3>4. BeginAt(k) = EndAt(k - 1) + 1
      BY <2>2
    <3> HIDE DEF EndAt, BeginAt
    <3> QED
      BY <3>2, <3>3, <3>4
  <2> HIDE DEF BeginAt
  <2> QED
    BY <2>1, <2>2
<1>5. CompleteLines(s) = [k \in 1..m |-> SubSeq(s, BeginAt(k), EndAt(k) - 1)]
  BY <1>2 DEF CompleteLines
<1>6. \A k \in 1..m : SubSeq(s, BeginAt(k), EndAt(k) - 1) = SubSeq(s, LineBytes * k - 2, LineBytes * k - 1)
  BY <1>3, <1>4
<1>7. CompleteLines(s) = [k \in 1..m |-> SubSeq(s, LineBytes * k - 2, LineBytes * k - 1)]
  <2> HIDE DEF BeginAt, EndAt, nl
  <2> QED
    BY <1>5, <1>6
<1>8. CompleteLength(s) = LineBytes * m
  <2>1. CASE m = 0
    <3>1. Newlines(s) = {}
      BY <1>1, <2>1 DEF Thirds
    <3> QED
      BY <2>1, <3>1 DEF CompleteLength, LineBytes
  <2>2. CASE m > 0
    <3>0. LineBytes * m \in Newlines(s)
      BY <1>1, <2>2 DEF Thirds
    <3>1. ASSUME NEW y \in Newlines(s) PROVE y <= LineBytes * m /\ y \in Nat
      <4>1. PICK k \in 1..m : y = LineBytes * k
        BY <1>1, <3>1 DEF Thirds
      <4> QED
        BY <4>1 DEF LineBytes
    <3>2. Greatest(Newlines(s)) = LineBytes * m
      <4>1. PICK S : S = Newlines(s)
        OBVIOUS
      <4>2. PICK x \in Nat : x = LineBytes * m
        BY DEF LineBytes
      <4>3. Greatest(S) = x
        BY <3>0, <3>1, <4>1, <4>2 DEF Greatest
      <4> QED
        BY <4>1, <4>2, <4>3
    <3>3. Newlines(s) # {}
      BY <3>0
    <3> QED
      BY <3>2, <3>3 DEF CompleteLength
  <2> QED
    BY <2>1, <2>2
<1> QED
  BY <1>7, <1>8

-----------------------------------------------------------------------------
(* The bytes of a generation, and where they stand in the file.            *)
IsFile(g, f) == /\ g \in 1..MaxGen /\ f \in Seq(ByteSet)
                /\ \A i \in 1..Len(f) : f[i] = Byte(g, i)

LEMMA ByteType ==
  ASSUME NEW g \in 1..MaxGen, NEW n \in Nat, n >= 1
  PROVE  Byte(g, n) \in ByteSet /\ Byte(g, n).part = (n - 1) % LineBytes
<1> USE BoundsAssumption
<1>1. (n - 1) \div LineBytes \in Nat /\ (n - 1) % LineBytes \in 0..(LineBytes - 1)
  BY DEF LineBytes
<1>2. (IF n = 1 THEN 0 ELSE g) \in 0..MaxGen
  OBVIOUS
<1> QED
  BY <1>1, <1>2 DEF Byte, ByteSet

LEMMA Shifted ==
  ASSUME NEW a \in Nat, a % LineBytes = 0, NEW j \in Nat
  PROVE  (a + j) % LineBytes = j % LineBytes
  BY DEF LineBytes

(* Behind the carry stand the bytes of generation g; the carry began at off. *)
Joined(data, carry, g, off) ==
  /\ \A i \in 1..Len(carry) : data[i] = carry[i]
  /\ \A i \in 1..Len(data) : i > Len(carry) => data[i] = Byte(g, off + i)

(* What a read glues behind the carry when the carry is what follows a     *)
(* line boundary.                                                          *)
LEMMA Glued ==
  ASSUME NEW g, NEW f, IsFile(g, f),
         NEW off \in Nat, off % LineBytes = 0, NEW carry \in Seq(ByteSet), Lined(carry),
         NEW to \in Nat, off + Len(carry) <= to, to <= Len(f),
         NEW data, data = carry \o SubSeq(f, off + Len(carry) + 1, to)
  PROVE  /\ data \in Seq(ByteSet) /\ Len(data) = to - off /\ Lined(data)
         /\ Joined(data, carry, g, off)
<1>1. PICK c \in Nat : c = Len(carry)
  OBVIOUS
<1>2. PICK got : got = SubSeq(f, off + c + 1, to)
  OBVIOUS
<1>3. /\ got \in Seq(ByteSet) /\ Len(got) = to - (off + c)
      /\ \A i \in 1..Len(got) : got[i] = f[off + c + i]
  <2>0. f \in Seq(ByteSet) /\ Len(f) \in Nat
    BY DEF IsFile
  <2>1. \A i \in (off + c + 1)..to : f[i] \in ByteSet
    BY <1>1, <2>0
  <2>2. got \in Seq(ByteSet)
    BY <1>1, <1>2, <2>0, <2>1, SubSeqProperties
  <2>3. Len(got) = IF off + c + 1 <= to THEN to - (off + c + 1) + 1 ELSE 0
    BY <1>1, <1>2, <2>0, <2>1, SubSeqProperties
  <2>4. \A i \in 1..Len(got) : got[i] = f[off + c + i]
    BY <1>1, <1>2, <2>0, <2>3
  <2>5. off + c <= to
    BY <1>1
  <2>6. Len(got) = to - (off + c)
    BY <2>3, <2>5
  <2> QED
    BY <2>2, <2>4, <2>6
<1>4. /\ data = carry \o got
      /\ data \in Seq(ByteSet) /\ Len(data) = c + Len(got)
      /\ \A i \in 1..(c + Len(got)) : data[i] = IF i <= c THEN carry[i] ELSE got[i - c]
  BY <1>1, <1>2, <1>3, ConcatProperties
<1>5. \A i \in 1..c : data[i] = carry[i]
  BY <1>1, <1>3, <1>4
<1>6. ASSUME NEW i \in 1..Len(data), i > c
      PROVE  data[i] = Byte(g, off + i) /\ data[i].part = (i - 1) % LineBytes
  <2>1. i - c \in 1..Len(got) /\ data[i] = got[i - c]
    BY <1>1, <1>3, <1>4, <1>6
  <2>2. data[i] = f[off + i] /\ off + i \in 1..Len(f)
    <3>1. off + c + (i - c) = off + i
      BY <1>1, <1>6, <1>4, <1>3
    <3>2. Len(f) \in Nat
      BY DEF IsFile
    <3>3. got[i - c] = f[off + c + (i - c)]
      BY <1>3, <2>1
    <3>4. off + i \in 1..Len(f)
      BY <1>1, <1>3, <2>1, <3>2
    <3> QED
      BY <2>1, <3>1, <3>3, <3>4
  <2>3. data[i] = Byte(g, off + i) /\ g \in 1..MaxGen
    BY <2>2 DEF IsFile
  <2>4. data[i].part = (off + i - 1) % LineBytes
    <3>1. PICK n \in Nat : n = off + i /\ n >= 1
      BY <1>6, <1>4, <1>3, <1>1
    <3>2. Byte(g, n).part = (n - 1) % LineBytes
      BY <2>3, <3>1, ByteType
    <3>3. off + i - 1 = n - 1
      BY <3>1, i \in Int
    <3>4. data[i].part = (n - 1) % LineBytes
      BY <2>3, <3>1, <3>2
    <3> QED
      BY <3>3, <3>4
  <2>5. (off + i - 1) % LineBytes = (i - 1) % LineBytes
    <3>1. PICK j \in Nat : j = i - 1
      BY <1>6, <1>4, <1>3, <1>1
    <3>2. (off + j) % LineBytes = j % LineBytes
      BY <3>1, Shifted
    <3>3. off + i - 1 = off + j
      BY <3>1, i \in Int
    <3> QED
      BY <3>1, <3>2, <3>3
  <2> QED
    BY <2>3, <2>4, <2>5
<1>7. Lined(data)
  <2>1. ASSUME NEW i \in 1..Len(data) PROVE data[i].part = (i - 1) % LineBytes
    <3>1. CASE i <= c
      BY <1>1, <1>5, <3>1 DEF Lined
    <3>2. CASE i > c
      BY <1>6, <3>2
    <3> QED
      BY <1>1, <3>1, <3>2
  <2> QED
    BY <2>1 DEF Lined
<1>8. Len(data) = to - off
  BY <1>1, <1>3, <1>4
<1>9. Joined(data, carry, g, off)
  BY <1>1, <1>5, <1>6 DEF Joined
<1> QED
  BY <1>4, <1>7, <1>8, <1>9

LEMMA TwoBytes ==
  ASSUME NEW s \in Seq(ByteSet), NEW a \in Nat, a >= 1, NEW b \in Nat, b = a + 1, b <= Len(s)
  PROVE  SubSeq(s, a, b) = <<s[a], s[b]>> /\ SubSeq(s, a, b) \in Seq(ByteSet)
<1>1. a \in 1..Len(s) /\ b \in 1..Len(s) /\ Len(s) \in Nat
  OBVIOUS
<1>2. PICK t : t = SubSeq(s, a, b)
  OBVIOUS
<1>3. \A i \in a..b : s[i] \in ByteSet
  BY <1>1
<1>4. /\ t \in Seq(ByteSet) /\ Len(t) = IF a <= b THEN b - a + 1 ELSE 0
      /\ \A i \in 1..(b - a + 1) : t[i] = s[a + i - 1]
  BY <1>2, <1>3, SubSeqProperties
<1>5. Len(t) = 2
  BY <1>4
<1>6. t[1] = s[a] /\ t[2] = s[b]
  <2>1. 1 \in 1..(b - a + 1) /\ a + 1 - 1 = a /\ 2 \in 1..(b - a + 1) /\ a + 2 - 1 = b
    OBVIOUS
  <2> QED
    BY <1>4, <2>1
<1>7. t = <<s[a], s[b]>>
  BY <1>4, <1>5, <1>6
<1> QED
  BY <1>2, <1>4, <1>7

(* What the loop makes of the bytes it has: the complete lines, and what   *)
(* follows the last of them.                                               *)
LEMMA Split ==
  ASSUME NEW data \in Seq(ByteSet), Lined(data)
  PROVE  \E m \in Nat :
           /\ CompleteLength(data) = LineBytes * m /\ LineBytes * m <= Len(data)
           /\ Len(data) < LineBytes * m + LineBytes
           /\ CompleteLines(data) \in Seq(Seq(ByteSet))
           /\ CompleteLines(data)
                = [k \in 1..m |-> <<data[LineBytes * k - 2], data[LineBytes * k - 1]>>]
<1>1. PICK m \in Nat : m = Len(data) \div LineBytes
  BY NewlinesAt
<1>2. LineBytes * m <= Len(data) /\ Len(data) < LineBytes * m + LineBytes
  BY <1>1, NewlinesAt
<1>3. /\ CompleteLines(data) = [k \in 1..m |-> SubSeq(data, LineBytes * k - 2, LineBytes * k - 1)]
      /\ CompleteLength(data) = LineBytes * m
  BY <1>1, LinesAt
<1>4. ASSUME NEW k \in 1..m
      PROVE  /\ SubSeq(data, LineBytes * k - 2, LineBytes * k - 1)
                  = <<data[LineBytes * k - 2], data[LineBytes * k - 1]>>
             /\ <<data[LineBytes * k - 2], data[LineBytes * k - 1]>> \in Seq(ByteSet)
  <2>1. PICK a \in Nat : a = LineBytes * k - 2
    BY DEF LineBytes
  <2>2. PICK b \in Nat : b = LineBytes * k - 1
    BY DEF LineBytes
  <2>3. a >= 1 /\ b = a + 1 /\ b <= Len(data)
    BY <1>2, <2>1, <2>2 DEF LineBytes
  <2>4. SubSeq(data, a, b) = <<data[a], data[b]>> /\ SubSeq(data, a, b) \in Seq(ByteSet)
    BY <2>3, TwoBytes
  <2> QED
    BY <2>1, <2>2, <2>4
<1>5. CompleteLines(data) = [k \in 1..m |-> <<data[LineBytes * k - 2], data[LineBytes * k - 1]>>]
  BY <1>3, <1>4
<1>6. CompleteLines(data) \in Seq(Seq(ByteSet))
  BY <1>4, <1>5
<1> QED
  BY <1>2, <1>3, <1>5, <1>6

-----------------------------------------------------------------------------
(* What holds whatever the head of the file reads as: offsets stand at     *)
(* line boundaries, so a carry begins with a line.                         *)
Boundary(st) == st.offset % LineBytes = 0 /\ Lined(st.carry)

Shape == /\ ReaderTypeOK /\ IsFile(gen, file)
         /\ Boundary(tail) /\ Boundary(cur) /\ saved.offset % LineBytes = 0
         /\ pc \in {"open", "read"} => readFrom = cur.offset + Len(cur.carry)

(* A state record is its three fields.                                     *)
LEMMA TailRecord ==
  ASSUME NEW st, st \in TailSet
  PROVE  /\ st.offset \in Nat /\ st.checksum \in Seq(ByteSet) /\ st.carry \in Seq(ByteSet)
         /\ Len(st.carry) \in Nat
  BY DEF TailSet

LEMMA FreshState ==
  ASSUME NEW offset \in Nat, offset % LineBytes = 0, NEW checksum \in Seq(ByteSet),
         NEW st, st = InitialTailState(offset, checksum)
  PROVE  /\ st \in TailSet /\ Boundary(st)
         /\ st.offset = offset /\ st.checksum = checksum /\ st.carry = <<>> /\ Len(st.carry) = 0
<1>1. Lined(<<>>) /\ <<>> \in Seq(ByteSet)
  BY DEF Lined
<1> QED
  BY <1>1 DEF InitialTailState, TailSet, Boundary

(* The first line of a generation, as far as it is written.                *)
Part == <<Byte(1, 1)>>
Sum(g) == <<Byte(g, 1), Byte(g, 2)>>

LEMMA FileLined ==
  ASSUME NEW g, NEW f, IsFile(g, f)
  PROVE  g \in 1..MaxGen /\ f \in Seq(ByteSet) /\ Len(f) \in Nat /\ Lined(f)
<1>1. g \in 1..MaxGen /\ f \in Seq(ByteSet) /\ \A i \in 1..Len(f) : f[i] = Byte(g, i)
  BY DEF IsFile
<1>2. ASSUME NEW i \in 1..Len(f) PROVE f[i].part = (i - 1) % LineBytes
  <2>1. i \in Nat /\ i >= 1
    OBVIOUS
  <2> QED
    BY <1>1, <2>1, ByteType
<1> QED
  BY <1>1, <1>2 DEF Lined

LEMMA HeadRead ==
  ASSUME NEW g, NEW f, IsFile(g, f)
  PROVE  /\ FirstLineChecksumOf(f) \in Seq(ByteSet)
         /\ Len(f) = 0 => FirstLineChecksumOf(f) = NULL
         /\ Len(f) = 1 => FirstLineChecksumOf(f) = Part
         /\ Len(f) >= 2 => FirstLineChecksumOf(f) = Sum(g)
         /\ Newlines(f) # {} => Len(f) >= LineBytes
<1> DEFINE m == Len(f) \div LineBytes
           sum == FirstLineChecksumOf(f)
<1>a. f \in Seq(ByteSet) /\ Lined(f)
  BY FileLined
<1>0. f \in Seq(ByteSet) /\ Len(f) \in Nat
  BY <1>a
<1>n. PICK n \in Nat : n = Len(f)
  BY <1>0
<1>1. /\ m \in Nat /\ Newlines(f) = Thirds(m)
      /\ LineBytes * m <= n /\ n < LineBytes * m + LineBytes
  BY <1>a, <1>n, NewlinesAt
<1> HIDE DEF m
<1>2. CASE n = 0
  <2>0. Len(f) = 0
    BY <1>n, <1>2
  <2>1. sum = NULL
    BY <1>0, <2>0 DEF FirstLineChecksumOf
  <2>2. Newlines(f) = {}
    BY <1>0, <2>0 DEF Newlines
  <2> QED
    BY <1>n, <1>2, <2>1, <2>2 DEF NULL
<1>3. CASE n = 1 \/ n = 2
  <2>1. m = 0
    BY <1>0, <1>n, <1>1, <1>3 DEF LineBytes
  <2>2. Newlines(f) = {}
    BY <1>1, <2>1 DEF Thirds
  <2>3. sum = SubSeq(f, 1, n)
    BY <1>0, <1>n, <1>3, <2>2 DEF FirstLineChecksumOf
  <2>4. sum = f
    BY <1>0, <1>n, <2>3
  <2>5. CASE n = 1
    <3>0. Len(f) = 1
      BY <1>n, <2>5
    <3>1. f = <<f[1]>> /\ f[1] = Byte(g, 1)
      BY <1>0, <3>0 DEF IsFile
    <3>2. Byte(g, 1) = Byte(1, 1)
      BY DEF Byte
    <3> QED
      BY <1>0, <1>n, <2>2, <2>4, <2>5, <3>1, <3>2 DEF Part
  <2>6. CASE n = 2
    <3>0. Len(f) = 2
      BY <1>n, <2>6
    <3>1. f = <<f[1], f[2]>> /\ f[1] = Byte(g, 1) /\ f[2] = Byte(g, 2)
      BY <1>0, <3>0 DEF IsFile
    <3> QED
      BY <1>0, <1>n, <2>2, <2>4, <2>6, <3>1 DEF Sum
  <2> QED
    BY <1>3, <2>5, <2>6
<1>4. CASE n >= 3
  <2>1. m >= 1
    BY <1>0, <1>n, <1>1, <1>4 DEF LineBytes
  <2>2. 3 \in Newlines(f)
    <3>1. LineBytes * 1 \in Thirds(m)
      BY <1>1, <2>1 DEF Thirds
    <3> QED
      BY <1>1, <3>1 DEF LineBytes
  <2>3. ASSUME NEW y \in Newlines(f) PROVE 3 <= y /\ y \in Nat
    <3>1. PICK k \in 1..m : y = LineBytes * k
      BY <1>1, <2>3 DEF Thirds
    <3> QED
      BY <3>1 DEF LineBytes
  <2>4. Least(Newlines(f)) = 3
    <3>1. PICK S : S = Newlines(f)
      OBVIOUS
    <3>2. Least(S) = 3
      BY <2>2, <2>3, <3>1 DEF Least
    <3> QED
      BY <3>1, <3>2
  <2>5. sum = SubSeq(f, 1, 2)
    <3>1. f # <<>> /\ Newlines(f) # {}
      BY <1>n, <1>4, <2>2
    <3>2. sum = SubSeq(f, 1, Least(Newlines(f)) - 1)
      BY <3>1 DEF FirstLineChecksumOf
    <3> QED
      BY <2>4, <3>2
  <2>6. f[1] = Byte(g, 1) /\ f[2] = Byte(g, 2)
    <3>1. \A i \in 1..n : f[i] = Byte(g, i)
      BY <1>n DEF IsFile
    <3> QED
      BY <1>4, <3>1
  <2>7. SubSeq(f, 1, 2) \in Seq(ByteSet) /\ SubSeq(f, 1, 2) = <<f[1], f[2]>>
    <3>1. 2 \in Nat /\ 1 \in Nat /\ 1 >= 1 /\ 2 = 1 + 1 /\ 2 <= Len(f)
      BY <1>n, <1>4
    <3> QED
      BY <1>0, <3>1, TwoBytes
  <2>8. sum \in Seq(ByteSet) /\ sum = Sum(g)
    BY <2>5, <2>6, <2>7 DEF Sum
  <2> QED
    BY <1>0, <1>n, <1>4, <2>8 DEF LineBytes
<1>5. n = 0 \/ n = 1 \/ n = 2 \/ n >= 3
  OBVIOUS
<1> QED
  BY <1>2, <1>3, <1>4, <1>5

-----------------------------------------------------------------------------
LEMMA Suffix ==
  ASSUME NEW s \in Seq(ByteSet), NEW n \in Nat, NEW len \in Nat, len <= Len(s), n <= len,
         NEW t, t = SubSeq(s, n + 1, len)
  PROVE  /\ t \in Seq(ByteSet) /\ Len(t) = len - n
         /\ \A i \in 1..(len - n) : t[i] = s[n + i]
<1>1. \A i \in (n + 1)..len : s[i] \in ByteSet
  OBVIOUS
<1>2. t \in Seq(ByteSet)
  BY <1>1, SubSeqProperties
<1>3. Len(t) = IF n + 1 <= len THEN len - (n + 1) + 1 ELSE 0
  BY SubSeqProperties
<1>4. Len(t) = len - n
  BY <1>3
<1>5. \A i \in 1..(len - n) : t[i] = s[n + 1 + i - 1]
  BY <1>4
<1>6. \A i \in 1..(len - n) : n + 1 + i - 1 = n + i
  OBVIOUS
<1> QED
  BY <1>2, <1>4, <1>5, <1>6

(* One chunk: data is what the carry and the bytes read make.              *)
LEMMA ChunkStep ==
  ASSUME Shape, ReadChunk
  PROVE  \E data \in Seq(ByteSet), m \in Nat :
           /\ Lined(data)
           /\ cur.offset + Len(data) <= size /\ cur.offset + Len(data) <= Len(file)
           /\ Len(cur.carry) <= Len(data)
           /\ LineBytes * m <= Len(data) /\ Len(data) < LineBytes * m + LineBytes
           /\ Joined(data, cur.carry, gen, cur.offset)
           /\ readFrom' = cur.offset + Len(data)
           /\ CompleteLines(data) \in Seq(Seq(ByteSet))
           /\ CompleteLines(data)
                = [k \in 1..m |-> <<data[LineBytes * k - 2], data[LineBytes * k - 1]>>]
           /\ lines' = lines \o CompleteLines(data)
           /\ cur' \in TailSet /\ Boundary(cur')
           /\ cur'.offset = cur.offset + LineBytes * m /\ cur'.checksum = cur.checksum
           /\ Len(cur'.carry) = Len(data) - LineBytes * m
           /\ \A i \in 1..(Len(data) - LineBytes * m) : cur'.carry[i] = data[LineBytes * m + i]
<1>1. /\ cur \in TailSet /\ Boundary(cur) /\ IsFile(gen, file) /\ size \in Nat /\ readFrom \in Nat
      /\ readFrom = cur.offset + Len(cur.carry)
  BY DEF Shape, ReaderTypeOK, ReadChunk
<1>2. PICK off \in Nat, c \in Seq(ByteSet), n \in Nat :
        off = cur.offset /\ c = cur.carry /\ n = Len(c)
  BY <1>1, TailRecord
<1>3. readFrom = off + n /\ off % LineBytes = 0 /\ Lined(c)
  BY <1>1, <1>2 DEF Boundary
<1>4. file \in Seq(ByteSet) /\ Len(file) \in Nat
  BY <1>1 DEF IsFile
<1>5. PICK flen \in Nat : flen = Len(file)
  BY <1>4
<1>6. readFrom < size /\ flen > readFrom
  BY <1>5 DEF ReadChunk
<1> DEFINE want == IF size - readFrom < Chunk THEN size - readFrom ELSE Chunk
           got  == Available(readFrom, want)
<1>7. PICK w \in Nat : w = want /\ w >= 1 /\ w <= size - readFrom
  BY <1>1, <1>6, BoundsAssumption
<1>8. PICK to \in Nat : to = (IF readFrom + w <= flen THEN readFrom + w ELSE flen)
                        /\ readFrom < to /\ to <= flen /\ to <= size
  BY <1>1, <1>6, <1>7
<1>9. got = SubSeq(file, off + n + 1, to)
  BY <1>3, <1>5, <1>7, <1>8 DEF Available
<1>10. PICK data : data = c \o SubSeq(file, off + n + 1, to)
  OBVIOUS
<1>11. /\ data \in Seq(ByteSet) /\ Len(data) = to - off /\ Lined(data)
       /\ Joined(data, c, gen, off)
  <2>1. /\ off + Len(c) <= to /\ to <= Len(file)
        /\ data = c \o SubSeq(file, off + Len(c) + 1, to)
    BY <1>2, <1>3, <1>5, <1>8, <1>10
  <2>2. /\ IsFile(gen, file) /\ off \in Nat /\ off % LineBytes = 0
        /\ c \in Seq(ByteSet) /\ Lined(c) /\ to \in Nat
    BY <1>1, <1>2, <1>3, <1>8
  <2>3. data \in Seq(ByteSet)
    BY <2>1, <2>2, Glued
  <2>4. Len(data) = to - off
    BY <2>1, <2>2, Glued
  <2>5. Lined(data)
    BY <2>1, <2>2, Glued
  <2>6. Joined(data, c, gen, off)
    BY <2>1, <2>2, Glued
  <2> QED
    BY <2>3, <2>4, <2>5, <2>6
<1>12. PICK m \in Nat :
         /\ CompleteLength(data) = LineBytes * m /\ LineBytes * m <= Len(data)
         /\ Len(data) < LineBytes * m + LineBytes
         /\ CompleteLines(data) \in Seq(Seq(ByteSet))
         /\ CompleteLines(data)
              = [k \in 1..m |-> <<data[LineBytes * k - 2], data[LineBytes * k - 1]>>]
  BY <1>11, Split
<1>13. Len(got) = to - (off + n)
  <2>1. Len(data) = n + Len(got) /\ Len(got) \in Nat
    <3>1. SubSeq(file, off + n + 1, to) \in Seq(ByteSet)
      BY <1>3, <1>4, <1>5, <1>8
    <3>2. PICK q \in Seq(ByteSet) : q = SubSeq(file, off + n + 1, to)
      BY <3>1
    <3>3. Len(c \o q) = n + Len(q) /\ Len(q) \in Nat
      BY <1>2
    <3> QED
      BY <1>9, <1>10, <3>2, <3>3
  <2> QED
    BY <1>8, <1>11, <2>1
<1>14. /\ readFrom' = readFrom + Len(got)
       /\ lines' = lines \o CompleteLines(c \o got)
       /\ cur' = [cur EXCEPT !.offset = @ + CompleteLength(c \o got),
                             !.carry = SubSeq(c \o got, CompleteLength(c \o got) + 1, Len(c \o got))]
  BY <1>2 DEF ReadChunk
<1>15. c \o got = data
  BY <1>9, <1>10
<1>16. PICK len \in Nat, done \in Nat : len = Len(data) /\ done = LineBytes * m /\ done <= len
  BY <1>11, <1>12 DEF LineBytes
<1>17. /\ readFrom' = off + len
       /\ lines' = lines \o CompleteLines(data)
       /\ cur' = [cur EXCEPT !.offset = @ + done, !.carry = SubSeq(data, done + 1, len)]
  <2>1. readFrom + Len(got) = off + len
    BY <1>3, <1>8, <1>11, <1>13, <1>16
  <2> HIDE DEF got
  <2> QED
    BY <1>12, <1>14, <1>15, <1>16, <2>1
<1>18. PICK rest : rest = SubSeq(data, done + 1, len)
  OBVIOUS
<1>19. /\ rest \in Seq(ByteSet) /\ Len(rest) = len - done
       /\ \A i \in 1..(len - done) : rest[i] = data[done + i]
  <2>1. data \in Seq(ByteSet) /\ done \in Nat /\ len \in Nat /\ len <= Len(data) /\ done <= len
    BY <1>11, <1>16
  <2> QED
    BY <1>18, <2>1, Suffix
<1>20. /\ cur' = [cur EXCEPT !.offset = @ + done, !.carry = rest]
       /\ cur' \in TailSet
       /\ cur'.offset = off + done /\ cur'.checksum = cur.checksum /\ cur'.carry = rest
  <2>1. cur' = [cur EXCEPT !.offset = @ + done, !.carry = rest]
    BY <1>17, <1>18
  <2>2. PICK o \in Nat : o = off + done
    OBVIOUS
  <2>3. cur' = [cur EXCEPT !.offset = o, !.carry = rest]
    BY <1>2, <2>1, <2>2
  <2> QED
    BY <1>1, <1>19, <2>1, <2>2, <2>3 DEF TailSet
<1>21. done % LineBytes = 0 /\ (off + done) % LineBytes = 0
  BY <1>3, <1>16, Shifted DEF LineBytes
<1>22. Lined(rest)
  <2>1. ASSUME NEW i \in 1..(len - done) PROVE rest[i].part = (i - 1) % LineBytes
    <3>1. done + i \in 1..Len(data) /\ i - 1 \in Nat /\ done + i - 1 = done + (i - 1)
      BY <1>16
    <3>2. data[done + i].part = (done + i - 1) % LineBytes
      BY <1>11, <3>1 DEF Lined
    <3>3. (done + (i - 1)) % LineBytes = (i - 1) % LineBytes
      BY <1>21, <3>1, Shifted
    <3> QED
      BY <1>19, <3>1, <3>2, <3>3
  <2> QED
    BY <1>19, <2>1 DEF Lined
<1>23. Boundary(cur')
  BY <1>20, <1>21, <1>22 DEF Boundary
<1>24. n <= len /\ off + len <= size /\ off + len <= flen
  BY <1>1, <1>3, <1>8, <1>11, <1>16
<1> HIDE DEF want, got
<1>25. /\ off + Len(data) <= size /\ off + Len(data) <= Len(file) /\ n <= Len(data)
       /\ readFrom' = off + Len(data)
       /\ cur'.offset = off + LineBytes * m
       /\ Len(cur'.carry) = Len(data) - LineBytes * m
       /\ \A i \in 1..(Len(data) - LineBytes * m) : cur'.carry[i] = data[LineBytes * m + i]
  BY <1>5, <1>16, <1>17, <1>19, <1>20, <1>24
<1>26. /\ Len(cur.carry) <= Len(data)
       /\ Joined(data, cur.carry, gen, cur.offset)
       /\ cur.offset + Len(data) <= size /\ cur.offset + Len(data) <= Len(file)
       /\ readFrom' = cur.offset + Len(data)
       /\ cur'.offset = cur.offset + LineBytes * m
  <2>1. c = cur.carry /\ n = Len(cur.carry) /\ off = cur.offset
    BY <1>2
  <2> QED
    BY <1>11, <1>25, <2>1
<1>27. data \in Seq(ByteSet)
  BY <1>11
<1> USE <1>27
<1> WITNESS data \in Seq(ByteSet), m \in Nat
<1> QED
  BY <1>11, <1>12, <1>17, <1>20, <1>23, <1>25, <1>26

-----------------------------------------------------------------------------
LEMMA FreshFile ==
  ASSUME NEW g \in 1..MaxGen, NEW n \in Nat, NEW f, f = [i \in 1..n |-> Byte(g, i)]
  PROVE  IsFile(g, f) /\ Len(f) = n
<1>1. \A i \in 1..n : Byte(g, i) \in ByteSet
  BY ByteType
<1>2. f \in Seq(ByteSet) /\ Len(f) = n /\ \A i \in 1..n : f[i] = Byte(g, i)
  BY <1>1
<1> QED
  BY <1>2 DEF IsFile

LEMMA GrownFile ==
  ASSUME NEW g, NEW f, IsFile(g, f), NEW h, h = Append(f, Byte(g, Len(f) + 1))
  PROVE  IsFile(g, h) /\ Len(h) = Len(f) + 1
<1>1. g \in 1..MaxGen /\ f \in Seq(ByteSet) /\ \A i \in 1..Len(f) : f[i] = Byte(g, i)
  BY DEF IsFile
<1>2. PICK n \in Nat : n = Len(f)
  BY <1>1
<1>3. Byte(g, n + 1) \in ByteSet
  BY <1>1, ByteType
<1>4. /\ h \in Seq(ByteSet) /\ Len(h) = n + 1 /\ h[n + 1] = Byte(g, n + 1)
      /\ \A i \in 1..n : h[i] = f[i]
  BY <1>1, <1>2, <1>3, AppendProperties
<1>5. \A i \in 1..(n + 1) : h[i] = Byte(g, i)
  BY <1>1, <1>2, <1>4
<1> QED
  BY <1>1, <1>2, <1>4, <1>5 DEF IsFile

LEMMA ReturnKeepsShape ==
  ASSUME Shape, NEW st, st \in TailSet, Boundary(st),
         NEW rot \in BOOLEAN, NEW out \in Seq(Seq(ByteSet)), Return(st, rot, out),
         UNCHANGED <<disk, saved>>, cutShort' \in BOOLEAN
  PROVE  Shape'
<1>1. /\ pc' = "idle" /\ tail' = st /\ cur' = st /\ base' \in Nat
      /\ delivered' \in Seq(Seq(ByteSet)) /\ size' \in Nat /\ readFrom' \in Nat
      /\ lines' \in Seq(Seq(ByteSet)) /\ rotated' \in BOOLEAN /\ callGen' \in Nat
  <2>1. <<>> \in Seq(Seq(ByteSet))
    OBVIOUS
  <2>2. delivered \o out \in Seq(Seq(ByteSet))
    BY ConcatProperties DEF Shape, ReaderTypeOK
  <2> QED
    BY <2>1, <2>2 DEF Return, Shape, ReaderTypeOK
<1>2. gen' = gen /\ file' = file /\ saved' = saved
  BY DEF disk
<1>3. ReaderTypeOK'
  BY <1>1, <1>2 DEF Shape, ReaderTypeOK
<1>4. IsFile(gen', file') /\ Boundary(tail') /\ Boundary(cur') /\ saved'.offset % LineBytes = 0
  BY <1>1, <1>2 DEF Shape
<1> QED
  BY <1>1, <1>3, <1>4 DEF Shape

(* The second step of a call, with the head read as checksum, the rotation *)
(* test deciding rot, and st the state the reads would start from.         *)
CheckedAs(checksum, rot, st) ==
  /\ checksum \in {FirstLineChecksumOf(file)} \cup (IF HeadMayFail THEN {NULL} ELSE {})
  /\ rot <=> Rotated(size, tail, checksum)
  /\ st = IF rot THEN InitialTailState(0, checksum)
          ELSE [tail EXCEPT !.checksum = IF @ = NULL THEN checksum ELSE @]
  /\ cutShort' = (cutShort \/ (rot /\ tail.offset > 0 /\ gen = 1))
  /\ IF st.offset + Len(st.carry) >= size
     THEN Return(st, rot, <<>>)
     ELSE /\ pc' = "open" /\ cur' = st /\ rotated' = rot
          /\ readFrom' = st.offset + Len(st.carry) /\ lines' = <<>>
          /\ UNCHANGED <<size, callGen, tail, base, delivered>>

LEMMA CheckStep ==
  ASSUME CheckRotation
  PROVE  \E checksum, rot, st : rot \in BOOLEAN /\ CheckedAs(checksum, rot, st)
<1>1. PICK checksum \in {FirstLineChecksumOf(file)} \cup (IF HeadMayFail THEN {NULL} ELSE {}) :
        LET rot == Rotated(size, tail, checksum)
            st  == IF rot THEN InitialTailState(0, checksum)
                   ELSE [tail EXCEPT !.checksum = IF @ = NULL THEN checksum ELSE @]
            from == st.offset + Len(st.carry)
        IN  /\ cutShort' = (cutShort \/ (rot /\ tail.offset > 0 /\ gen = 1))
            /\ IF from >= size
               THEN Return(st, rot, <<>>)
               ELSE /\ pc' = "open" /\ cur' = st /\ rotated' = rot
                    /\ readFrom' = from /\ lines' = <<>>
                    /\ UNCHANGED <<size, callGen, tail, base, delivered>>
  BY DEF CheckRotation
<1>2. Rotated(size, tail, checksum) \in BOOLEAN
  BY DEF Rotated
<1>3. CheckedAs(checksum, Rotated(size, tail, checksum),
                IF Rotated(size, tail, checksum) THEN InitialTailState(0, checksum)
                ELSE [tail EXCEPT !.checksum = IF @ = NULL THEN checksum ELSE @])
  BY <1>1, Zenon DEF CheckedAs
<1> QED
  BY <1>2, <1>3

LEMMA ShapeInductive ==
  /\ ReaderInit => Shape
  /\ Shape /\ [ReaderNext]_readerVars => Shape'
<1>1. ASSUME ReaderInit PROVE Shape
  <2>1. gen \in 1..MaxGen /\ MaxGen \in Nat
    BY <1>1, BoundsAssumption DEF ReaderInit
  <2>2. NULL \in Seq(ByteSet) /\ <<>> \in Seq(Seq(ByteSet)) /\ 0 % LineBytes = 0
    BY DEF NULL, LineBytes
  <2>3. tail \in TailSet /\ Boundary(tail) /\ cur = tail
    BY <1>1, <2>2, FreshState DEF ReaderInit
  <2>4. IsFile(gen, file) /\ file \in Seq(ByteSet)
    BY <1>1, <2>1 DEF ReaderInit, IsFile
  <2>5. ReaderTypeOK
    BY <1>1, <2>1, <2>2, <2>3, <2>4 DEF ReaderInit, ReaderTypeOK
  <2> QED
    BY <1>1, <2>2, <2>3, <2>4, <2>5 DEF ReaderInit, Shape
<1>2. ASSUME Shape, [ReaderNext]_readerVars PROVE Shape'
  <2>1. CASE UNCHANGED readerVars
    BY <1>2, <2>1 DEF Shape, ReaderTypeOK, readerVars, disk, call, consumer
  <2>2. CASE GameWrites
    <3>1. IsFile(gen', file')
      BY <1>2, <2>2, GrownFile DEF Shape, GameWrites
    <3>2. gen' \in Nat /\ file' \in Seq(ByteSet)
      BY <3>1, BoundsAssumption DEF IsFile
    <3>3. UNCHANGED <<call, consumer>>
      BY <2>2 DEF GameWrites
    <3> QED
      BY <1>2, <3>1, <3>2, <3>3 DEF Shape, ReaderTypeOK, call, consumer
  <2>3. CASE GameRotates
    <3>1. PICK n \in (IF pc = "idle" THEN 0 ELSE LineBytes)..MaxBytes :
            file' = [i \in 1..n |-> Byte(gen + 1, i)]
      BY <2>3 DEF GameRotates
    <3>2. n \in Nat
      BY <3>1, BoundsAssumption DEF LineBytes
    <3>3. gen + 1 \in 1..MaxGen /\ gen' = gen + 1
      BY <1>2, <2>3, BoundsAssumption DEF GameRotates, Shape, IsFile
    <3>4. IsFile(gen', file')
      BY <3>1, <3>2, <3>3, FreshFile
    <3>5. gen' \in Nat /\ file' \in Seq(ByteSet)
      BY <3>4, BoundsAssumption DEF IsFile
    <3>6. UNCHANGED <<call, consumer>>
      BY <2>3 DEF GameRotates
    <3> QED
      BY <1>2, <3>4, <3>5, <3>6 DEF Shape, ReaderTypeOK, call, consumer
  <2>4. CASE Stat
    <3>1. pc' \in {"idle", "checksum"} /\ size' \in Nat /\ callGen' \in Nat
      BY <1>2, <2>4 DEF Stat, Shape, ReaderTypeOK
    <3>2. UNCHANGED <<cur, rotated, readFrom, lines, disk, consumer>>
      BY <2>4 DEF Stat
    <3> QED
      BY <1>2, <3>1, <3>2 DEF Shape, ReaderTypeOK, disk, consumer
  <2>5. CASE CheckRotation
    <3>1. PICK checksum, rot, st : rot \in BOOLEAN /\ CheckedAs(checksum, rot, st)
      BY <2>5, CheckStep
    <3>2. checksum \in Seq(ByteSet)
      <4>1. FirstLineChecksumOf(file) \in Seq(ByteSet)
        BY <1>2, HeadRead DEF Shape
      <4>2. NULL \in Seq(ByteSet)
        BY DEF NULL
      <4> QED
        BY <3>1, <4>1, <4>2 DEF CheckedAs
    <3>3. rot \in BOOLEAN
      BY <3>1
    <3>4. st = IF rot THEN InitialTailState(0, checksum)
               ELSE [tail EXCEPT !.checksum = IF @ = NULL THEN checksum ELSE @]
      BY <3>1 DEF CheckedAs
    <3>5. st \in TailSet /\ Boundary(st)
      <4>1. CASE rot
        <5>1. 0 % LineBytes = 0
          BY DEF LineBytes
        <5> QED
          BY <3>2, <3>4, <4>1, <5>1, FreshState
      <4>2. CASE ~rot
        <5>1. tail \in TailSet /\ Boundary(tail)
          BY <1>2 DEF Shape, ReaderTypeOK
        <5>2. PICK sum \in Seq(ByteSet) : sum = IF tail.checksum = NULL THEN checksum ELSE tail.checksum
          BY <3>2, <5>1, TailRecord
        <5>3. st = [tail EXCEPT !.checksum = sum]
          BY <3>4, <4>2, <5>2
        <5> QED
          BY <5>1, <5>3 DEF TailSet, Boundary
      <4> QED
        BY <4>1, <4>2
    <3>6. st.offset + Len(st.carry) \in Nat
      BY <3>5, TailRecord
    <3>7. /\ cutShort' = (cutShort \/ (rot /\ tail.offset > 0 /\ gen = 1))
          /\ IF st.offset + Len(st.carry) >= size
             THEN Return(st, rot, <<>>)
             ELSE /\ pc' = "open" /\ cur' = st /\ rotated' = rot
                  /\ readFrom' = st.offset + Len(st.carry) /\ lines' = <<>>
                  /\ UNCHANGED <<size, callGen, tail, base, delivered>>
      BY <3>1 DEF CheckedAs
    <3>8. UNCHANGED <<disk, saved>> /\ cutShort' \in BOOLEAN
      BY <2>5, <3>7 DEF CheckRotation
    <3>9. <<>> \in Seq(Seq(ByteSet))
      OBVIOUS
    <3>10. CASE st.offset + Len(st.carry) >= size
      BY <1>2, <3>3, <3>5, <3>7, <3>8, <3>9, <3>10, ReturnKeepsShape
    <3>11. CASE ~(st.offset + Len(st.carry) >= size)
      <4>1. /\ pc' = "open" /\ cur' = st /\ rotated' = rot
            /\ readFrom' = st.offset + Len(st.carry) /\ lines' = <<>>
            /\ UNCHANGED <<size, callGen, tail, base, delivered>>
        BY <3>7, <3>11
      <4> QED
        BY <1>2, <3>3, <3>5, <3>6, <3>8, <3>9, <4>1 DEF Shape, ReaderTypeOK, disk
    <3> QED
      BY <3>10, <3>11
  <2>6. CASE Open
    <3>1. CASE Return(cur, rotated, <<>>)
      <4>1. <<>> \in Seq(Seq(ByteSet))
        OBVIOUS
      <4>2. UNCHANGED <<disk, saved>> /\ cutShort' \in BOOLEAN
        BY <1>2, <2>6 DEF Open, Shape, ReaderTypeOK
      <4>3. cur \in TailSet /\ Boundary(cur) /\ rotated \in BOOLEAN
        BY <1>2 DEF Shape, ReaderTypeOK
      <4> QED
        BY <1>2, <3>1, <4>1, <4>2, <4>3, ReturnKeepsShape
    <3>2. CASE pc' = "read" /\ UNCHANGED <<size, cur, rotated, readFrom, lines, callGen,
                                            tail, base, delivered>>
      BY <1>2, <2>6, <3>2 DEF Open, Shape, ReaderTypeOK, disk
    <3> QED
      BY <2>6, <3>1, <3>2 DEF Open
  <2>7. CASE ReadChunk
    <3>1. PICK data \in Seq(ByteSet) :
            /\ readFrom' = cur.offset + Len(data)
            /\ CompleteLines(data) \in Seq(Seq(ByteSet))
            /\ lines' = lines \o CompleteLines(data)
            /\ cur' \in TailSet /\ Boundary(cur')
            /\ \E m \in Nat : /\ cur'.offset = cur.offset + LineBytes * m
                              /\ Len(cur'.carry) = Len(data) - LineBytes * m
      BY <1>2, <2>7, ChunkStep
    <3>2. cur \in TailSet
      BY <1>2 DEF Shape, ReaderTypeOK
    <3>3. readFrom' \in Nat
      BY <3>1, <3>2, TailRecord
    <3>4. readFrom' = cur'.offset + Len(cur'.carry)
      <4>1. PICK m \in Nat : /\ cur'.offset = cur.offset + LineBytes * m
                             /\ Len(cur'.carry) = Len(data) - LineBytes * m
        BY <3>1
      <4>2. PICK o \in Nat, len \in Nat, x \in Nat : o = cur.offset /\ len = Len(data) /\ x = LineBytes * m
        BY <3>2, TailRecord DEF LineBytes
      <4> QED
        BY <3>1, <4>1, <4>2
    <3>5. lines' \in Seq(Seq(ByteSet))
      BY <1>2, <3>1, ConcatProperties DEF Shape, ReaderTypeOK
    <3>6. UNCHANGED <<pc, size, rotated, callGen, disk, consumer>>
      BY <2>7 DEF ReadChunk
    <3> QED
      BY <1>2, <3>1, <3>3, <3>4, <3>5, <3>6 DEF Shape, ReaderTypeOK, disk, consumer
  <2>8. CASE Finish
    <3>1. Return(cur, rotated, lines) /\ UNCHANGED <<disk, saved>> /\ cutShort' \in BOOLEAN
      BY <1>2, <2>8 DEF Finish, Shape, ReaderTypeOK
    <3>2. cur \in TailSet /\ Boundary(cur) /\ rotated \in BOOLEAN /\ lines \in Seq(Seq(ByteSet))
      BY <1>2 DEF Shape, ReaderTypeOK
    <3> QED
      BY <1>2, <3>1, <3>2, ReturnKeepsShape
  <2>9. CASE Save
    <3>1. tail \in TailSet /\ Boundary(tail)
      BY <1>2 DEF Shape, ReaderTypeOK
    <3>2. saved' = [offset |-> tail.offset, checksum |-> tail.checksum]
      BY <2>9 DEF Save
    <3>3. saved' \in [offset : Nat, checksum : Seq(ByteSet)] /\ saved'.offset % LineBytes = 0
      BY <3>1, <3>2, TailRecord DEF Boundary
    <3>4. UNCHANGED <<disk, call, tail, base, delivered, cutShort>>
      BY <2>9 DEF Save
    <3> QED
      BY <1>2, <3>3, <3>4 DEF Shape, ReaderTypeOK, disk, call
  <2>10. CASE Restart
    <3>1. saved \in [offset : Nat, checksum : Seq(ByteSet)] /\ saved.offset % LineBytes = 0
      BY <1>2 DEF Shape, ReaderTypeOK
    <3>2. tail' \in TailSet /\ Boundary(tail')
      BY <2>10, <3>1, FreshState DEF Restart
    <3>3. <<>> \in Seq(Seq(ByteSet))
      OBVIOUS
    <3>4. /\ pc' = "idle" /\ cur' = tail' /\ base' \in Nat /\ size' = 0 /\ readFrom' = 0
          /\ delivered' = <<>> /\ lines' = <<>> /\ rotated' = FALSE
          /\ UNCHANGED <<disk, callGen, saved, cutShort>>
      BY <2>10, <3>1 DEF Restart
    <3> QED
      BY <1>2, <3>2, <3>3, <3>4 DEF Shape, ReaderTypeOK, disk
  <2> QED
    BY <1>2, <2>1, <2>2, <2>3, <2>4, <2>5, <2>6, <2>7, <2>8, <2>9, <2>10 DEF ReaderNext
<1> QED
  BY <1>1, <1>2

(* The reader's variables have their types, and its positions stand at     *)
(* line boundaries, whatever the head of the file reads as.                *)
THEOREM ReaderTypeCorrect == ReaderSpec => []ReaderTypeOK
<1>1. Shape => ReaderTypeOK
  BY DEF Shape
<1> QED
  BY <1>1, ShapeInductive, PTL DEF ReaderSpec

-----------------------------------------------------------------------------
(* The lines of generation g between two line boundaries.                  *)
LineUpTo(g, i) == <<Byte(g, i - 2), Byte(g, i - 1)>>
LinesOf(g, a, b) == [k \in 1..((b - a) \div LineBytes) |-> LineUpTo(g, a + LineBytes * k)]

LEMMA Multiple ==
  ASSUME NEW a \in Nat, a % LineBytes = 0
  PROVE  \E k \in Nat : a = LineBytes * k
<1>1. PICK k \in Nat : k = a \div LineBytes
  BY DEF LineBytes
<1>2. a = LineBytes * k
  BY <1>1 DEF LineBytes
<1> QED
  BY <1>1, <1>2

LEMMA NoLines ==
  ASSUME NEW g, NEW a \in Nat
  PROVE  LinesOf(g, a, a) = <<>>
<1>1. (a - a) \div LineBytes = 0
  BY DEF LineBytes
<1> QED
  BY <1>1 DEF LinesOf

(* out is the m lines of generation g behind a.                            *)
AreLines(out, g, a, m) ==
  /\ out \in Seq(Seq(ByteSet)) /\ Len(out) = m
  /\ \A k \in 1..m : out[k] = LineUpTo(g, a + LineBytes * k)

LEMMA LinesOfAre ==
  ASSUME NEW g \in 1..MaxGen, NEW a \in Nat, NEW m \in Nat, NEW b, b = a + LineBytes * m
  PROVE  \A out : out = LinesOf(g, a, b) <=> AreLines(out, g, a, m)
<1>1. (b - a) \div LineBytes = m
  BY DEF LineBytes
<1>2. ASSUME NEW k \in 1..m PROVE LineUpTo(g, a + LineBytes * k) \in Seq(ByteSet)
  <2>1. PICK n \in Nat, i \in Nat, j \in Nat : /\ n = a + LineBytes * k
                                               /\ i = n - 2 /\ i >= 1 /\ j = n - 1 /\ j >= 1
    BY DEF LineBytes
  <2>2. Byte(g, i) \in ByteSet /\ Byte(g, j) \in ByteSet
    BY <2>1, ByteType
  <2>3. <<Byte(g, i), Byte(g, j)>> \in Seq(ByteSet)
    BY <2>2
  <2>4. LineUpTo(g, n) = <<Byte(g, i), Byte(g, j)>>
    BY <2>1 DEF LineUpTo
  <2> QED
    BY <2>1, <2>3, <2>4
<1>3. LinesOf(g, a, b) = [k \in 1..m |-> LineUpTo(g, a + LineBytes * k)]
  BY <1>1 DEF LinesOf
<1>4. AreLines(LinesOf(g, a, b), g, a, m)
  BY <1>2, <1>3 DEF AreLines
<1>5. ASSUME NEW out, AreLines(out, g, a, m) PROVE out = LinesOf(g, a, b)
  <2>1. out = [k \in 1..m |-> LineUpTo(g, a + LineBytes * k)]
    BY <1>5 DEF AreLines
  <2> QED
    BY <1>3, <2>1
<1> QED
  BY <1>4, <1>5

LEMMA AreLinesOf ==
  ASSUME NEW g \in 1..MaxGen, NEW a \in Nat, NEW m \in Nat, NEW b, b = a + LineBytes * m,
         NEW out, AreLines(out, g, a, m)
  PROVE  out = LinesOf(g, a, b)
  BY LinesOfAre

(* Lines handed over in two portions are lines handed over at once.        *)
LEMMA LinesJoin ==
  ASSUME NEW g \in 1..MaxGen,
         NEW a \in Nat, a % LineBytes = 0, NEW b \in Nat, b % LineBytes = 0, a <= b,
         NEW c \in Nat, c % LineBytes = 0, b <= c
  PROVE  LinesOf(g, a, b) \o LinesOf(g, b, c) = LinesOf(g, a, c)
<1>1. PICK p \in Nat : a = LineBytes * p
  BY Multiple
<1>2. PICK q \in Nat : b = LineBytes * q
  BY Multiple
<1>3. PICK r \in Nat : c = LineBytes * r
  BY Multiple
<1>4. PICK n \in Nat, m \in Nat : n = q - p /\ m = r - q
  BY <1>1, <1>2, <1>3 DEF LineBytes
<1>5. b = a + LineBytes * n /\ c = a + LineBytes * (n + m) /\ c = b + LineBytes * m
  BY <1>1, <1>2, <1>3, <1>4 DEF LineBytes
<1>6. PICK x, y, z : x = LinesOf(g, a, b) /\ y = LinesOf(g, b, c) /\ z = LinesOf(g, a, c)
  OBVIOUS
<1>7. AreLines(x, g, a, n)
  BY <1>5, <1>6, LinesOfAre
<1>8. AreLines(y, g, b, m)
  BY <1>5, <1>6, LinesOfAre
<1>9. AreLines(z, g, a, n + m)
  BY <1>5, <1>6, LinesOfAre
<1>10. \A k \in 1..n : x[k] = z[k]
  BY <1>7, <1>9 DEF AreLines
<1>11. ASSUME NEW k \in 1..m PROVE y[k] = z[n + k]
  <2>1. PICK j \in 1..(n + m) : j = n + k
    OBVIOUS
  <2>2. b + LineBytes * k = a + LineBytes * j
    BY <1>5, <2>1 DEF LineBytes
  <2>3. z[j] = LineUpTo(g, a + LineBytes * j)
    BY <1>9 DEF AreLines
  <2>4. y[k] = LineUpTo(g, b + LineBytes * k)
    BY <1>8 DEF AreLines
  <2> QED
    BY <2>1, <2>2, <2>3, <2>4
<1>12. x \o y = z
  <2>1. /\ x \in Seq(Seq(ByteSet)) /\ Len(x) = n /\ y \in Seq(Seq(ByteSet)) /\ Len(y) = m
        /\ z \in Seq(Seq(ByteSet)) /\ Len(z) = n + m
    BY <1>7, <1>8, <1>9 DEF AreLines
  <2>2. PICK w : w = x \o y
    OBVIOUS
  <2>3. /\ w \in Seq(Seq(ByteSet)) /\ Len(w) = n + m
        /\ \A k \in 1..(n + m) : w[k] = IF k <= n THEN x[k] ELSE y[k - n]
    BY <2>1, <2>2, ConcatProperties
  <2>4. ASSUME NEW k \in 1..(n + m) PROVE w[k] = z[k]
    <3>1. CASE k <= n
      BY <1>4, <1>10, <2>3, <3>1
    <3>2. CASE k > n
      <4>1. PICK j \in 1..m : j = k - n
        BY <3>2
      <4>2. w[k] = y[j] /\ k = n + j
        BY <2>3, <3>2, <4>1
      <4> QED
        BY <1>11, <4>2
    <3> QED
      BY <3>1, <3>2
  <2>5. w = z
    BY <2>1, <2>3, <2>4
  <2> QED
    BY <2>2, <2>5
<1> QED
  BY <1>6, <1>12

(* Checksums tell the generations apart once two bytes are there.          *)
LEMMA Checksums ==
  /\ NULL # Part
  /\ \A g \in Nat : Sum(g) # NULL /\ Sum(g) # Part
  /\ \A g, h \in Nat : Sum(g) = Sum(h) => g = h
<1>1. \A g \in Nat : Len(Sum(g)) = 2 /\ Sum(g)[2].gen = g
  BY DEF Sum, Byte
<1>2. Len(NULL) = 0 /\ Len(Part) = 1
  BY DEF NULL, Part
<1>3. NULL # Part
  BY <1>2
<1>4. ASSUME NEW g \in Nat PROVE Sum(g) # NULL /\ Sum(g) # Part
  BY <1>1, <1>2
<1> QED
  BY <1>1, <1>3, <1>4

-----------------------------------------------------------------------------
(* What a position says about generation g and its bytes f: a checksum is  *)
(* that of no line, of a line with one byte, or of a generation there was; *)
(* only the last lets an offset be anything but 0.                         *)
PositionOK(p, g, f) ==
  /\ \/ p.checksum \in {NULL, Part} /\ p.offset = 0
     \/ \E h \in 1..g : p.checksum = Sum(h)
  /\ p.checksum = Sum(g) => p.offset <= Len(f) /\ Len(f) >= 2

CarryOf(carry, g, off) == \A i \in 1..Len(carry) : carry[i] = Byte(g, off + i)

StateOK(st, g, f) ==
  /\ PositionOK(st, g, f)
  /\ st.checksum = NULL => st.carry = <<>>
  /\ st.checksum = Part => Len(st.carry) <= 1
  /\ st.checksum = Sum(g) => /\ st.offset + Len(st.carry) <= Len(f)
                             /\ CarryOf(st.carry, g, st.offset)

(* The lines handed over since from. *)
HandedOK(from, to, out, g) ==
  from \in Nat /\ from <= to /\ from % LineBytes = 0 /\ out = LinesOf(g, from, to)

TailOK == /\ StateOK(tail, gen, file) /\ PositionOK(saved, gen, file)
          /\ tail.checksum = NULL => base = 0 /\ delivered = <<>>
          /\ tail.checksum = Sum(gen) => HandedOK(base, tail.offset, delivered, gen)

(* A call, while the file has not been replaced under it and after.        *)
CallOK ==
  /\ pc # "idle" => callGen \in 1..gen /\ (gen # callGen => Len(file) >= LineBytes)
  /\ pc = "checksum" /\ gen = callGen =>
       /\ size <= Len(file)
       /\ tail.checksum = Sum(gen) => tail.offset + Len(tail.carry) <= size

ReadOK ==
  /\ pc \in {"open", "read"} =>
       /\ StateOK(cur, gen, file) /\ cur.checksum # NULL
       /\ cur.checksum = Part => size <= 1
       /\ cur.checksum = Sum(gen) =>
            /\ HandedOK(IF rotated THEN 0 ELSE tail.offset, cur.offset, lines, gen)
            /\ ~rotated => tail.checksum \in {NULL, cur.checksum}
  /\ pc = "open" => lines = <<>>

Content == Shape /\ TailOK /\ CallOK /\ ReadOK /\ NoSpuriousCut

LEMMA PositionGrows ==
  ASSUME NEW p, NEW g, NEW f, NEW h, PositionOK(p, g, f), p.offset \in Nat,
         Len(f) \in Nat, Len(h) = Len(f) + 1
  PROVE  PositionOK(p, g, h)
  BY DEF PositionOK

LEMMA StateGrows ==
  ASSUME NEW st \in TailSet, NEW g, NEW f, NEW h, StateOK(st, g, f),
         Len(f) \in Nat, Len(h) = Len(f) + 1
  PROVE  StateOK(st, g, h)
<1>1. st.offset \in Nat /\ Len(st.carry) \in Nat
  BY TailRecord
<1>2. PositionOK(st, g, h)
  BY <1>1, PositionGrows DEF StateOK
<1> QED
  BY <1>1, <1>2 DEF StateOK

(* No checksum is that of a generation yet to come.                        *)
LEMMA PositionOfOld ==
  ASSUME NEW p, NEW g \in Nat, NEW f, NEW h, PositionOK(p, g, f)
  PROVE  PositionOK(p, g + 1, h) /\ p.checksum # Sum(g + 1)
<1>1. p.checksum # Sum(g + 1)
  <2>1. CASE p.checksum \in {NULL, Part}
    BY <2>1, Checksums
  <2>2. CASE \E x \in 1..g : p.checksum = Sum(x)
    <3>1. PICK x \in 1..g : p.checksum = Sum(x)
      BY <2>2
    <3>2. x \in Nat /\ g + 1 \in Nat /\ x # g + 1
      OBVIOUS
    <3> QED
      BY <3>1, <3>2, Checksums
  <2> QED
    BY <2>1, <2>2 DEF PositionOK
<1>2. \A x \in 1..g : x \in 1..(g + 1)
  OBVIOUS
<1> QED
  BY <1>1, <1>2 DEF PositionOK

LEMMA StateOfOld ==
  ASSUME NEW st, NEW g \in Nat, NEW f, NEW h, StateOK(st, g, f)
  PROVE  StateOK(st, g + 1, h) /\ st.checksum # Sum(g + 1)
<1>1. PositionOK(st, g + 1, h) /\ st.checksum # Sum(g + 1)
  BY PositionOfOld DEF StateOK
<1> QED
  BY <1>1 DEF StateOK

-----------------------------------------------------------------------------
LEMMA HandedNothing ==
  ASSUME NEW g, NEW a \in Nat, a % LineBytes = 0
  PROVE  HandedOK(a, a, <<>>, g)
<1>1. a <= a /\ <<>> = LinesOf(g, a, a)
  BY NoLines
<1> QED
  BY <1>1 DEF HandedOK

(* Two portions, the second handed over behind the first.                  *)
LEMMA HandedMore ==
  ASSUME NEW g \in 1..MaxGen, NEW a, NEW b \in Nat, b % LineBytes = 0, NEW c \in Nat,
         c % LineBytes = 0, NEW x, NEW y,
         HandedOK(a, b, x, g), HandedOK(b, c, y, g)
  PROVE  HandedOK(a, c, x \o y, g)
<1>1. /\ a \in Nat /\ a <= b /\ a % LineBytes = 0 /\ x = LinesOf(g, a, b)
      /\ b <= c /\ y = LinesOf(g, b, c)
  BY DEF HandedOK
<1>6. x \o y = LinesOf(g, a, c)
  <2>1. LinesOf(g, a, b) \o LinesOf(g, b, c) = LinesOf(g, a, c)
    BY <1>1, LinesJoin
  <2> QED
    BY <1>1, <2>1
<1>7. a <= c
  BY <1>1
<1> QED
  BY <1>1, <1>6, <1>7 DEF HandedOK

(* The end of a call, whichever step it is.                                *)
LEMMA ReturnKeepsContent ==
  ASSUME Content, NEW st, st \in TailSet, Boundary(st), StateOK(st, gen, file),
         NEW rot \in BOOLEAN, NEW out \in Seq(Seq(ByteSet)), Return(st, rot, out),
         UNCHANGED <<disk, saved, cutShort>>,
         st.checksum = NULL => (rot \/ tail.checksum = NULL) /\ out = <<>>,
         st.checksum = Sum(gen) =>
           /\ HandedOK(IF rot THEN 0 ELSE tail.offset, st.offset, out, gen)
           /\ ~rot => tail.checksum \in {NULL, st.checksum}
  PROVE  Content'
<1>1. Shape /\ TailOK /\ CallOK /\ ReadOK /\ NoSpuriousCut
  BY DEF Content
<1>2. /\ pc' = "idle" /\ tail' = st
      /\ base' = (IF rot THEN 0 ELSE base)
      /\ delivered' = (IF rot THEN out ELSE delivered \o out)
      /\ gen' = gen /\ file' = file /\ saved' = saved /\ cutShort' = cutShort
  BY DEF Return, disk
<1>3. Shape'
  <2>1. cutShort' \in BOOLEAN /\ UNCHANGED <<disk, saved>>
    BY <1>1, <1>2 DEF Shape, ReaderTypeOK
  <2> QED
    BY <1>1, <2>1, ReturnKeepsShape
<1>4. gen \in 1..MaxGen /\ gen \in Nat /\ MaxGen \in Nat
  BY <1>1, BoundsAssumption DEF Shape, IsFile
<1>5. /\ tail.offset \in Nat /\ tail.offset % LineBytes = 0
      /\ st.offset \in Nat /\ st.offset % LineBytes = 0
      /\ delivered \in Seq(Seq(ByteSet))
  BY <1>1, TailRecord DEF Shape, ReaderTypeOK, Boundary
<1>6. ASSUME st.checksum = NULL PROVE base' = 0 /\ delivered' = <<>>
  <2>1. CASE rot
    BY <1>2, <1>6, <2>1
  <2>2. CASE ~rot
    <3>1. base = 0 /\ delivered = <<>>
      BY <1>1, <1>6, <2>2 DEF TailOK
    <3>2. <<>> \o <<>> = <<>>
      OBVIOUS
    <3> QED
      BY <1>2, <1>6, <2>2, <3>1, <3>2
  <2> QED
    BY <2>1, <2>2
<1>7. ASSUME st.checksum = Sum(gen) PROVE HandedOK(base', st.offset, delivered', gen)
  <2>1. CASE rot
    BY <1>2, <1>7, <2>1
  <2>2. CASE ~rot
    <3>1. HandedOK(tail.offset, st.offset, out, gen) /\ tail.checksum \in {NULL, Sum(gen)}
      BY <1>7, <2>2
    <3>2. base' = base /\ delivered' = delivered \o out
      BY <1>2, <2>2
    <3>3. HandedOK(base, tail.offset, delivered, gen)
      <4>1. CASE tail.checksum = NULL
        <5>1. tail.offset = 0
          <6>1. (tail.checksum \in {NULL, Part} /\ tail.offset = 0) \/ \E h \in 1..gen : tail.checksum = Sum(h)
            BY <1>1 DEF TailOK, StateOK, PositionOK
          <6>2. \A h \in 1..gen : tail.checksum # Sum(h)
            BY <1>4, <4>1, Checksums
          <6> QED
            BY <6>1, <6>2
        <5>2. base = 0 /\ delivered = <<>>
          BY <1>1, <4>1 DEF TailOK
        <5>3. HandedOK(0, 0, <<>>, gen)
          BY HandedNothing DEF LineBytes
        <5> QED
          BY <5>1, <5>2, <5>3
      <4>2. CASE tail.checksum = Sum(gen)
        BY <1>1, <4>2 DEF TailOK
      <4> QED
        BY <3>1, <4>1, <4>2
    <3> QED
      BY <1>4, <1>5, <3>1, <3>2, <3>3, HandedMore
  <2> QED
    BY <2>1, <2>2
<1>8. TailOK'
  <2>1. StateOK(tail', gen', file') /\ PositionOK(saved', gen', file')
    BY <1>1, <1>2 DEF TailOK
  <2>2. tail'.checksum = NULL => base' = 0 /\ delivered' = <<>>
    BY <1>2, <1>6
  <2>3. tail'.checksum = Sum(gen') => HandedOK(base', tail'.offset, delivered', gen')
    BY <1>2, <1>7
  <2> QED
    BY <2>1, <2>2, <2>3 DEF TailOK
<1>9. CallOK' /\ ReadOK'
  BY <1>2 DEF CallOK, ReadOK
<1>10. NoSpuriousCut'
  BY <1>1, <1>2 DEF NoSpuriousCut
<1> QED
  BY <1>3, <1>8, <1>9, <1>10 DEF Content

-----------------------------------------------------------------------------
(* A state record with the checksum of the file's head has its position    *)
(* in the file: nothing is read, nothing is glued.                         *)
LEMMA FreshOK ==
  ASSUME NEW g \in Nat, NEW f, NEW p, PositionOK(p, g, f), p.offset \in Nat,
         p.offset % LineBytes = 0, p.checksum \in Seq(ByteSet),
         NEW st, st = InitialTailState(p.offset, p.checksum)
  PROVE  StateOK(st, g, f)
<1>1. /\ st.offset = p.offset /\ st.checksum = p.checksum /\ st.carry = <<>> /\ Len(st.carry) = 0
  BY FreshState
<1>2. PositionOK(st, g, f)
  BY <1>1 DEF PositionOK
<1>3. CarryOf(st.carry, g, st.offset)
  BY <1>1 DEF CarryOf
<1>4. st.checksum = Sum(g) => st.offset + Len(st.carry) <= Len(f)
  BY <1>1, <1>2 DEF PositionOK
<1> QED
  BY <1>1, <1>2, <1>3, <1>4 DEF StateOK

LEMMA HeadPosition ==
  ASSUME NEW g \in Nat, g >= 1, NEW f, IsFile(g, f), NEW p, p.offset = 0,
         p.checksum = FirstLineChecksumOf(f)
  PROVE  PositionOK(p, g, f)
<1>1. PICK n \in Nat : n = Len(f)
  BY DEF IsFile
<1>2. CASE n = 0 \/ n = 1
  <2>1. p.checksum \in {NULL, Part}
    BY <1>1, <1>2, HeadRead
  <2>2. p.checksum # Sum(g)
    BY <2>1, Checksums
  <2> QED
    BY <2>1, <2>2 DEF PositionOK
<1>3. CASE n >= 2
  <2>1. p.checksum = Sum(g)
    BY <1>1, <1>3, HeadRead
  <2>2. g \in 1..g
    OBVIOUS
  <2> QED
    BY <1>1, <1>3, <2>1, <2>2 DEF PositionOK
<1> QED
  BY <1>2, <1>3

LEMMA ContentInitial == ReaderInit => Content
<1> SUFFICES ASSUME ReaderInit PROVE Content
  OBVIOUS
<1>1. Shape
  BY ShapeInductive
<1>2. tail = InitialTailState(0, NULL) /\ saved = [offset |-> 0, checksum |-> NULL] /\ gen = 1
  BY DEF ReaderInit
<1>3. NULL # Sum(1)
  BY Checksums
<1>4. PositionOK(saved, gen, file)
  BY <1>2, <1>3 DEF PositionOK
<1>5. NULL \in Seq(ByteSet) /\ 0 % LineBytes = 0
  BY DEF NULL, LineBytes
<1>6. StateOK(tail, gen, file) /\ tail.checksum = NULL
  <2>1. saved.offset = 0 /\ saved.checksum = NULL
    BY <1>2
  <2> QED
    BY <1>2, <1>4, <1>5, <2>1, FreshOK DEF InitialTailState
<1>7. base = 0 /\ delivered = <<>> /\ pc = "idle" /\ cutShort = FALSE
  BY DEF ReaderInit
<1>8. TailOK
  BY <1>2, <1>3, <1>4, <1>6, <1>7 DEF TailOK
<1>9. CallOK /\ ReadOK /\ NoSpuriousCut
  BY <1>7 DEF CallOK, ReadOK, NoSpuriousCut
<1> QED
  BY <1>1, <1>8, <1>9 DEF Content

(* The writer appends: what was read of the file is still there.           *)
LEMMA WriteKeepsContent == Content /\ GameWrites => Content'
<1> SUFFICES ASSUME Content, GameWrites PROVE Content'
  OBVIOUS
<1>1. Shape /\ TailOK /\ CallOK /\ ReadOK /\ NoSpuriousCut
  BY DEF Content
<1>2. Shape'
  BY <1>1, ShapeInductive DEF ReaderNext
<1>3. /\ UNCHANGED <<gen, call, consumer>>
      /\ file' = Append(file, Byte(gen, Len(file) + 1))
  BY DEF GameWrites
<1>4. UNCHANGED <<gen, tail, saved, base, delivered, cutShort, pc, size, cur, rotated, readFrom, lines, callGen>>
  BY <1>3 DEF call, consumer
<1>5. Len(file') = Len(file) + 1 /\ Len(file) \in Nat
  BY <1>1, <1>3, GrownFile, FileLined DEF Shape
<1>6. /\ tail \in TailSet /\ cur \in TailSet /\ saved.offset \in Nat /\ size \in Nat
  BY <1>1 DEF Shape, ReaderTypeOK
<1>7. StateOK(tail, gen, file') /\ PositionOK(saved, gen, file')
  BY <1>1, <1>5, <1>6, StateGrows, PositionGrows DEF TailOK
<1>8. pc \in {"open", "read"} => StateOK(cur, gen, file')
  BY <1>1, <1>5, <1>6, StateGrows DEF ReadOK
<1>9. TailOK'
  BY <1>1, <1>4, <1>7 DEF TailOK
<1>10. CallOK'
  <2>1. /\ gen # callGen => (pc # "idle" => Len(file') >= LineBytes)
        /\ pc = "checksum" /\ gen = callGen => size <= Len(file')
    BY <1>1, <1>5, <1>6 DEF CallOK, LineBytes
  <2> QED
    BY <1>1, <1>4, <2>1 DEF CallOK
<1>11. ReadOK' /\ NoSpuriousCut'
  BY <1>1, <1>4, <1>8 DEF ReadOK, NoSpuriousCut
<1> QED
  BY <1>2, <1>9, <1>10, <1>11 DEF Content

(* The writer replaces the file: every checksum there is becomes that of a *)
(* generation that is gone.                                                *)
LEMMA RotateKeepsContent == Content /\ GameRotates => Content'
<1> SUFFICES ASSUME Content, GameRotates PROVE Content'
  OBVIOUS
<1>1. Shape /\ TailOK /\ CallOK /\ ReadOK /\ NoSpuriousCut
  BY DEF Content
<1>2. Shape'
  BY <1>1, ShapeInductive DEF ReaderNext
<1>3. gen' = gen + 1 /\ UNCHANGED <<call, consumer>> /\ (pc = "idle" \/ gen = callGen)
  BY DEF GameRotates
<1>4. UNCHANGED <<tail, saved, base, delivered, cutShort, pc, size, cur, rotated, readFrom, lines, callGen>>
  BY <1>3 DEF call, consumer
<1>5. gen \in 1..MaxGen /\ gen \in Nat
  BY <1>1, BoundsAssumption DEF Shape, IsFile
<1>6. pc # "idle" => Len(file') >= LineBytes
  <2>1. PICK n \in (IF pc = "idle" THEN 0 ELSE LineBytes)..MaxBytes :
          file' = [i \in 1..n |-> Byte(gen + 1, i)]
    BY DEF GameRotates
  <2>2. n \in Nat /\ (pc # "idle" => n >= LineBytes)
    BY <2>1, BoundsAssumption DEF LineBytes
  <2>3. Len(file') = n
    BY <2>1, <2>2
  <2> QED
    BY <2>2, <2>3
<1>7. /\ StateOK(tail, gen + 1, file') /\ tail.checksum # Sum(gen + 1)
      /\ PositionOK(saved, gen + 1, file')
  BY <1>1, <1>5, StateOfOld, PositionOfOld DEF TailOK
<1>8. pc \in {"open", "read"} => StateOK(cur, gen + 1, file') /\ cur.checksum # Sum(gen + 1)
  BY <1>1, <1>5, StateOfOld DEF ReadOK
<1>9. TailOK'
  BY <1>1, <1>3, <1>4, <1>7 DEF TailOK
<1>10. CallOK'
  <2>1. pc # "idle" => callGen \in 1..(gen + 1) /\ callGen # gen + 1
    BY <1>1, <1>5 DEF CallOK
  <2> QED
    BY <1>3, <1>4, <1>6, <2>1 DEF CallOK
<1>11. ReadOK'
  <2>1. pc \in {"open", "read"} => cur.checksum # NULL /\ (cur.checksum = Part => size <= 1)
    BY <1>1 DEF ReadOK
  <2>2. pc = "open" => lines = <<>>
    BY <1>1 DEF ReadOK
  <2> QED
    BY <1>3, <1>4, <1>8, <2>1, <2>2 DEF ReadOK
<1>12. NoSpuriousCut'
  BY <1>1, <1>4 DEF NoSpuriousCut
<1> QED
  BY <1>2, <1>9, <1>10, <1>11, <1>12 DEF Content

(* stat sees the file as it is.                                            *)
LEMMA StatKeepsContent == Content /\ Stat => Content'
<1> SUFFICES ASSUME Content, Stat PROVE Content'
  OBVIOUS
<1>1. Shape /\ TailOK /\ CallOK /\ ReadOK /\ NoSpuriousCut
  BY DEF Content
<1>2. Shape'
  BY <1>1, ShapeInductive DEF ReaderNext
<1>3. UNCHANGED <<cur, rotated, readFrom, lines, gen, file, tail, saved, base, delivered, cutShort>>
  BY DEF Stat, disk, consumer
<1>4. gen \in Nat /\ gen \in 1..gen /\ Len(file) \in Nat
  BY <1>1, BoundsAssumption DEF Shape, IsFile
<1>5. TailOK' /\ NoSpuriousCut'
  BY <1>1, <1>3 DEF TailOK, NoSpuriousCut
<1>6. CASE pc' = "checksum" /\ size' = Len(file) /\ callGen' = gen
  <2>1. tail.checksum = Sum(gen) => tail.offset + Len(tail.carry) <= Len(file)
    BY <1>1 DEF TailOK, StateOK
  <2>2. CallOK'
    BY <1>3, <1>4, <1>6, <2>1 DEF CallOK
  <2>3. ReadOK'
    BY <1>6 DEF ReadOK
  <2> QED
    BY <1>2, <1>5, <2>2, <2>3 DEF Content
<1>7. CASE UNCHANGED <<pc, size, callGen>>
  BY <1>1, <1>2, <1>3, <1>5, <1>7 DEF Content, CallOK, ReadOK
<1> QED
  BY <1>6, <1>7 DEF Stat

(* The rotation test.  It resets the state only when the head read is not  *)
(* the one the state was built on, and a call that goes on to read knows   *)
(* which first line it reads behind.                                       *)
LEMMA CheckKeepsContent ==
  ASSUME HeadMayFail = FALSE
  PROVE  Content /\ CheckRotation => Content'
<1> SUFFICES ASSUME Content, CheckRotation PROVE Content'
  OBVIOUS
<1>1. Shape /\ TailOK /\ CallOK /\ ReadOK /\ NoSpuriousCut
  BY DEF Content
<1>2. Shape'
  BY <1>1, ShapeInductive DEF ReaderNext
<1>3. pc = "checksum" /\ UNCHANGED <<disk, saved>> /\ gen' = gen /\ file' = file
  BY DEF CheckRotation, disk
<1>4. PICK checksum, rot, st : rot \in BOOLEAN /\ CheckedAs(checksum, rot, st)
  BY CheckStep
<1>5. checksum = FirstLineChecksumOf(file)
  BY <1>4 DEF CheckedAs
<1>6. /\ rot <=> Rotated(size, tail, checksum)
      /\ st = IF rot THEN InitialTailState(0, checksum)
              ELSE [tail EXCEPT !.checksum = IF @ = NULL THEN checksum ELSE @]
      /\ cutShort' = (cutShort \/ (rot /\ tail.offset > 0 /\ gen = 1))
      /\ rot \in BOOLEAN
  BY <1>4 DEF CheckedAs
<1>7. /\ gen \in 1..MaxGen /\ gen \in Nat /\ gen >= 1 /\ IsFile(gen, file) /\ Len(file) \in Nat
      /\ size \in Nat /\ tail \in TailSet /\ Boundary(tail)
  BY <1>1, BoundsAssumption DEF Shape, ReaderTypeOK, IsFile
<1>8. /\ tail.offset \in Nat /\ tail.offset % LineBytes = 0 /\ tail.checksum \in Seq(ByteSet)
      /\ tail.carry \in Seq(ByteSet) /\ Len(tail.carry) \in Nat
  BY <1>7, TailRecord DEF Boundary
<1>9. checksum \in Seq(ByteSet)
  BY <1>5, <1>7, HeadRead
<1>10. PICK n \in Nat : n = Len(file)
  BY <1>7
<1>11. /\ n = 0 => checksum = NULL
       /\ n = 1 => checksum = Part
       /\ n >= 2 => checksum = Sum(gen)
  BY <1>5, <1>7, <1>10, HeadRead
<1>12. NULL # Part /\ Sum(gen) # NULL /\ Sum(gen) # Part
  BY <1>7, Checksums
(* Only a head of the present generation lets an offset be within size.    *)
<1>13. /\ callGen \in 1..gen /\ (gen # callGen => n >= LineBytes)
       /\ gen = callGen => size <= n
       /\ gen = callGen /\ tail.checksum = Sum(gen) => tail.offset + Len(tail.carry) <= size
  BY <1>1, <1>3, <1>10 DEF CallOK
<1>14. 0 % LineBytes = 0 /\ LineBytes = 3
  BY DEF LineBytes
<1>15. size > 0 => checksum # NULL
  <2>1. size > 0 => n >= 1
    BY <1>7, <1>13, <1>14
  <2>2. n = 1 \/ n >= 2 => checksum # NULL
    BY <1>11, <1>12
  <2> QED
    BY <2>1, <2>2
<1>16. checksum = Part => n = 1
  <2>1. n = 0 \/ n = 1 \/ n >= 2
    OBVIOUS
  <2> QED
    BY <1>11, <1>12, <2>1
<1>17. checksum = Part => size <= 1
  BY <1>7, <1>13, <1>14, <1>16
<1>18. PositionOK([offset |-> 0, checksum |-> checksum], gen, file)
  BY <1>5, <1>7, HeadPosition
<1>19. /\ st \in TailSet /\ Boundary(st) /\ StateOK(st, gen, file)
       /\ ~rot => /\ tail.checksum \in {NULL, st.checksum}
                  /\ st.offset = tail.offset /\ st.carry = tail.carry
       /\ rot => st.offset = 0 /\ st.carry = <<>> /\ st.checksum = checksum
       /\ ~rot /\ tail.checksum = NULL => st.checksum = checksum
  <2>1. CASE rot
    <3>1. st = InitialTailState(0, checksum)
      BY <1>6, <2>1
    <3>2. st \in TailSet /\ Boundary(st) /\ st.offset = 0 /\ st.carry = <<>> /\ st.checksum = checksum
      <4>1. 0 \in Nat /\ 0 % LineBytes = 0 /\ checksum \in Seq(ByteSet)
        BY <1>9, <1>14
      <4>2. st \in TailSet /\ Boundary(st)
        BY <3>1, <4>1, FreshState
      <4>3. st.offset = 0 /\ st.carry = <<>> /\ st.checksum = checksum
        BY <3>1 DEF InitialTailState
      <4> QED
        BY <4>2, <4>3
    <3>3. PICK p : p = [offset |-> 0, checksum |-> checksum]
      OBVIOUS
    <3>4. PositionOK(p, gen, file) /\ p.offset = 0 /\ p.checksum = checksum
      BY <1>18, <3>3
    <3>5. st = InitialTailState(p.offset, p.checksum)
      BY <3>1, <3>4
    <3>6. StateOK(st, gen, file)
      BY <1>7, <1>9, <1>14, <3>4, <3>5, FreshOK
    <3> QED
      BY <2>1, <3>2, <3>6
  <2>2. CASE ~rot /\ tail.checksum = NULL
    <3>1. tail.offset = 0 /\ tail.carry = <<>>
      <4>1. (tail.checksum \in {NULL, Part} /\ tail.offset = 0) \/ \E h \in 1..gen : tail.checksum = Sum(h)
        BY <1>1 DEF TailOK, StateOK, PositionOK
      <4>2. \A h \in 1..gen : h \in Nat
        BY <1>7
      <4>3. \A h \in 1..gen : tail.checksum # Sum(h)
        BY <4>2, <2>2, Checksums
      <4>4. tail.carry = <<>>
        BY <1>1, <2>2 DEF TailOK, StateOK
      <4> QED
        BY <4>1, <4>3, <4>4
    <3>2. st = [tail EXCEPT !.checksum = checksum]
      BY <1>6, <2>2
    <3>3. st.offset = 0 /\ st.carry = <<>> /\ st.checksum = checksum /\ st \in TailSet
      BY <1>7, <1>9, <3>1, <3>2 DEF TailSet
    <3>4. Boundary(st)
      BY <1>7, <3>1, <3>3 DEF Boundary
    <3>5. PositionOK(st, gen, file)
      BY <1>5, <1>7, <3>3, HeadPosition
    <3>6. Len(st.carry) = 0 /\ CarryOf(st.carry, gen, st.offset)
      BY <3>3 DEF CarryOf
    <3>7. StateOK(st, gen, file)
      BY <1>7, <3>3, <3>5, <3>6 DEF StateOK
    <3> QED
      BY <2>2, <3>1, <3>3, <3>4, <3>7
  <2>3. CASE ~rot /\ tail.checksum # NULL
    <3>1. st = [tail EXCEPT !.checksum = tail.checksum]
      BY <1>6, <2>3
    <3>2. st = tail
      BY <1>7, <3>1 DEF TailSet
    <3> QED
      BY <1>1, <1>7, <2>3, <3>2 DEF TailOK
  <2> QED
    BY <1>6, <2>1, <2>2, <2>3
(* No cut: a state of the first generation has that generation's head.     *)
<1>20. ~(rot /\ tail.offset > 0 /\ gen = 1)
  <2> SUFFICES ASSUME rot, tail.offset > 0, gen = 1 PROVE FALSE
    OBVIOUS
  <2>1. callGen = gen
    BY <1>13
  <2>2. tail.checksum = Sum(gen) /\ n >= 2
    <3>1. \E h \in 1..gen : tail.checksum = Sum(h)
      BY <1>1 DEF TailOK, StateOK, PositionOK
    <3>2. tail.checksum = Sum(gen)
      BY <3>1
    <3>3. Len(file) >= 2
      BY <1>1, <3>2 DEF TailOK, StateOK, PositionOK
    <3> QED
      BY <1>10, <3>2, <3>3
  <2>3. tail.checksum = checksum
    BY <1>11, <2>2
  <2>4. ~(size < tail.offset)
    BY <1>7, <1>8, <1>13, <2>1, <2>2
  <2> QED
    BY <1>6, <2>3, <2>4 DEF Rotated
<1>21. cutShort' = cutShort
  <2>1. cutShort = FALSE
    BY <1>1 DEF NoSpuriousCut, Shape, ReaderTypeOK
  <2>2. cutShort' = (cutShort \/ FALSE)
    BY <1>6, <1>20, Zenon
  <2> QED
    BY <2>1, <2>2
<1>22. HandedOK(IF rot THEN 0 ELSE tail.offset, st.offset, <<>>, gen)
  <2>1. CASE rot
    BY <1>14, <1>19, <2>1, HandedNothing
  <2>2. CASE ~rot
    BY <1>8, <1>19, <2>2, HandedNothing
  <2> QED
    BY <1>6, <2>1, <2>2
<1>23. CASE st.offset + Len(st.carry) >= size
  <2>1. Return(st, rot, <<>>)
    BY <1>4, <1>23 DEF CheckedAs
  <2>2. <<>> \in Seq(Seq(ByteSet))
    OBVIOUS
  <2>3. st.checksum = NULL => (rot \/ tail.checksum = NULL) /\ <<>> = <<>>
    BY <1>6, <1>19
  <2>4. UNCHANGED <<disk, saved, cutShort>>
    BY <1>3, <1>21
  <2>5. st.checksum = Sum(gen) =>
          /\ HandedOK(IF rot THEN 0 ELSE tail.offset, st.offset, <<>>, gen)
          /\ ~rot => tail.checksum \in {NULL, st.checksum}
    BY <1>19, <1>22
  <2> QED
    BY <1>6, <1>19, <2>1, <2>2, <2>3, <2>4, <2>5, ReturnKeepsContent
<1>24. CASE ~(st.offset + Len(st.carry) >= size)
  <2>1. /\ pc' = "open" /\ cur' = st /\ rotated' = rot
        /\ readFrom' = st.offset + Len(st.carry) /\ lines' = <<>>
        /\ UNCHANGED <<size, callGen, tail, base, delivered>>
    BY <1>4, <1>24 DEF CheckedAs
  <2>2. st.offset \in Nat /\ Len(st.carry) \in Nat
    BY <1>19, TailRecord
  <2>3. size > 0
    BY <1>7, <1>24, <2>2
  <2>4. st.checksum # NULL
    BY <1>6, <1>15, <1>19, <2>3
  <2>5. ASSUME st.checksum = Part PROVE size <= 1
    <3>1. CASE rot \/ tail.checksum = NULL
      BY <1>6, <1>17, <1>19, <2>5, <3>1
    <3>2. CASE ~rot /\ tail.checksum # NULL
      <4>1. tail.checksum = Part
        BY <1>19, <2>5, <3>2
      <4>2. checksum = Part
        BY <1>6, <1>15, <2>3, <3>2, <4>1 DEF Rotated
      <4> QED
        BY <1>17, <4>2
    <3> QED
      BY <1>6, <3>1, <3>2
  <2>6. TailOK'
    BY <1>1, <1>3, <2>1 DEF TailOK
  <2>7. CallOK'
    BY <1>3, <1>10, <1>13, <2>1 DEF CallOK
  <2>8. ReadOK'
    <3>1. st.checksum = Sum(gen) =>
            /\ HandedOK(IF rot THEN 0 ELSE tail.offset, st.offset, <<>>, gen)
            /\ ~rot => tail.checksum \in {NULL, st.checksum}
      BY <1>19, <1>22
    <3> QED
      BY <1>3, <1>19, <2>1, <2>4, <2>5, <3>1 DEF ReadOK
  <2>9. NoSpuriousCut'
    BY <1>1, <1>21 DEF NoSpuriousCut
  <2> QED
    BY <1>2, <2>6, <2>7, <2>8, <2>9 DEF Content
<1> QED
  BY <1>23, <1>24

(* What a call that reads has to return with.                              *)
LEMMA ReadReturns ==
  ASSUME Content, pc \in {"open", "read"}
  PROVE  /\ cur \in TailSet /\ Boundary(cur) /\ StateOK(cur, gen, file)
         /\ rotated \in BOOLEAN /\ lines \in Seq(Seq(ByteSet))
         /\ cur.checksum # NULL
         /\ cur.checksum = Sum(gen) =>
              /\ HandedOK(IF rotated THEN 0 ELSE tail.offset, cur.offset, lines, gen)
              /\ ~rotated => tail.checksum \in {NULL, cur.checksum}
  BY DEF Content, Shape, ReaderTypeOK, ReadOK

LEMMA FinishKeepsContent == Content /\ Finish => Content'
<1> SUFFICES ASSUME Content, Finish PROVE Content'
  OBVIOUS
<1>1. Return(cur, rotated, lines) /\ UNCHANGED <<disk, saved, cutShort>> /\ pc = "read"
  BY DEF Finish
<1> QED
  BY <1>1, ReadReturns, ReturnKeepsContent

(* A file that cannot be opened: nothing was read, and the state returned  *)
(* has had nothing handed over.                                            *)
LEMMA OpenKeepsContent == Content /\ Open => Content'
<1> SUFFICES ASSUME Content, Open PROVE Content'
  OBVIOUS
<1>1. pc = "open" /\ UNCHANGED <<disk, saved, cutShort>>
  BY DEF Open
<1>2. lines = <<>>
  BY <1>1 DEF Content, ReadOK
<1>3. CASE Return(cur, rotated, <<>>)
  <2>1. Return(cur, rotated, lines)
    BY <1>2, <1>3
  <2> QED
    BY <1>1, <2>1, ReadReturns, ReturnKeepsContent
<1>4. CASE pc' = "read" /\ UNCHANGED <<size, cur, rotated, readFrom, lines, callGen,
                                        tail, base, delivered>>
  <2>1. Shape /\ TailOK /\ CallOK /\ ReadOK /\ NoSpuriousCut
    BY DEF Content
  <2>2. Shape'
    BY <2>1, ShapeInductive DEF ReaderNext
  <2>3. gen' = gen /\ file' = file /\ saved' = saved /\ cutShort' = cutShort
    BY <1>1 DEF disk
  <2>4. TailOK' /\ CallOK' /\ NoSpuriousCut'
    BY <1>1, <1>4, <2>1, <2>3 DEF TailOK, CallOK, NoSpuriousCut
  <2>5. ReadOK'
    BY <1>1, <1>4, <2>1, <2>3 DEF ReadOK
  <2> QED
    BY <2>2, <2>4, <2>5 DEF Content
<1> QED
  BY <1>3, <1>4 DEF Open

(* A chunk: its complete lines follow those handed over before, and what   *)
(* is left is what follows them.                                           *)
LEMMA ChunkKeepsContent == Content /\ ReadChunk => Content'
<1> SUFFICES ASSUME Content, ReadChunk PROVE Content'
  OBVIOUS
<1>1. Shape /\ TailOK /\ CallOK /\ ReadOK /\ NoSpuriousCut
  BY DEF Content
<1>2. Shape'
  BY <1>1, ShapeInductive DEF ReaderNext
<1>3. pc = "read" /\ UNCHANGED <<pc, size, rotated, callGen, disk, consumer>>
  BY DEF ReadChunk
<1>4. UNCHANGED <<pc, size, rotated, callGen, gen, file, tail, saved, base, delivered, cutShort>>
  BY <1>3 DEF disk, consumer
<1>5. PICK data \in Seq(ByteSet), m \in Nat :
        /\ cur.offset + Len(data) <= size /\ cur.offset + Len(data) <= Len(file)
        /\ Len(cur.carry) <= Len(data)
        /\ LineBytes * m <= Len(data) /\ Len(data) < LineBytes * m + LineBytes
        /\ Joined(data, cur.carry, gen, cur.offset)
        /\ CompleteLines(data) \in Seq(Seq(ByteSet))
        /\ CompleteLines(data)
             = [k \in 1..m |-> <<data[LineBytes * k - 2], data[LineBytes * k - 1]>>]
        /\ lines' = lines \o CompleteLines(data)
        /\ cur' \in TailSet /\ Boundary(cur')
        /\ cur'.offset = cur.offset + LineBytes * m /\ cur'.checksum = cur.checksum
        /\ Len(cur'.carry) = Len(data) - LineBytes * m
        /\ \A i \in 1..(Len(data) - LineBytes * m) : cur'.carry[i] = data[LineBytes * m + i]
  BY <1>1, ChunkStep
<1>6. /\ cur \in TailSet /\ Boundary(cur) /\ StateOK(cur, gen, file) /\ cur.checksum # NULL
      /\ cur.checksum = Part => size <= 1
      /\ cur.checksum = Sum(gen) =>
           /\ HandedOK(IF rotated THEN 0 ELSE tail.offset, cur.offset, lines, gen)
           /\ ~rotated => tail.checksum \in {NULL, cur.checksum}
  BY <1>1, <1>3 DEF Shape, ReaderTypeOK, ReadOK
<1>7. /\ gen \in 1..MaxGen /\ gen \in Nat /\ Len(file) \in Nat /\ size \in Nat
      /\ Sum(gen) # Part /\ Sum(gen) # NULL
  <2>1. gen \in 1..MaxGen /\ gen \in Nat /\ Len(file) \in Nat /\ size \in Nat
    BY <1>1, BoundsAssumption DEF Shape, ReaderTypeOK, IsFile
  <2> QED
    BY <2>1, Checksums
<1>8. PICK off \in Nat, len \in Nat, done \in Nat, c \in Nat :
        off = cur.offset /\ len = Len(data) /\ done = LineBytes * m /\ c = Len(cur.carry)
  <2>1. LineBytes * m \in Nat
    BY <1>5 DEF LineBytes
  <2>2. cur.offset \in Nat /\ Len(cur.carry) \in Nat /\ Len(data) \in Nat
    BY <1>5, <1>6, TailRecord
  <2> QED
    BY <2>1, <2>2
<1>9. /\ off + len <= size /\ off + len <= Len(file) /\ c <= len /\ done <= len
      /\ cur'.offset = off + done /\ Len(cur'.carry) = len - done
      /\ off % LineBytes = 0
  BY <1>5, <1>6, <1>8 DEF Boundary
<1>10. ASSUME cur.checksum = Part PROVE m = 0 /\ len <= 1 /\ done = 0 /\ off = 0
  <2>1. len <= 1
    BY <1>6, <1>7, <1>8, <1>9, <1>10
  <2>2. m = 0
    BY <1>5, <1>8, <2>1 DEF LineBytes
  <2>3. off = 0
    <3>1. cur.offset = 0 \/ \E h \in 1..gen : cur.checksum = Sum(h)
      BY <1>6 DEF StateOK, PositionOK
    <3>2. \A h \in 1..gen : cur.checksum # Sum(h)
      BY <1>7, <1>10, Checksums
    <3> QED
      BY <1>8, <3>1, <3>2
  <2> QED
    BY <1>8, <2>1, <2>2, <2>3 DEF LineBytes
<1>11. PositionOK(cur', gen, file)
  <2>1. \/ cur.checksum = Part
        \/ \E h \in 1..gen : cur.checksum = Sum(h)
    BY <1>6 DEF StateOK, PositionOK
  <2>2. cur.checksum = Sum(gen) => Len(file) >= 2
    BY <1>6 DEF StateOK, PositionOK
  <2>3. cur'.checksum = cur.checksum
    BY <1>5
  <2>4. cur'.offset <= Len(file)
    BY <1>7, <1>9
  <2>5. cur.checksum = Part => cur'.offset = 0
    BY <1>9, <1>10
  <2> QED
    BY <2>1, <2>2, <2>3, <2>4, <2>5 DEF PositionOK
<1>12. ASSUME cur.checksum = Sum(gen), NEW i \in Nat, i >= 1, i <= len
       PROVE  data[i] = Byte(gen, off + i)
  <2>1. CASE i <= c
    <3>1. i \in 1..Len(cur.carry)
      BY <1>8, <1>12, <2>1
    <3>2. data[i] = cur.carry[i]
      BY <1>5, <3>1 DEF Joined
    <3>3. cur.carry[i] = Byte(gen, cur.offset + i)
      BY <1>6, <1>12, <3>1 DEF StateOK, CarryOf
    <3> QED
      BY <1>8, <3>2, <3>3
  <2>2. CASE i > c
    <3>1. i \in 1..Len(data) /\ i > Len(cur.carry)
      BY <1>8, <1>12, <2>2
    <3>2. data[i] = Byte(gen, cur.offset + i)
      BY <1>5, <3>1 DEF Joined
    <3> QED
      BY <1>8, <3>2
  <2> QED
    BY <1>8, <1>12, <2>1, <2>2
<1>13. ASSUME cur.checksum = Sum(gen) PROVE CarryOf(cur'.carry, gen, cur'.offset)
  <2>1. ASSUME NEW i \in 1..(len - done) PROVE cur'.carry[i] = Byte(gen, off + done + i)
    <3>0. i \in 1..(Len(data) - LineBytes * m)
      BY <1>8
    <3>1. cur'.carry[i] = data[done + i]
      <4>1. cur'.carry[i] = data[LineBytes * m + i]
        BY <1>5, <3>0
      <4> QED
        BY <1>8, <4>1
    <3>2. PICK j \in Nat : j = done + i /\ j >= 1 /\ j <= len
      <4>1. done \in Nat /\ len \in Nat /\ i \in 1..(len - done)
        BY <1>8, <2>1
      <4>2. done + i \in Nat /\ done + i >= 1 /\ done + i <= len
        BY <4>1
      <4> QED
        BY <4>2
    <3>3. data[j] = Byte(gen, off + j)
      BY <1>12, <1>13, <3>2
    <3>4. off + j = off + done + i
      BY <1>8, <3>2
    <3> QED
      BY <3>1, <3>2, <3>3, <3>4
  <2> QED
    BY <1>9, <2>1 DEF CarryOf
<1>14. StateOK(cur', gen, file)
  <2>1. cur'.checksum = cur.checksum /\ cur.checksum # NULL
    BY <1>5, <1>6
  <2>2. cur.checksum = Part => Len(cur'.carry) <= 1
    BY <1>8, <1>9, <1>10
  <2>3. cur'.offset + Len(cur'.carry) <= Len(file)
    BY <1>7, <1>8, <1>9
  <2> QED
    BY <1>11, <1>13, <2>1, <2>2, <2>3 DEF StateOK
<1>15. ASSUME cur.checksum = Sum(gen)
       PROVE  HandedOK(IF rotated THEN 0 ELSE tail.offset, cur'.offset, lines', gen)
  <2>1. PICK from : from = IF rotated THEN 0 ELSE tail.offset
    OBVIOUS
  <2>2. HandedOK(from, off, lines, gen)
    BY <1>6, <1>8, <1>15, <2>1
  <2>3. PICK to \in Nat : to = off + done /\ to % LineBytes = 0
    <3>1. off + done \in Nat /\ cur'.offset % LineBytes = 0
      BY <1>5, <1>8 DEF Boundary
    <3> QED
      BY <1>9, <3>1
  <2>4. PICK out : out = CompleteLines(data)
    OBVIOUS
  <2>5. AreLines(out, gen, off, m)
    <3>1. /\ out \in Seq(Seq(ByteSet))
          /\ out = [k \in 1..m |-> <<data[LineBytes * k - 2], data[LineBytes * k - 1]>>]
      BY <1>5, <2>4
    <3>2. Len(out) = m
      BY <1>5, <3>1
    <3>3. ASSUME NEW k \in 1..m PROVE out[k] = LineUpTo(gen, off + LineBytes * k)
      <4>1. PICK i \in Nat, j \in Nat : /\ i = LineBytes * k - 2 /\ i >= 1 /\ i <= len
                                        /\ j = LineBytes * k - 1 /\ j >= 1 /\ j <= len
        <5>1. k \in 1..m /\ m \in Nat /\ len \in Nat /\ LineBytes * m <= len
          BY <1>5, <1>8, <1>9, <3>3
        <5> QED
          BY <5>1 DEF LineBytes
      <4>2. data[i] = Byte(gen, off + i) /\ data[j] = Byte(gen, off + j)
        BY <1>12, <1>15, <4>1
      <4>3. out[k] = <<data[i], data[j]>>
        BY <3>1, <4>1
      <4>0. k \in Nat /\ off \in Nat /\ i \in Nat /\ j \in Nat
        BY <1>5, <1>8, <3>3, <4>1
      <4>4. PICK n \in Nat : n = off + LineBytes * k
        BY <4>0 DEF LineBytes
      <4>5. n - 2 = off + i /\ n - 1 = off + j
        <5>1. i = LineBytes * k - 2 /\ j = LineBytes * k - 1
          BY <4>1
        <5> QED
          BY <4>0, <4>4, <5>1 DEF LineBytes
      <4>6. LineUpTo(gen, n) = <<Byte(gen, off + i), Byte(gen, off + j)>>
        BY <4>5 DEF LineUpTo
      <4> QED
        BY <4>2, <4>3, <4>4, <4>6
    <3> QED
      BY <3>1, <3>2, <3>3 DEF AreLines
  <2>6. out = LinesOf(gen, off, to)
    <3>1. to = off + LineBytes * m
      BY <1>8, <2>3
    <3> QED
      BY <1>5, <1>7, <1>8, <2>5, <3>1, AreLinesOf
  <2>7. off <= to
    BY <1>8, <2>3
  <2>8. HandedOK(off, to, out, gen)
    BY <1>8, <1>9, <2>6, <2>7 DEF HandedOK
  <2>9. HandedOK(from, to, lines \o out, gen)
    BY <1>7, <1>8, <1>9, <2>2, <2>3, <2>8, HandedMore
  <2>10. lines' = lines \o out /\ cur'.offset = to
    BY <1>5, <1>9, <2>3, <2>4
  <2> QED
    BY <2>1, <2>9, <2>10
<1>16. TailOK' /\ CallOK' /\ NoSpuriousCut'
  BY <1>1, <1>4 DEF TailOK, CallOK, NoSpuriousCut
<1>17. ReadOK'
  <2>1. pc' = "read" /\ cur'.checksum = cur.checksum
    BY <1>3, <1>4, <1>5
  <2>2. StateOK(cur', gen', file')
    BY <1>4, <1>14
  <2>3. cur'.checksum = Sum(gen') =>
          /\ HandedOK(IF rotated' THEN 0 ELSE tail'.offset, cur'.offset, lines', gen')
          /\ ~rotated' => tail'.checksum \in {NULL, cur'.checksum}
    BY <1>4, <1>6, <1>15, <2>1
  <2>4. cur'.checksum # NULL /\ (cur'.checksum = Part => size' <= 1)
    BY <1>4, <1>6, <2>1
  <2> QED
    BY <2>1, <2>2, <2>3, <2>4 DEF ReadOK
<1> QED
  BY <1>2, <1>16, <1>17 DEF Content

LEMMA SaveKeepsContent == Content /\ Save => Content'
<1> SUFFICES ASSUME Content, Save PROVE Content'
  OBVIOUS
<1>1. Shape /\ TailOK /\ CallOK /\ ReadOK /\ NoSpuriousCut
  BY DEF Content
<1>2. Shape'
  BY <1>1, ShapeInductive DEF ReaderNext
<1>3. /\ pc = "idle" /\ saved' = [offset |-> tail.offset, checksum |-> tail.checksum]
      /\ UNCHANGED <<gen, file, pc, size, cur, rotated, readFrom, lines, callGen,
                     tail, base, delivered, cutShort>>
  BY DEF Save, disk, call
<1>4. PositionOK(tail, gen, file)
  BY <1>1 DEF TailOK, StateOK
<1>5. PositionOK(saved', gen, file)
  <2>1. saved'.offset = tail.offset /\ saved'.checksum = tail.checksum
    BY <1>3
  <2> QED
    BY <1>4, <2>1 DEF PositionOK
<1>6. TailOK'
  BY <1>1, <1>3, <1>5 DEF TailOK
<1>7. CallOK' /\ ReadOK' /\ NoSpuriousCut'
  BY <1>1, <1>3 DEF CallOK, ReadOK, NoSpuriousCut
<1> QED
  BY <1>2, <1>6, <1>7 DEF Content

(* A new pipeline: the checkpoint was a position between two calls, and    *)
(* the bytes the lost carry held are read again.                           *)
LEMMA RestartKeepsContent == Content /\ Restart => Content'
<1> SUFFICES ASSUME Content, Restart PROVE Content'
  OBVIOUS
<1>1. Shape /\ TailOK /\ CallOK /\ ReadOK /\ NoSpuriousCut
  BY DEF Content
<1>2. Shape'
  BY <1>1, ShapeInductive DEF ReaderNext
<1>3. /\ tail' = InitialTailState(saved.offset, saved.checksum) /\ pc' = "idle"
      /\ base' = saved.offset /\ delivered' = <<>>
      /\ UNCHANGED <<gen, file, saved, cutShort>>
  BY DEF Restart, disk
<1>4. /\ gen \in Nat /\ PositionOK(saved, gen, file)
      /\ saved.offset \in Nat /\ saved.offset % LineBytes = 0 /\ saved.checksum \in Seq(ByteSet)
  BY <1>1, BoundsAssumption DEF TailOK, Shape, ReaderTypeOK, IsFile
<1>5. StateOK(tail', gen, file)
  BY <1>3, <1>4, FreshOK
<1>6. tail'.offset = saved.offset /\ tail'.checksum = saved.checksum
  BY <1>3, <1>4, FreshState
<1>7. tail'.checksum = NULL => base' = 0
  <2> SUFFICES ASSUME tail'.checksum = NULL PROVE base' = 0
    OBVIOUS
  <2>1. (saved.checksum \in {NULL, Part} /\ saved.offset = 0) \/ \E h \in 1..gen : saved.checksum = Sum(h)
    BY <1>4 DEF PositionOK
  <2>2. \A h \in 1..gen : h \in Nat
    BY <1>4
  <2>3. \A h \in 1..gen : saved.checksum # Sum(h)
    BY <1>6, <2>2, Checksums
  <2> QED
    BY <1>3, <2>1, <2>3
<1>8. HandedOK(base', tail'.offset, delivered', gen)
  BY <1>3, <1>4, <1>6, HandedNothing
<1>9. TailOK'
  BY <1>3, <1>4, <1>5, <1>7, <1>8 DEF TailOK
<1>10. CallOK' /\ ReadOK' /\ NoSpuriousCut'
  BY <1>1, <1>3 DEF CallOK, ReadOK, NoSpuriousCut
<1> QED
  BY <1>2, <1>9, <1>10 DEF Content

LEMMA ContentInductive ==
  ASSUME HeadMayFail = FALSE
  PROVE  /\ ReaderInit => Content
         /\ Content /\ [ReaderNext]_readerVars => Content'
<1>1. Content /\ UNCHANGED readerVars => Content'
  <2> SUFFICES ASSUME Content, UNCHANGED readerVars PROVE Content'
    OBVIOUS
  <2>1. Shape'
    BY ShapeInductive DEF Content
  <2>2. UNCHANGED <<gen, file, tail, saved, base, delivered, cutShort,
                    pc, size, cur, rotated, readFrom, lines, callGen>>
    BY DEF readerVars, disk, call, consumer
  <2>3. TailOK' /\ CallOK' /\ ReadOK' /\ NoSpuriousCut'
    BY <2>2 DEF Content, TailOK, CallOK, ReadOK, NoSpuriousCut
  <2> QED
    BY <2>1, <2>3 DEF Content
<1> QED
  BY <1>1, ContentInitial, WriteKeepsContent, RotateKeepsContent, StatKeepsContent,
     CheckKeepsContent, OpenKeepsContent, ChunkKeepsContent, FinishKeepsContent,
     SaveKeepsContent, RestartKeepsContent
     DEF ReaderNext

(* The invariant is what the properties say, in the terms of the log:      *)
(* once the first line is complete, its checksum is that of this           *)
(* generation and of no other.                                             *)
LEMMA ContentReads == Content => ReadsTheFile
<1> SUFFICES ASSUME Content, pc = "idle", Newlines(file) # {},
                    tail.checksum = FirstLineChecksumOf(file)
             PROVE  /\ tail.offset + Len(tail.carry) <= Len(file)
                    /\ delivered = CompleteLines(SubSeq(file, base + 1, tail.offset))
                    /\ tail.carry = SubSeq(file, tail.offset + 1, tail.offset + Len(tail.carry))
  BY DEF ReadsTheFile
<1>1. /\ gen \in 1..MaxGen /\ file \in Seq(ByteSet) /\ Len(file) \in Nat /\ IsFile(gen, file)
      /\ tail \in TailSet /\ Boundary(tail)
  BY DEF Content, Shape, ReaderTypeOK, IsFile
<1>2. PICK off \in Nat, c \in Seq(ByteSet), n \in Nat, len \in Nat :
        off = tail.offset /\ c = tail.carry /\ n = Len(c) /\ len = Len(file)
  BY <1>1, TailRecord
<1>3. tail.checksum = Sum(gen)
  <2>1. len >= 2
    BY <1>1, <1>2, HeadRead DEF LineBytes
  <2> QED
    BY <1>1, <1>2, <2>1, HeadRead
<1>4. StateOK(tail, gen, file) /\ HandedOK(base, tail.offset, delivered, gen)
  BY <1>3 DEF Content, TailOK
<1>5. off + n <= len /\ off % LineBytes = 0 /\ \A i \in 1..n : c[i] = Byte(gen, off + i)
  BY <1>1, <1>2, <1>3, <1>4 DEF StateOK, CarryOf, Boundary
<1>6. base \in Nat /\ base <= off /\ base % LineBytes = 0 /\ delivered = LinesOf(gen, base, off)
  BY <1>2, <1>4 DEF HandedOK
<1>7. tail.carry = SubSeq(file, tail.offset + 1, tail.offset + Len(tail.carry))
  <2>1. PICK to \in Nat : to = off + n
    BY <1>2
  <2>2. PICK t : t = SubSeq(file, off + 1, to)
    OBVIOUS
  <2>3. off <= to /\ to <= Len(file) /\ to - off = n
    BY <1>2, <1>5, <2>1
  <2>a. /\ file \in Seq(ByteSet) /\ off \in Nat /\ to \in Nat
        /\ to <= Len(file) /\ off <= to /\ t = SubSeq(file, off + 1, to)
    BY <1>1, <1>2, <2>1, <2>2, <2>3
  <2>4. t \in Seq(ByteSet) /\ Len(t) = to - off
    BY <2>a, Suffix
  <2>5. ASSUME NEW i \in 1..n PROVE t[i] = c[i]
    <3>a. i \in Nat /\ 1 <= i /\ i <= n /\ off \in Nat /\ len \in Nat /\ off + n <= len
      BY <1>2, <1>5, <2>5
    <3>b. off + i \in 1..len
      BY <3>a
    <3>c. off + i \in 1..Len(file)
      BY <1>2, <3>b
    <3>d. i \in 1..(to - off)
      BY <2>3, <2>5
    <3>1. off + i \in 1..Len(file) /\ i \in 1..(to - off)
      BY <3>c, <3>d
    <3>2. t[i] = file[off + i]
      BY <2>a, <3>1, Suffix
    <3>3. file[off + i] = Byte(gen, off + i)
      BY <1>1, <3>1 DEF IsFile
    <3>4. c[i] = Byte(gen, off + i)
      BY <1>5, <2>5
    <3> QED
      BY <3>2, <3>3, <3>4
  <2>6. Len(t) = n /\ Len(c) = n
    BY <1>2, <2>3, <2>4
  <2>7. t = c
    <3>1. /\ t \in Seq(ByteSet) /\ c \in Seq(ByteSet) /\ Len(t) = Len(c)
          /\ \A i \in 1..Len(t) : t[i] = c[i]
      BY <1>2, <2>4, <2>5, <2>6
    <3> QED
      BY <3>1, SeqEqual
  <2> QED
    BY <1>2, <2>1, <2>2, <2>7
<1>8. delivered = CompleteLines(SubSeq(file, base + 1, tail.offset))
  <2>1. PICK b \in Nat : b = base
    BY <1>6
  <2>2. PICK data : data = <<>> \o SubSeq(file, b + Len(<<>>) + 1, off)
    OBVIOUS
  <2>3. /\ <<>> \in Seq(ByteSet) /\ Lined(<<>>) /\ b + Len(<<>>) <= off /\ off <= Len(file)
        /\ b % LineBytes = 0
    BY <1>2, <1>5, <1>6, <2>1 DEF Lined
  <2>4. data \in Seq(ByteSet)
    BY <1>1, <1>2, <2>1, <2>2, <2>3, Glued
  <2>5. Len(data) = off - b
    BY <1>1, <1>2, <2>1, <2>2, <2>3, Glued
  <2>6. Lined(data)
    BY <1>1, <1>2, <2>1, <2>2, <2>3, Glued
  <2>7. Joined(data, <<>>, gen, b)
    BY <1>1, <1>2, <2>1, <2>2, <2>3, Glued
  <2>8. PICK m \in Nat :
          /\ LineBytes * m <= Len(data) /\ Len(data) < LineBytes * m + LineBytes
          /\ CompleteLines(data) \in Seq(Seq(ByteSet))
          /\ CompleteLines(data)
               = [k \in 1..m |-> <<data[LineBytes * k - 2], data[LineBytes * k - 1]>>]
    BY <2>4, <2>6, Split
  <2>9. off = b + LineBytes * m
    <3>1. PICK p \in Nat : off = LineBytes * p
      BY <1>2, <1>5, Multiple
    <3>2. PICK q \in Nat : b = LineBytes * q
      BY <2>1, <2>3, Multiple
    <3> QED
      BY <2>5, <2>8, <3>1, <3>2 DEF LineBytes
  <2>10. PICK out : out = CompleteLines(data)
    OBVIOUS
  <2>11. AreLines(out, gen, b, m)
    <3>1. /\ out \in Seq(Seq(ByteSet))
          /\ out = [k \in 1..m |-> <<data[LineBytes * k - 2], data[LineBytes * k - 1]>>]
      BY <2>8, <2>10
    <3>2. Len(out) = m
      BY <2>8, <3>1
    <3>3. ASSUME NEW k \in 1..m PROVE out[k] = LineUpTo(gen, b + LineBytes * k)
      <4>1. PICK i \in Nat, j \in Nat : /\ i = LineBytes * k - 2 /\ i \in 1..Len(data)
                                        /\ j = LineBytes * k - 1 /\ j \in 1..Len(data)
        BY <2>4, <2>8, <3>3 DEF LineBytes
      <4>2. data[i] = Byte(gen, b + i) /\ data[j] = Byte(gen, b + j)
        BY <2>7, <4>1 DEF Joined
      <4>3. out[k] = <<data[i], data[j]>>
        BY <3>1, <3>3, <4>1
      <4>0. k \in Nat /\ b \in Nat /\ i \in Nat /\ j \in Nat
        BY <2>1, <2>8, <3>3, <4>1
      <4>4. PICK x \in Nat : x = b + LineBytes * k
        BY <4>0 DEF LineBytes
      <4>5. x - 2 = b + i /\ x - 1 = b + j
        <5>1. i = LineBytes * k - 2 /\ j = LineBytes * k - 1
          BY <4>1
        <5> QED
          BY <4>0, <4>4, <5>1 DEF LineBytes
      <4>6. LineUpTo(gen, x) = <<Byte(gen, b + i), Byte(gen, b + j)>>
        BY <4>5 DEF LineUpTo
      <4> QED
        BY <4>2, <4>3, <4>4, <4>6
    <3> QED
      BY <3>1, <3>2, <3>3 DEF AreLines
  <2>12. out = LinesOf(gen, b, off)
    BY <1>1, <2>1, <2>8, <2>9, <2>11, AreLinesOf
  <2>13. data = SubSeq(file, base + 1, tail.offset)
    <3>1. PICK t \in Seq(ByteSet) : t = SubSeq(file, b + 1, off)
      <4>1. b <= off /\ off <= Len(file)
        BY <1>6, <2>1, <2>3
      <4> QED
        BY <1>1, <1>2, <2>1, <4>1, Suffix
    <3>2. <<>> \o t = t
      BY <3>1
    <3>3. b + Len(<<>>) + 1 = b + 1
      BY <2>1
    <3> QED
      BY <1>2, <2>1, <2>2, <3>1, <3>2, <3>3
  <2> QED
    BY <1>6, <2>1, <2>10, <2>12, <2>13
<1>9. tail.offset + Len(tail.carry) <= Len(file)
  BY <1>2, <1>5
<1> QED
  BY <1>7, <1>8, <1>9

(* What the pipeline was handed between calls is the log, line by line,    *)
(* for files of any length, any number of replacements and any size of a   *)
(* chunk, provided the head can be opened whenever the file can.           *)
THEOREM ReadsTheFileHolds ==
  ASSUME HeadMayFail = FALSE
  PROVE  ReaderSpec => []ReadsTheFile
<1>1. ReaderInit => Content
  BY ContentInductive
<1>2. Content /\ [ReaderNext]_readerVars => Content'
  BY ContentInductive
<1> QED
  BY <1>1, <1>2, ContentReads, PTL DEF ReaderSpec

(* A first line still being written never ends a parser that has lines, as *)
(* long as the file has not been replaced: of a file of which no line was  *)
(* read and of later generations nothing is claimed (readTail, the         *)
(* checksum of the head).                                                  *)
THEOREM NoSpuriousCutHolds ==
  ASSUME HeadMayFail = FALSE
  PROVE  ReaderSpec => []NoSpuriousCut
<1>1. ReaderInit => Content
  BY ContentInductive
<1>2. Content /\ [ReaderNext]_readerVars => Content'
  BY ContentInductive
<1>3. Content => NoSpuriousCut
  BY DEF Content
<1> QED
  BY <1>1, <1>2, <1>3, PTL DEF ReaderSpec
=============================================================================
