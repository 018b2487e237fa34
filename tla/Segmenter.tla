------------------------------ MODULE Segmenter ------------------------------
(***************************************************************************)
(* One Segmenter object fed an arbitrary log: any sequence of lines, and   *)
(* end() at any point (log rotation, or the end of an imported file).      *)
(* `log` and `emitted` are histories: the calls made so far (a line's kind, *)
(* or "EOF" for an end()) and, call by call, the callbacks each made.      *)
(***************************************************************************)
EXTENDS SegmenterOps

CONSTANT MaxLines  \* bound on the length of the history
ASSUME MaxLinesAssumption == MaxLines \in Nat

VARIABLES log, parser, emitted
vars == <<log, parser, emitted>>

Init == /\ log = <<>>
        /\ parser = IdleParser
        /\ emitted = <<>>

PushLine(k) ==
  LET r == Push(parser, k, Len(log) + 1)
  IN  /\ Len(log) < MaxLines
      /\ log' = Append(log, k)
      /\ parser' = r.parser
      /\ emitted' = Append(emitted, r.events)

End ==
  LET r == EndOfInput(parser)
  IN  /\ Len(log) < MaxLines
      /\ log' = Append(log, "EOF")
      /\ parser' = r.parser
      /\ emitted' = Append(emitted, r.events)

Next == (\E k \in Kinds : PushLine(k)) \/ End

Spec == Init /\ [][Next]_vars

-----------------------------------------------------------------------------
(* The values each variable takes. *)
TypeOK == /\ log \in Seq(Kinds \cup {"EOF"})
          /\ parser \in Parser
          /\ emitted \in Seq(Seq(EventSet))
          /\ Len(emitted) = Len(log)

(* The places, among the callbacks of a call, of those that hand over a    *)
(* match and of those the recorder listens to.                             *)
Deliveries(es) == {i \in DOMAIN es : es[i].type \in {"match", "shuffle"}}
Signals(es) == {i \in DOMAIN es : es[i].type \in {"open", "close", "abortedClose"}}

DeliveredSegments ==
  UNION {UNION {{emitted[j][i].segments[x] : x \in DOMAIN emitted[j][i].segments} :
                i \in Deliveries(emitted[j])} : j \in DOMAIN emitted}

(* records and rawLines of a segment advance in lockstep: record r's       *)
(* lineIndex is the place of its own raw line, the only link from an event *)
(* to its line in raw.txt.                                                 *)
Aligned(s) ==
  /\ Len(s.rawLines) = Len(s.records) + 1
  /\ \A r \in DOMAIN s.records :
       /\ s.records[r].lineIndex + 1 \in DOMAIN s.rawLines
       /\ s.rawLines[s.records[r].lineIndex + 1] = s.records[r].line

(* A segment is one uninterrupted run of the log, START first. *)
Contiguous(s) ==
  /\ s.rawLines # <<>>
  /\ \A i \in DOMAIN s.rawLines : s.rawLines[i] = s.rawLines[1] + i - 1

(* The deep link holds for every segment delivered and for the open one,   *)
(* whatever END, START or end() interrupted before.                        *)
LineIndexAlignment ==
  /\ \A s \in DeliveredSegments : Aligned(s) /\ Contiguous(s)
  /\ parser.state # "IDLE" => Aligned(parser.current) /\ Contiguous(parser.current)

-----------------------------------------------------------------------------
(* Reference: what the log holds, from the log alone.  A break is an END   *)
(* or an EOF; the STARTs since the last break belong together; from the    *)
(* first SHUFFLE_START on they are the rounds of one shuffle.              *)
Breaks == {n \in DOMAIN log : log[n] \in {"END", "EOF"}}
Since(j) == {i \in DOMAIN log : i < j /\ log[i] \in Starts
                                /\ ~\E b \in Breaks : i < b /\ b < j}
Rounds(j) == {i \in Since(j) : \E x \in Since(j) : x <= i /\ log[x] = "SHUFFLE_START"}
Latest(S) == CHOOSE x \in S : \A y \in S : y <= x
Earliest(S) == CHOOSE x \in S : \A y \in S : x <= y

(* The starts of the segments the call at j must deliver. *)
ReferenceStarts(j) ==
  CASE log[j] = "END" /\ Rounds(j) # {} -> Rounds(j)
    [] log[j] = "END" /\ Rounds(j) = {} /\ Since(j) # {} -> {Latest(Since(j))}
    [] log[j] = "EOF" /\ Rounds(j) # {} -> Rounds(j) \ {Latest(Rounds(j))}
    [] OTHER -> {}

(* The last line of the segment that starts at i in the group broken at j. *)
SegmentEnd(i, j) == Earliest({x \in Since(j) : x > i} \cup {j}) - 1

StartOf(s) == s.rawLines[1]
LastOf(s)  == s.rawLines[Len(s.rawLines)]

(* The callback d hands over what the log holds before the break at j: the *)
(* segments in the order of their starts, each up to the line before the   *)
(* next start or the break, numbered from 0.                               *)
DeliversReference(d, j) ==
  /\ d.type = IF Rounds(j) # {} THEN "shuffle" ELSE "match"
  /\ {StartOf(d.segments[i]) : i \in DOMAIN d.segments} = ReferenceStarts(j)
  /\ \A i \in DOMAIN d.segments :
       /\ d.segments[i].sequenceNumber = i - 1
       /\ LastOf(d.segments[i]) = SegmentEnd(StartOf(d.segments[i]), j)
       /\ \A h \in DOMAIN d.segments : h < i => StartOf(d.segments[h]) < StartOf(d.segments[i])

CallDelivers(j) ==
  /\ ReferenceStarts(j) = {} => Deliveries(emitted[j]) = {}
  /\ ReferenceStarts(j) # {} =>
       \E i \in DOMAIN emitted[j] :
         Deliveries(emitted[j]) = {i} /\ DeliversReference(emitted[j][i], j)

(* The segments delivered are exactly those of the reference, by the very  *)
(* call that ends them: one delivery per break that has any segment, none  *)
(* by any other call.  Nothing is delivered twice, nothing is dropped but  *)
(* the truncated tail.                                                     *)
MatchesReference == \A j \in DOMAIN log : CallDelivers(j)

(* What the recorder last heard, by the end of call n. *)
Signalling == {j \in DOMAIN emitted : Signals(emitted[j]) # {}}
Opens(j) == \E i \in Signals(emitted[j]) : emitted[j][i].type = "open"
OpenAfter(n) == \E j \in Signalling : /\ j <= n /\ Opens(j)
                                      /\ ~\E i \in Signalling : j < i /\ i <= n

(* The recorder starts on open and stops on close: a call signals at most  *)
(* once, the two alternate, the last one tells whether a segment is open,  *)
(* and a match is delivered before the close it comes with.  The recorder  *)
(* is never told to stop twice or to start inside a match, and never hears *)
(* of a match while it is stopped.                                         *)
OpenCloseAlternate ==
  /\ \A j \in DOMAIN emitted :
       /\ \A h, i \in Signals(emitted[j]) : h = i
       /\ Signals(emitted[j]) # {} => (Opens(j) <=> ~OpenAfter(j - 1))
       /\ \A d \in Deliveries(emitted[j]) :
            ~Opens(j) /\ \E i \in Signals(emitted[j]) : d < i
  /\ HasOpenSegment(parser) <=> OpenAfter(Len(log))
=============================================================================
