---------------------------- MODULE SegmenterOps ----------------------------
(***************************************************************************)
(* The log parser's segmentation state machine as pure operators           *)
(* (packages/parser/src/l2/segmenter.ts).  A parser value is what the      *)
(* Segmenter object keeps: its state, its currentSegment and the completed *)
(* rounds of a shuffle.  Push and EndOfInput return the parser after the   *)
(* call and the callbacks the call made, in order.                         *)
(*                                                                         *)
(* A line is abstracted to its kind and its position in the log.  Bracket, *)
(* zone and rating travel with the START line and are not modelled.        *)
(***************************************************************************)
EXTENDS Naturals, Sequences

Starts == {"START", "SHUFFLE_START"}
Kinds  == Starts \cup {"END", "OTHER"}

(* rawLines holds log positions; records holds, for every line after the   *)
(* START, that line and the lineIndex written into it.                     *)
NoSegment == [kind |-> "none", sequenceNumber |-> 0,
              rawLines |-> <<>>, records |-> <<>>]

NewSegment(kind, seqNo, n) ==
  [kind |-> kind, sequenceNumber |-> seqNo,
   rawLines |-> <<n>>, records |-> <<>>]

Record == [line : Nat, lineIndex : Nat]
Segment == [kind : {"match", "shuffleRound"}, sequenceNumber : Nat,
            rawLines : Seq(Nat) \ {<<>>}, records : Seq(Record)]

IdleParser == [state |-> "IDLE", current |-> NoSegment, rounds |-> <<>>]

Parser == [state : {"IDLE", "IN_MATCH", "IN_SHUFFLE"},
           current : Segment \cup {NoSegment},
           rounds : Seq(Segment)]

(* One callback: its name, the line that caused it (0 when no line did),   *)
(* and the segments handed over.                                           *)
EventTypes == {"open", "close", "abortedClose", "match", "shuffle",
               "DOUBLE_START", "ORPHAN_END", "UNCLOSED_SEGMENT"}
EventSet == [type : EventTypes, at : Nat, segments : Seq(Segment)]
Event(type, n, segments) == [type |-> type, at |-> n, segments |-> segments]

Result(p, events) == [parser |-> p, events |-> events]

HasOpenSegment(p) == p.state # "IDLE"

(* ARENA_MATCH_START seen by a parser that is IDLE or IN_MATCH: a new      *)
(* segment, whatever was there before.                                     *)
Opened(k, n) ==
  IF k = "SHUFFLE_START"
  THEN [state |-> "IN_SHUFFLE", rounds |-> <<>>,
        current |-> NewSegment("shuffleRound", 0, n)]
  ELSE [state |-> "IN_MATCH", rounds |-> <<>>,
        current |-> NewSegment("match", 0, n)]

(* In a shuffle every START, of any bracket, closes the current round and  *)
(* opens the next.                                                         *)
NextRound(p, n) ==
  LET done == Append(p.rounds, p.current)
  IN  [p EXCEPT !.rounds = done,
                !.current = NewSegment("shuffleRound", Len(done), n)]

(* Mutant of StartLine: a DOUBLE_START also signals the open. *)
StartLineReopens(p, k, n) ==
  CASE p.state = "IN_SHUFFLE" -> Result(NextRound(p, n), <<>>)
    [] p.state # "IN_SHUFFLE" -> Result(Opened(k, n), <<Event("open", n, <<>>)>>)

StartLine(p, k, n) ==
  CASE p.state = "IDLE"       -> Result(Opened(k, n), <<Event("open", n, <<>>)>>)
    [] p.state = "IN_MATCH"   -> Result(Opened(k, n), <<Event("DOUBLE_START", n, <<>>)>>)
    [] p.state = "IN_SHUFFLE" -> Result(NextRound(p, n), <<>>)

EndLine(p, n) ==
  CASE p.state = "IDLE"     -> Result(p, <<Event("ORPHAN_END", n, <<>>)>>)
    [] p.state = "IN_MATCH" ->
         Result(IdleParser, <<Event("match", n, <<p.current>>),
                              Event("close", n, <<>>)>>)
    [] p.state = "IN_SHUFFLE" ->
         Result(IdleParser, <<Event("shuffle", n, Append(p.rounds, p.current)),
                              Event("close", n, <<>>)>>)

(* Mutant of OtherLine: lineIndex taken after the raw line was appended. *)
OtherLineLate(p, n) ==
  IF p.state = "IDLE" THEN Result(p, <<>>)
  ELSE LET rec == [line |-> n, lineIndex |-> Len(p.current.rawLines) + 1]
       IN  Result([p EXCEPT !.current.records  = Append(@, rec),
                            !.current.rawLines = Append(@, n)], <<>>)

(* Any other line joins the open segment: lineIndex is the place its raw   *)
(* line is about to take.                                                  *)
OtherLine(p, n) ==
  IF p.state = "IDLE" THEN Result(p, <<>>)
  ELSE LET rec == [line |-> n, lineIndex |-> Len(p.current.rawLines)]
       IN  Result([p EXCEPT !.current.records  = Append(@, rec),
                            !.current.rawLines = Append(@, n)], <<>>)

Push(p, k, n) ==
  CASE k \in Starts -> StartLine(p, k, n)
    [] k = "END"    -> EndLine(p, n)
    [] k = "OTHER"  -> OtherLine(p, n)

(* Mutant of EndOfInput: the completed rounds go with the truncated one. *)
EndOfInputDropsRounds(p) ==
  IF p.state = "IDLE" THEN Result(p, <<>>)
  ELSE Result(IdleParser, <<Event("UNCLOSED_SEGMENT", 0, <<>>),
                            Event("abortedClose", 0, <<>>)>>)

(* end(): the rounds a shuffle has completed are delivered, the truncated  *)
(* segment is dropped.                                                     *)
EndOfInput(p) ==
  IF p.state = "IDLE" THEN Result(p, <<>>)
  ELSE LET done == IF p.state = "IN_SHUFFLE" /\ p.rounds # <<>>
                   THEN <<Event("shuffle", 0, p.rounds)>> ELSE <<>>
       IN  Result(IdleParser, done \o <<Event("UNCLOSED_SEGMENT", 0, <<>>),
                                        Event("abortedClose", 0, <<>>)>>)
=============================================================================
