------------------------- MODULE SegmenterOpsProofs -------------------------
(***************************************************************************)
(* Lemmas about the segmenter's operators: what a call makes of a          *)
(* well-formed parser, whatever the line.                                  *)
(***************************************************************************)
EXTENDS SegmenterOps, SequenceTheorems, TLAPS

(* What Append does, position by position. *)
LEMMA AppendAt ==
  ASSUME NEW S, NEW q \in Seq(S), NEW e \in S
  PROVE  /\ Append(q, e) \in Seq(S)
         /\ Len(Append(q, e)) = Len(q) + 1
         /\ DOMAIN Append(q, e) = 1..(Len(q) + 1)
         /\ Append(q, e)[Len(q) + 1] = e
         /\ \A i \in 1..Len(q) : Append(q, e)[i] = q[i]
  OBVIOUS

(* A parser as the segmenter leaves it: typed, and with a segment open     *)
(* exactly outside IDLE.                                                   *)
ParserOK(p) == /\ p \in Parser
               /\ p.state # "IDLE" => p.current \in Segment
               /\ p.state = "IDLE" => p = IdleParser

(* The initial parser is well-formed. *)
LEMMA IdleParserOK == ParserOK(IdleParser)
  BY DEF ParserOK, IdleParser, Parser, NoSegment

(* Opening a segment yields a well-formed parser. *)
LEMMA OpenedOK == ASSUME NEW k, NEW n \in Nat PROVE ParserOK(Opened(k, n))
  BY DEF ParserOK, Opened, NewSegment, Parser, Segment, Record

(* A new round keeps the finished one. *)
LEMMA NextRoundOK ==
  ASSUME NEW p, ParserOK(p), p.state = "IN_SHUFFLE", NEW n \in Nat
  PROVE  ParserOK(NextRound(p, n))
<1> DEFINE done == Append(p.rounds, p.current)
           next == NewSegment("shuffleRound", Len(done), n)
<1>1. p \in Parser /\ p.current \in Segment
  BY DEF ParserOK
<1>2. done \in Seq(Segment)
  BY <1>1 DEF Parser
<1>3. next \in Segment
  BY <1>2 DEF NewSegment, Segment, Record
<1>4. NextRound(p, n) = [p EXCEPT !.rounds = done, !.current = next]
  BY DEF NextRound
<1> QED BY <1>1, <1>2, <1>3, <1>4 DEF ParserOK, Parser

(* Any line keeps the parser well-formed, and every callback is typed.     *)
LEMMA PushOK ==
  ASSUME NEW p, ParserOK(p), NEW k \in Kinds, NEW n \in Nat
  PROVE  /\ ParserOK(Push(p, k, n).parser)
         /\ Push(p, k, n).events \in Seq(EventSet)
<1>1. CASE k \in Starts
  <2>1. Push(p, k, n) = StartLine(p, k, n)
    BY <1>1 DEF Push, Starts
  <2>2. CASE p.state = "IDLE"
    <3>1. StartLine(p, k, n) = Result(Opened(k, n), <<Event("open", n, <<>>)>>)
      BY <2>2 DEF StartLine
    <3> QED BY <2>1, <3>1, OpenedOK DEF Result, Event, EventSet, EventTypes
  <2>3. CASE p.state = "IN_MATCH"
    <3>1. StartLine(p, k, n) = Result(Opened(k, n), <<Event("DOUBLE_START", n, <<>>)>>)
      BY <2>3 DEF StartLine
    <3> QED BY <2>1, <3>1, OpenedOK DEF Result, Event, EventSet, EventTypes
  <2>4. CASE p.state = "IN_SHUFFLE"
    <3>1. StartLine(p, k, n) = Result(NextRound(p, n), <<>>)
      BY <2>4 DEF StartLine
    <3> QED BY <2>1, <2>4, <3>1, NextRoundOK DEF Result
  <2> QED BY <2>2, <2>3, <2>4 DEF ParserOK, Parser
<1>2. CASE k = "END"
  <2>1. Push(p, k, n) = EndLine(p, n)
    BY <1>2 DEF Push, Starts
  <2>2. CASE p.state = "IDLE"
    <3>1. EndLine(p, n) = Result(p, <<Event("ORPHAN_END", n, <<>>)>>)
      BY <2>2 DEF EndLine
    <3> QED BY <2>1, <3>1 DEF Result, Event, EventSet, EventTypes
  <2>3. CASE p.state = "IN_MATCH"
    <3>1. EndLine(p, n) = Result(IdleParser, <<Event("match", n, <<p.current>>),
                                               Event("close", n, <<>>)>>)
      BY <2>3 DEF EndLine
    <3>2. p.current \in Segment
      BY <2>3 DEF ParserOK
    <3> QED BY <2>1, <3>1, <3>2, IdleParserOK DEF Result, Event, EventSet, EventTypes
  <2>4. CASE p.state = "IN_SHUFFLE"
    <3>1. EndLine(p, n) = Result(IdleParser, <<Event("shuffle", n, Append(p.rounds, p.current)),
                                               Event("close", n, <<>>)>>)
      BY <2>4 DEF EndLine
    <3>2. Append(p.rounds, p.current) \in Seq(Segment)
      BY <2>4 DEF ParserOK, Parser
    <3> QED BY <2>1, <3>1, <3>2, IdleParserOK DEF Result, Event, EventSet, EventTypes
  <2> QED BY <2>2, <2>3, <2>4 DEF ParserOK, Parser
<1>3. CASE k = "OTHER"
  <2>1. Push(p, k, n) = OtherLine(p, n)
    BY <1>3 DEF Push, Starts
  <2>2. CASE p.state = "IDLE"
    BY <2>1, <2>2 DEF OtherLine, Result
  <2>3. CASE p.state # "IDLE"
    <3> DEFINE rec == [line |-> n, lineIndex |-> Len(p.current.rawLines)]
               seg == [p.current EXCEPT !.records  = Append(@, rec),
                                        !.rawLines = Append(@, n)]
    <3>1. p.current \in Segment
      BY <2>3 DEF ParserOK
    <3>2. rec \in Record
      BY <3>1 DEF Segment, Record
    <3>3. seg \in Segment
      <4> HIDE DEF rec
      <4>1. Append(p.current.records, rec) \in Seq(Record)
        BY <3>1, <3>2 DEF Segment
      <4>2. Append(p.current.rawLines, n) \in Seq(Nat) \ {<<>>}
        <5>1. p.current.rawLines \in Seq(Nat)
          BY <3>1 DEF Segment
        <5>2. Append(p.current.rawLines, n) \in Seq(Nat) /\ Len(Append(p.current.rawLines, n)) # 0
          BY <5>1, AppendAt
        <5> QED BY <5>2
      <4> QED BY <3>1, <4>1, <4>2 DEF Segment
    <3>4. Push(p, k, n) = Result([p EXCEPT !.current = seg], <<>>)
      BY <2>1, <2>3 DEF OtherLine, ParserOK, Parser, Result
    <3>5. ParserOK([p EXCEPT !.current = seg])
      BY <2>3, <3>3 DEF ParserOK, Parser
    <3> QED BY <3>4, <3>5 DEF Result
  <2> QED BY <2>2, <2>3
<1> QED BY <1>1, <1>2, <1>3 DEF Kinds

(* end() leaves the initial parser, and what it delivers is typed. *)
LEMMA EndOfInputOK ==
  ASSUME NEW p, ParserOK(p)
  PROVE  /\ EndOfInput(p).parser = IdleParser
         /\ EndOfInput(p).events \in Seq(EventSet)
<1>1. CASE p.state = "IDLE"
  BY <1>1 DEF EndOfInput, Result, ParserOK
<1>2. CASE p.state # "IDLE"
  <2> DEFINE done == IF p.state = "IN_SHUFFLE" /\ p.rounds # <<>>
                     THEN <<Event("shuffle", 0, p.rounds)>> ELSE <<>>
             rest == <<Event("UNCLOSED_SEGMENT", 0, <<>>), Event("abortedClose", 0, <<>>)>>
  <2>1. EndOfInput(p) = Result(IdleParser, done \o rest)
    BY <1>2 DEF EndOfInput
  <2>2. done \in Seq(EventSet)
    <3>1. p.rounds \in Seq(Segment)
      BY DEF ParserOK, Parser
    <3>2. Event("shuffle", 0, p.rounds) \in EventSet
      BY <3>1 DEF Event, EventSet, EventTypes
    <3> QED BY <3>2
  <2>3. rest \in Seq(EventSet)
    BY DEF Event, EventSet, EventTypes
  <2> QED BY <2>1, <2>2, <2>3 DEF Result
<1> QED BY <1>1, <1>2
-----------------------------------------------------------------------------
(* The callbacks of one call hand over at most one match or shuffle, and   *)
(* one that holds a segment.                                               *)
IsDelivery(e) == e.type \in {"match", "shuffle"}
DeliversAtMostOne(es) ==
  /\ \A i, j \in DOMAIN es : IsDelivery(es[i]) /\ IsDelivery(es[j]) => i = j
  /\ \A i \in DOMAIN es : IsDelivery(es[i]) => es[i].segments # <<>>

(* One line completes at most one match. *)
LEMMA PushDelivers ==
  ASSUME NEW p, ParserOK(p), NEW k \in Kinds, NEW n \in Nat
  PROVE  DeliversAtMostOne(Push(p, k, n).events)
<1>1. CASE k \in Starts
  BY <1>1 DEF ParserOK, Parser, Push, Starts, StartLine, Result, Event, DeliversAtMostOne, IsDelivery
<1>2. CASE k = "END"
  <2>1. Push(p, k, n) = EndLine(p, n)
    BY <1>2 DEF Push, Starts
  <2>2. CASE p.state = "IDLE"
    BY <2>1, <2>2 DEF EndLine, Result, Event, DeliversAtMostOne, IsDelivery
  <2>3. CASE p.state = "IN_MATCH"
    <3> DEFINE done == <<p.current>>
    <3>1. done # <<>>
      OBVIOUS
    <3>2. Push(p, k, n).events = <<Event("match", n, done), Event("close", n, <<>>)>>
      BY <2>1, <2>3 DEF EndLine, Result
    <3> HIDE DEF done
    <3> QED BY <3>1, <3>2 DEF Event, DeliversAtMostOne, IsDelivery
  <2>4. CASE p.state = "IN_SHUFFLE"
    <3> DEFINE done == Append(p.rounds, p.current)
    <3>1. Len(done) # 0
      BY <2>4 DEF ParserOK, Parser
    <3>2. done # <<>>
      BY <3>1
    <3>3. Push(p, k, n).events = <<Event("shuffle", n, done), Event("close", n, <<>>)>>
      BY <2>1, <2>4 DEF EndLine, Result
    <3> HIDE DEF done
    <3> QED BY <3>2, <3>3 DEF Event, DeliversAtMostOne, IsDelivery
  <2> QED BY <2>2, <2>3, <2>4 DEF ParserOK, Parser
<1>3. CASE k = "OTHER"
  <2>1. Push(p, k, n) = OtherLine(p, n)
    BY <1>3 DEF Push, Starts
  <2>2. Push(p, k, n).events = <<>>
    BY <2>1 DEF OtherLine, Result
  <2> QED BY <2>2 DEF DeliversAtMostOne
<1> QED BY <1>1, <1>2, <1>3 DEF Kinds

(* Callbacks that deliver nothing may follow one delivery. *)
LEMMA ConcatDelivers ==
  ASSUME NEW es \in Seq(EventSet), NEW fs \in Seq(EventSet), DeliversAtMostOne(es),
         \A i \in DOMAIN fs : ~IsDelivery(fs[i])
  PROVE  DeliversAtMostOne(es \o fs)
<1> DEFINE all == es \o fs
<1>1. /\ all \in Seq(EventSet) /\ Len(all) = Len(es) + Len(fs)
      /\ \A i \in 1..Len(all) : all[i] = IF i <= Len(es) THEN es[i] ELSE fs[i - Len(es)]
  BY ConcatProperties
<1>2. \A i \in DOMAIN all : IsDelivery(all[i]) => i \in DOMAIN es /\ all[i] = es[i]
  <2> HIDE DEF all
  <2> SUFFICES ASSUME NEW i \in DOMAIN all, IsDelivery(all[i])
               PROVE  i \in DOMAIN es /\ all[i] = es[i]
    OBVIOUS
  <2>1. i \in 1..Len(all) /\ Len(es) \in Nat /\ Len(fs) \in Nat
    BY <1>1
  <2>2. CASE i <= Len(es)
    BY <1>1, <2>1, <2>2
  <2>3. CASE ~(i <= Len(es))
    <3>1. i - Len(es) \in DOMAIN fs /\ all[i] = fs[i - Len(es)]
      BY <1>1, <2>1, <2>3
    <3> QED BY <3>1
  <2> QED BY <2>2, <2>3
<1> HIDE DEF all
<1>3. DeliversAtMostOne(all)
  BY <1>2 DEF DeliversAtMostOne
<1> QED BY <1>3 DEF all

(* end() delivers at most the rounds a shuffle has completed. *)
LEMMA EndOfInputDelivers ==
  ASSUME NEW p, ParserOK(p)
  PROVE  DeliversAtMostOne(EndOfInput(p).events)
<1>1. CASE p.state = "IDLE"
  BY <1>1 DEF EndOfInput, Result, DeliversAtMostOne
<1>2. CASE p.state # "IDLE"
  <2> DEFINE done == IF p.state = "IN_SHUFFLE" /\ p.rounds # <<>>
                     THEN <<Event("shuffle", 0, p.rounds)>> ELSE <<>>
             rest == <<Event("UNCLOSED_SEGMENT", 0, <<>>), Event("abortedClose", 0, <<>>)>>
  <2>1. EndOfInput(p).events = done \o rest
    BY <1>2 DEF EndOfInput, Result
  <2>2. done \in Seq(EventSet)
    <3>1. p.rounds \in Seq(Segment)
      BY DEF ParserOK, Parser
    <3>2. Event("shuffle", 0, p.rounds) \in EventSet
      BY <3>1 DEF Event, EventSet, EventTypes
    <3> QED BY <3>2
  <2>3. rest \in Seq(EventSet)
    BY DEF Event, EventSet, EventTypes
  <2>4. DeliversAtMostOne(done)
    BY DEF Event, DeliversAtMostOne, IsDelivery
  <2>5. \A i \in DOMAIN rest : ~IsDelivery(rest[i])
    BY DEF Event, IsDelivery
  <2> HIDE DEF done, rest
  <2> QED BY <2>1, <2>2, <2>3, <2>4, <2>5, ConcatDelivers
<1> QED BY <1>1, <1>2
=============================================================================
