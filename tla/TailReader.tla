----------------------------- MODULE TailReader -----------------------------
(***************************************************************************)
(* readTail (packages/desktop/src/worker/tailReader.ts): the incremental   *)
(* reader of a combat log that another process is appending to and may     *)
(* replace at any moment.  stat, the read of the first line, open and each *)
(* chunk read are separate system calls, so the writer moves in between.   *)
(*                                                                         *)
(* A file is a sequence of bytes; a line is two body bytes and a newline.  *)
(* The first byte of a file is the same in every generation (the log's     *)
(* timestamp prefix), the rest of the first line is not: it carries a      *)
(* timestamp to the millisecond.                                           *)
(***************************************************************************)
EXTENDS Integers, Sequences, FiniteSets

CONSTANTS MaxBytes,  \* bound on the length of one generation of the file
          MaxGen,    \* bound on the number of generations of the file
          Chunk,     \* bytes per read call (8 MiB in the code)
          HeadMayFail \* may opening the file for its first line fail while stat and the later open succeed?
ASSUME BoundsAssumption == MaxBytes \in Nat /\ MaxGen \in Nat \ {0}
                           /\ Chunk \in Nat \ {0} /\ HeadMayFail \in BOOLEAN

VARIABLES
  gen, file,       \* the log on disk: its generation and its bytes
  tail,            \* the pipeline's TailState: offset, firstLineChecksum, carry
  pc, size, cur, rotated, readFrom, lines,  \* one readTail call in progress
  callGen,         \* history: the generation of the file when the call began
  saved,           \* the checkpoint on disk
  base, delivered, \* the offset the pipeline started from, lines handed to the parser since
  cutShort         \* history: lines read from a log that was never replaced were read again

disk == <<gen, file>>
call == <<pc, size, cur, rotated, readFrom, lines, callGen>>
consumer == <<tail, saved, base, delivered, cutShort>>
readerVars == <<disk, call, consumer>>

-----------------------------------------------------------------------------
NULL == <<>>  \* no checksum: the head of a non-empty file is never empty
LineBytes == 3

(* The n-th byte of generation g. *)
Byte(g, n) == [gen  |-> IF n = 1 THEN 0 ELSE g,
               line |-> (n - 1) \div LineBytes,
               part |-> (n - 1) % LineBytes]
IsNewline(b) == b.part = LineBytes - 1
Newlines(s) == {i \in DOMAIN s : IsNewline(s[i])}
Least(S) == CHOOSE x \in S : \A y \in S : x <= y
Greatest(S) == CHOOSE x \in S : \A y \in S : y <= x

(* Mutant of FirstLineChecksumOf: the digest covers all that was read of   *)
(* the head instead of stopping at the first newline.                      *)
ChecksumOfWholeHead(f) == IF f = <<>> THEN NULL ELSE f

(* firstLineChecksumOf: sha1 of the first line, or of what there is of it: injective, so the    *)
(* bytes themselves stand for the digest.  null when the file is empty.    *)
FirstLineChecksumOf(f) ==
  IF f = <<>> THEN NULL
  ELSE LET nl == Newlines(f)
       IN  SubSeq(f, 1, IF nl = {} THEN Len(f) ELSE Least(nl) - 1)

(* The complete lines of a byte string, newlines removed. *)
CompleteLines(s) ==
  LET nl == Newlines(s)
      End(k) == CHOOSE e \in nl : Cardinality({x \in nl : x <= e}) = k
      Begin(k) == IF k = 1 THEN 1 ELSE End(k - 1) + 1
  IN  [k \in 1..Cardinality(nl) |-> SubSeq(s, Begin(k), End(k) - 1)]

(* Mutant of CompleteLength: the offset moves past the partial last line.  *)
WholeLength(s) == Len(s)

(* Bytes up to and including the last newline. *)
CompleteLength(s) == IF Newlines(s) = {} THEN 0 ELSE Greatest(Newlines(s))

InitialTailState(offset, checksum) ==
  [offset |-> offset, checksum |-> checksum, carry |-> <<>>]

Rotated(sz, st, checksum) ==
  \/ sz < st.offset
  \/ st.checksum # NULL /\ checksum # NULL /\ checksum # st.checksum

-----------------------------------------------------------------------------
ReaderInit == /\ gen = 1 /\ file = <<>>
              /\ tail = InitialTailState(0, NULL)
              /\ pc = "idle" /\ size = 0 /\ cur = tail /\ rotated = FALSE
              /\ readFrom = 0 /\ lines = <<>> /\ callGen = 1
              /\ saved = [offset |-> 0, checksum |-> NULL]
              /\ base = 0 /\ delivered = <<>> /\ cutShort = FALSE

(* The game appends (one byte: any write is a run of these). *)
GameWrites == /\ Len(file) < MaxBytes
              /\ file' = Append(file, Byte(gen, Len(file) + 1))
              /\ UNCHANGED <<gen, call, consumer>>

(* The game replaces the file; the new one may already hold some bytes.    *)
(* Assumed of a replacement in the middle of a readTail call: it is the    *)
(* only one in that call, and the new file shows its whole first line.     *)
GameRotates == /\ gen < MaxGen
               /\ pc = "idle" \/ gen = callGen
               /\ gen' = gen + 1
               /\ \E n \in (IF pc = "idle" THEN 0 ELSE LineBytes)..MaxBytes :
                    file' = [i \in 1..n |-> Byte(gen + 1, i)]
               /\ UNCHANGED <<call, consumer>>

(* statSync; a missing file returns the state unchanged. *)
Stat == /\ pc = "idle"
        /\ \/ pc' = "checksum" /\ size' = Len(file) /\ callGen' = gen
           \/ UNCHANGED <<pc, size, callGen>>
        /\ UNCHANGED <<cur, rotated, readFrom, lines, disk, consumer>>

(* The call returns st: FilePipeline.processFlush starts a new parser when *)
(* the file rotated, pushes the lines and keeps the state.                 *)
Return(st, rot, out) ==
  /\ pc' = "idle"
  /\ tail' = st
  /\ base' = IF rot THEN 0 ELSE base
  /\ delivered' = IF rot THEN out ELSE delivered \o out
  /\ size' = 0 /\ readFrom' = 0 /\ lines' = <<>> /\ rotated' = FALSE /\ cur' = st
  /\ UNCHANGED callGen

(* firstLineChecksumOf, the rotation test, and the early return when there *)
(* is nothing new.  A head that cannot be opened reads as null.            *)
CheckRotation ==
  /\ pc = "checksum"
  /\ \E checksum \in {FirstLineChecksumOf(file)} \cup (IF HeadMayFail THEN {NULL} ELSE {}) :
       LET rot == Rotated(size, tail, checksum)
           st  == IF rot THEN InitialTailState(0, checksum)
                  ELSE [tail EXCEPT !.checksum = IF @ = NULL THEN checksum ELSE @]
           from == st.offset + Len(st.carry)
       IN  /\ cutShort' = (cutShort \/ (rot /\ tail.offset > 0 /\ gen = 1))
           /\ IF from >= size
              THEN Return(st, rot, <<>>)
              ELSE /\ pc' = "open" /\ cur' = st /\ rotated' = rot
                   /\ readFrom' = from /\ lines' = <<>>
                   /\ UNCHANGED <<size, callGen, tail, base, delivered>>
  /\ UNCHANGED <<disk, saved>>

(* openSync; on failure the (possibly reset) state is returned. *)
Open == /\ pc = "open"
        /\ \/ pc' = "read" /\ UNCHANGED <<size, cur, rotated, readFrom, lines, callGen,
                                            tail, base, delivered>>
           \/ Return(cur, rotated, <<>>)
        /\ UNCHANGED <<disk, saved, cutShort>>

(* The bytes a read of want bytes at an offset returns. *)
Available(from, want) ==
  SubSeq(file, from + 1, IF from + want <= Len(file) THEN from + want ELSE Len(file))

(* One chunk: the bytes still there at readFrom, glued behind the carry.   *)
(* The offset moves past the last complete line only.                      *)
ReadChunk ==
  LET want == IF size - readFrom < Chunk THEN size - readFrom ELSE Chunk
      got  == Available(readFrom, want)
      data == cur.carry \o got
      done == CompleteLength(data)
  IN  /\ pc = "read" /\ readFrom < size /\ Len(file) > readFrom
      /\ readFrom' = readFrom + Len(got)
      /\ lines' = lines \o CompleteLines(data)
      /\ cur' = [cur EXCEPT !.offset = @ + done,
                            !.carry = SubSeq(data, done + 1, Len(data))]
      /\ UNCHANGED <<pc, size, rotated, callGen, disk, consumer>>

(* The loop ends at the size seen by stat, or at an empty read. *)
Finish == /\ pc = "read"
          /\ readFrom >= size \/ Len(file) <= readFrom
          /\ Return(cur, rotated, lines)
          /\ UNCHANGED <<disk, saved, cutShort>>

(* The worker saves the reader's position when no match is in progress. *)
Save == /\ pc = "idle"
        /\ saved' = [offset |-> tail.offset, checksum |-> tail.checksum]
        /\ UNCHANGED <<disk, call, tail, base, delivered, cutShort>>

(* A new pipeline (worker crash at any moment, or a reconfiguration): it   *)
(* starts from the saved checkpoint with an empty carry.                   *)
Restart == /\ tail' = InitialTailState(saved.offset, saved.checksum)
           /\ base' = saved.offset /\ delivered' = <<>>
           /\ pc' = "idle" /\ size' = 0 /\ readFrom' = 0 /\ lines' = <<>>
           /\ rotated' = FALSE /\ cur' = tail'
           /\ UNCHANGED <<disk, callGen, saved, cutShort>>

ReaderNext == \/ GameWrites \/ GameRotates
              \/ Stat \/ CheckRotation \/ Open \/ ReadChunk \/ Finish
              \/ Save \/ Restart

ReaderSpec == ReaderInit /\ [][ReaderNext]_readerVars

-----------------------------------------------------------------------------
ByteSet == [gen : 0..MaxGen, line : Nat, part : 0..(LineBytes - 1)]
TailSet == [offset : Nat, checksum : Seq(ByteSet), carry : Seq(ByteSet)]

ReaderTypeOK == /\ gen \in Nat /\ file \in Seq(ByteSet)
                /\ tail \in TailSet /\ cur \in TailSet
                /\ pc \in {"idle", "checksum", "open", "read"}
                /\ size \in Nat /\ readFrom \in Nat /\ rotated \in BOOLEAN
                /\ lines \in Seq(Seq(ByteSet)) /\ delivered \in Seq(Seq(ByteSet))
                /\ saved \in [offset : Nat, checksum : Seq(ByteSet)]
                /\ base \in Nat /\ callGen \in Nat /\ cutShort \in BOOLEAN

(* Between calls, when the state's checksum is that of the file's complete *)
(* first line, the lines handed over since the checkpoint are exactly the  *)
(* file's lines between the checkpoint and the offset, and the carry is    *)
(* what follows them: no line lost, repeated, torn or spliced from two     *)
(* generations of the log.                                                 *)
ReadsTheFile ==
  pc = "idle" /\ Newlines(file) # {} /\ tail.checksum = FirstLineChecksumOf(file) =>
    /\ tail.offset + Len(tail.carry) <= Len(file)
    /\ delivered = CompleteLines(SubSeq(file, base + 1, tail.offset))
    /\ tail.carry = SubSeq(file, tail.offset + 1, tail.offset + Len(tail.carry))

(* A checksum taken while the first line was still being written makes the *)
(* next call report a rotation that never happened.  As long as the file   *)
(* has not been replaced this must not end a parser that has lines: it     *)
(* would cut the match in progress.                                        *)
NoSpuriousCut == ~cutShort
=============================================================================
