--------------------------- MODULE RecordingsStore ---------------------------
(***************************************************************************)
(* The index of recordings (main/recordingsStore.ts): which video files     *)
(* there are, which matches each of them carries, and which are deleted to  *)
(* stay within the limits; with the recorder's two ways of filling it, and  *)
(* with the matches whose metadata arrives over the worker.                 *)
(*                                                                          *)
(* Time is a bounded clock. A file's size is the time OBS wrote it, and its *)
(* modification time the last instant it did. Files are numbered in the     *)
(* order they begin, matches in the order they are played. Every operation  *)
(* of the store is synchronous, so each is one step.                        *)
(***************************************************************************)
EXTENDS Integers, Sequences, FiniteSets, SequencesExt

CONSTANTS
    MaxTime, MaxFiles, MaxMatches,  \* bounds
    Tolerance,  \* TOLERANCE_MS
    Grace,      \* ORPHAN_GRACE_MS
    OrphanCap,  \* ORPHAN_KEEP_CAP
    KeepCount,  \* recordingKeepCount, 0 for no limit
    MaxBytes,   \* recordingMaxBytes
    MaxLag,     \* MATCH_OPEN_SPLIT_MAX_LAG_MS
    BufferCap   \* META_BUFFER_CAP

ASSUME BoundsAssumption ==
    /\ {MaxFiles, MaxMatches, Tolerance, OrphanCap, KeepCount, MaxLag} \subseteq Nat
    /\ {MaxTime, Grace, MaxBytes, BufferCap} \subseteq Nat \ {0}

VARIABLES
    now,        \* the clock
    mode,       \* who records: "managed" or "bypass"
    start, end, \* of each match, by the log; 0 for not yet
    told,       \* signals of each match main has heard: "open", "meta", "close"
    buffer,     \* metaBuffer: the matches whose metadata came last
    current,    \* the file being written, 0 for none
    from, till, \* when OBS began and ended each file; 0 for not yet
    disk,       \* files that exist
    index,      \* recordings.ndjson: the row of each file
    owner       \* history: the file a match was given to last, 0 for none

worldVars == <<now, mode, start, end>>
recordingsVars == <<worldVars, told, buffer, current, from, till, disk, index, owner>>

Files == 1..MaxFiles
Matches == 1..MaxMatches

\* stop is 0 while the file is written (null in the code).
NoRow == [start |-> 0, stop |-> 0, matches |-> <<>>]

Indexed(I) == {f \in Files : I[f].start # 0}
Live(I) == {f \in Indexed(I) : I[f].stop = 0}
Closed(I) == Indexed(I) \ Live(I)
Carries(I, f) == ToSet(I[f].matches)

RecordingsInit ==
    /\ now = 1 /\ mode \in {"managed", "bypass"}
    /\ start = [m \in Matches |-> 0] /\ end = [m \in Matches |-> 0]
    /\ told = [m \in Matches |-> {}]
    /\ buffer = <<>>
    /\ current = 0
    /\ from = [f \in Files |-> 0] /\ till = [f \in Files |-> 0]
    /\ disk = {}
    /\ index = [f \in Files |-> NoRow]
    /\ owner = [m \in Matches |-> 0]

----------------------------------------------------------------------------
\* associate()

Unknown == -1

Larger(x, y) == IF x >= y THEN x ELSE y
Smaller(x, y) == IF x >= y THEN y ELSE x
Distance(x, y) == Larger(x, y) - Smaller(x, y)

Shared(a, b, m) == Larger(0, Smaller(b, end[m]) - Larger(a, start[m]))

\* overlapMs: not known of a file that is still written.
Overlap(r, m) == IF r.stop = 0 THEN Unknown ELSE Shared(r.start, r.stop, m)

\* A recording that carries a match already takes another only if it is known
\* to overlap with it, or not known not to.
Candidates(I, m) ==
    {f \in Indexed(I) :
        /\ I[f].start <= end[m] + Tolerance
        /\ I[f].stop = 0 \/ I[f].stop >= start[m] - Tolerance
        /\ I[f].matches # <<>> => Overlap(I[f], m) # 0}

\* The greatest overlap, an unknown one last; then the nearest start.
Hits(I, m) ==
    LET C == Candidates(I, m) IN
    {f \in C : \A g \in C :
        LET a == Overlap(I[f], m)
            b == Overlap(I[g], m)
        IN \/ a > b
           \/ a = b /\ Distance(I[f].start, start[m]) <= Distance(I[g].start, start[m])}

\* The indexes associate(m) may leave: one, but for a tie in both criteria.
Associate(I, m) ==
    IF (\E f \in Files : m \in Carries(I, f)) \/ Candidates(I, m) = {}
    THEN {I}
    ELSE {[I EXCEPT ![f].matches = Append(@, m)] : f \in Hits(I, m)}

\* Mutant of AssociateAll: the matches that came before the row are forgotten.
AssociateNone(I, ms) == {I}

AssociateAll(I, ms) ==
    LET After[n \in 0..Len(ms)] ==
            IF n = 0 THEN {I} ELSE UNION {Associate(J, ms[n]) : J \in After[n - 1]}
    IN After[Len(ms)]

\* History of the matches a step gives to a recording. A match of the buffer may
\* be given to another when the row of its first is pruned.
Own(I) ==
    owner' = [m \in Matches |->
        IF \E f \in Files : m \in Carries(I, f)
        THEN CHOOSE f \in Files : m \in Carries(I, f) ELSE owner[m]]

----------------------------------------------------------------------------
\* prune(), on the index I and the files D there are. Only the application
\* deletes files of the index.

\* A file that ends with this step was written until now; one that begins is
\* empty.
Modified(f) == IF till[f] = 0 THEN now ELSE till[f]

Size(f) == IF from[f] = 0 THEN 0 ELSE Modified(f) - from[f]

\* Op over the files of S, the newest first.
FoldFiles(Op(_, _), base, S) ==
    LET Over[f \in 1..(MaxFiles + 1)] ==
            IF f > MaxFiles THEN base
            ELSE IF f \in S THEN Op(Over[f + 1], f) ELSE Over[f + 1]
    IN Over[1]

TotalSize(S) == FoldFiles(LAMBDA n, f : n + Size(f), 0, S)

\* One video is played at a time, and is open while it is.
HeldFiles(S) == {{}} \cup {{f} : f \in S}

\* A row without stop whose file was not touched for a while is closed.
Reclaimed(I) ==
    [f \in Files |-> IF f \in Live(I) /\ now - Modified(f) >= Grace
                     THEN [I[f] EXCEPT !.stop = Modified(f)] ELSE I[f]]

\* The recordings of the newest matches: each is taken as a whole.
KeptForCount(I) ==
    LET Admit(kept, f) ==
            IF KeepCount = 0 \/ Cardinality(kept.matches) < KeepCount
                             \/ Carries(I, f) \cap kept.matches # {}
            THEN [files |-> kept.files \cup {f},
                  matches |-> kept.matches \cup Carries(I, f)]
            ELSE kept
    IN FoldFiles(Admit, [files |-> {}, matches |-> {}],
                 {f \in Closed(I) : I[f].matches # <<>>}).files

\* Mutant of KeptOrphans: without the days of grace.
KeptOrphansAged(I) ==
    LET orphans == {f \in Closed(I) : I[f].matches = <<>>} IN
    {f \in orphans : Cardinality({g \in orphans : g > f}) < OrphanCap}

\* Those that ended lately, and the newest of the others.
KeptOrphans(I) ==
    LET orphans == {f \in Closed(I) : I[f].matches = <<>>}
        aged == {f \in orphans : now - I[f].stop >= Grace}
    IN (orphans \ aged)
       \cup {f \in aged : Cardinality({g \in aged : g > f}) < OrphanCap}

\* Newest first, as many as fit next to the live ones.
KeptForBytes(I, keep) ==
    LET Fit(kept, f) ==
            IF kept.running + Size(f) > MaxBytes THEN kept
            ELSE [files |-> kept.files \cup {f}, running |-> kept.running + Size(f)]
    IN FoldFiles(Fit, [files |-> {}, running |-> TotalSize(Live(I))], keep).files

\* Mutant of Prune: a row goes even if its file cannot be deleted.
PruneAllRows(I, D) ==
    LET J == Reclaimed(I)
        out == Closed(J) \ KeptForBytes(J, KeptForCount(J) \cup KeptOrphans(J))
    IN \E held \in HeldFiles(out) :
          /\ disk' = D \ (out \ held)
          /\ index' = [f \in Files |-> IF f \in out THEN NoRow ELSE J[f]]

\* The file of a row is deleted, unless the player holds it open, and the row
\* goes when the file has gone.
Prune(I, D) ==
    LET J == Reclaimed(I)
        out == Closed(J) \ KeptForBytes(J, KeptForCount(J) \cup KeptOrphans(J))
    IN \E held \in HeldFiles(out) :
          /\ disk' = D \ (out \ held)
          /\ index' = [f \in Files |-> IF f \in out \ held THEN NoRow ELSE J[f]]

----------------------------------------------------------------------------
\* The recorder. A file lasts one tick at least.

NewFile == Cardinality({f \in Files : from[f] # 0}) + 1

OpenRow(I, f, at) == [I EXCEPT ![f] = [NoRow EXCEPT !.start = at]]

CloseRow(I, f) == [I EXCEPT ![f].stop = now]

FileBegins(f) ==
    /\ f \in Files /\ \A g \in Files : from[g] < now
    /\ current' = f
    /\ from' = [from EXCEPT ![f] = now]

FileEnds(f) == till' = [till EXCEPT ![f] = now]

InMatch == \E m \in Matches : "open" \in told[m] /\ "close" \notin told[m]

NoFile == UNCHANGED <<current, from, till, disk, index, owner>>

\* openFirstChunk: OBS begins to record.
FirstChunk ==
    /\ mode = "managed" /\ current = 0
    /\ FileBegins(NewFile)
    /\ disk' = disk \cup {NewFile}
    /\ index' = OpenRow(index, NewFile, now)
    /\ UNCHANGED <<worldVars, told, buffer, till, owner>>

\* managedSplit: a new chunk begins; the old one is closed and the index
\* pruned, unless the event came too late for the split.
Cut ==
    /\ current # 0
    /\ FileBegins(NewFile)
    /\ FileEnds(current)
    /\ LET I == OpenRow(index, NewFile, now) IN
       \/ Prune(CloseRow(I, current), disk \cup {NewFile})
       \/ index' = I /\ disk' = disk \cup {NewFile}
    /\ UNCHANGED owner

\* The idle timer and the one of a long chunk.
IdleCut ==
    /\ mode = "managed" /\ ~InMatch
    /\ Cut
    /\ UNCHANGED <<worldVars, told, buffer>>

\* stopContinuous: the game ended.
StopContinuous ==
    /\ mode = "managed" /\ current # 0
    /\ FileEnds(current)
    /\ current' = 0
    /\ UNCHANGED <<worldVars, told, buffer, from, owner>>
    /\ Prune(CloseRow(index, current), disk)

\* doClose: the recording gets its row now, and the matches that came before it.
CloseWithRow ==
    /\ FileEnds(current)
    /\ current' = 0 /\ UNCHANGED from
    /\ \E I \in AssociateAll(CloseRow(OpenRow(index, current, from[current]), current),
                             buffer) :
          Own(I) /\ Prune(I, disk)

\* StopRecord failed: the file has no row, the index is pruned all the same.
CloseFails ==
    /\ FileEnds(current)
    /\ current' = 0 /\ UNCHANGED <<from, owner>>
    /\ Prune(index, disk)

\* onSegmentOpen.
HearOpen(m) ==
    /\ start[m] # 0 /\ "open" \notin told[m] /\ ~InMatch
    /\ told' = [told EXCEPT ![m] = @ \cup {"open"}]
    /\ \/ NoFile                                \* refused, or nothing to do
       \/ /\ mode = "managed" /\ now - start[m] <= MaxLag
          /\ Cut
       \/ /\ mode = "bypass" /\ current = 0
          /\ FileBegins(NewFile)
          /\ disk' = disk \cup {NewFile}
          /\ UNCHANGED <<till, index, owner>>
    /\ UNCHANGED <<worldVars, buffer>>

\* associate: the match was stored.
HearMeta(m) ==
    /\ end[m] # 0 /\ "open" \in told[m] /\ "meta" \notin told[m]
    /\ told' = [told EXCEPT ![m] = @ \cup {"meta"}]
    /\ buffer' = IF Len(buffer) = BufferCap THEN Append(Tail(buffer), m)
                                            ELSE Append(buffer, m)
    /\ index' \in Associate(index, m)
    /\ Own(index')
    /\ UNCHANGED <<worldVars, current, from, till, disk>>

\* onSegmentClose; the quiet valve may send it before the end.
HearClose(m) ==
    /\ "open" \in told[m] /\ "close" \notin told[m]
    /\ told' = [told EXCEPT ![m] = @ \cup {"close"}]
    /\ IF mode = "managed" THEN Cut \/ NoFile
       ELSE IF current = 0 THEN NoFile
       ELSE CloseWithRow \/ CloseFails
    /\ UNCHANGED <<worldVars, buffer>>

\* OBS is gone at once: nobody closes the row of its file.
ObsDies ==
    /\ mode = "managed" /\ current # 0
    /\ FileEnds(current)
    /\ current' = 0
    /\ UNCHANGED <<worldVars, told, buffer, from, disk, index, owner>>

----------------------------------------------------------------------------
\* The world.

Tick ==
    /\ now < MaxTime
    /\ now' = now + 1
    /\ UNCHANGED <<mode, start, end, told, buffer, current, from, till, disk,
                   index, owner>>

\* One match at a time, in order, each of them a tick or longer.
MatchStarts(m) ==
    /\ start[m] = 0
    /\ \A l \in 1..(m - 1) : end[l] # 0
    /\ start' = [start EXCEPT ![m] = now]
    /\ UNCHANGED <<now, mode, end, told, buffer, current, from, till, disk,
                   index, owner>>

MatchEnds(m) ==
    /\ start[m] # 0 /\ end[m] = 0 /\ start[m] < now
    /\ end' = [end EXCEPT ![m] = now]
    /\ UNCHANGED <<now, mode, start, told, buffer, current, from, till, disk,
                   index, owner>>

----------------------------------------------------------------------------

RecordingsNext ==
    \/ FirstChunk \/ IdleCut \/ StopContinuous \/ ObsDies
    \/ \E m \in Matches : HearOpen(m) \/ HearMeta(m) \/ HearClose(m)
    \/ Tick
    \/ \E m \in Matches : MatchStarts(m) \/ MatchEnds(m)

RecordingsSpec == RecordingsInit /\ [][RecordingsNext]_recordingsVars

----------------------------------------------------------------------------
\* Properties.

\* The type of the state.
RecordingsTypeOK ==
    /\ now \in 1..MaxTime /\ mode \in {"managed", "bypass"}
    /\ start \in [Matches -> 0..MaxTime] /\ end \in [Matches -> 0..MaxTime]
    /\ told \in [Matches -> SUBSET {"open", "meta", "close"}]
    /\ buffer \in Seq(Matches) /\ Len(buffer) <= BufferCap
    /\ current \in 0..MaxFiles
    /\ from \in [Files -> 0..MaxTime] /\ till \in [Files -> 0..MaxTime]
    /\ disk \subseteq Files
    /\ index \in [Files -> [start : 0..MaxTime, stop : 0..MaxTime, matches : Seq(Matches)]]
    /\ owner \in [Matches -> 0..MaxFiles]

\* What a video shows of a match, whatever the index says of it.
Seen(f, m) == IF from[f] = 0 THEN 0 ELSE Shared(from[f], IF till[f] = 0 THEN now ELSE till[f], m)

\* A recording is deleted for a reason: it is over; and it does not fit next to
\* the newer ones that are kept; or, carrying matches, as many as are to be kept
\* have newer ones; or, carrying none, it had its time and as many as are kept
\* of those are newer. A match has the recording it was given to last.
DeletedForAReason ==
    [][\A f \in disk \ disk' :
        /\ till'[f] # 0
        /\ \/ TotalSize({f} \cup {g \in Indexed(index') \cap disk' :
                                   g > f \/ index'[g].stop = 0}) > MaxBytes
           \/ /\ KeepCount # 0
              /\ Cardinality({m \in Matches : owner'[m] > f}) >= KeepCount
              /\ \E m \in Matches : owner'[m] = f
           \/ /\ \A m \in Matches : owner'[m] # f
              /\ now - till'[f] >= Grace
              /\ Cardinality({g \in Files : /\ g > f /\ from[g] # 0
                                            /\ \A m \in Matches : owner'[m] # g})
                     >= OrphanCap]_recordingsVars

\* A file that had a row keeps it until it is gone, so that it can be deleted
\* some day.
IndexedUntilGone ==
    [][\A f \in Indexed(index) : f \in disk' => f \in Indexed(index')]_recordingsVars

\* Whichever comes first, its row or the match's metadata: a recording that is
\* over and shows a match of the buffer leaves no match without a recording.
HeardMatchIsClaimed ==
    \A i \in 1..Len(buffer), f \in Files :
        (index[f].stop # 0 /\ Overlap(index[f], buffer[i]) > 0) => owner[buffer[i]] # 0

\* A match is given the recording that shows most of it: once both are over, no
\* other recording of the index shows more of it than its own.
MatchHasItsVideo ==
    \A m \in Matches, f \in Files :
        (owner[m] # 0 /\ owner[m] # f /\ index[f].stop # 0) => Seen(f, m) <= Seen(owner[m], m)

=============================================================================
