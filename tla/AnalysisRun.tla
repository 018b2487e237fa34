---------------------------- MODULE AnalysisRun ----------------------------
(***************************************************************************)
(* The analysis service of the main process (main/analysis.ts): first-round *)
(* analyses ("runs") and deep dives on the matches of the library, all of   *)
(* them asynchronous calls to a model that are in flight for minutes and    *)
(* are superseded, never aborted, by bumping the generation of their match. *)
(*                                                                          *)
(* A run or a dive is a record of op. Its pc names the await it is          *)
(* suspended at; one action is the synchronous code from one await to the   *)
(* next. The text of prompts and replies is not modelled: a reply parses or *)
(* does not, a stream ends or throws. A result is the name of the run whose *)
(* findings it holds.                                                       *)
(***************************************************************************)
EXTENDS Naturals, FiniteSets

CONSTANTS
    Matches,    \* matches (or shuffle rounds) of the library
    Runs,       \* calls of run(), each used at most once
    Dives,      \* calls of deepen() that pass its idempotency guard
    Slots,      \* slot keys, backend:model
    MaxGen,     \* cancel() is not called above this generation
    None        \* no run, no result, no document

ASSUME OpsAssumption == Runs \cap Dives = {} /\ None \notin Runs \cup Dives \cup Matches
ASSUME NoneAssumption == None \notin [retrying : BOOLEAN, reviewing : BOOLEAN]
ASSUME BoundAssumption == MaxGen \in Nat

VARIABLES
    gens,       \* generations: match -> generation, 0 for no entry
    running,    \* running: match -> generation of the owner, 0 for no entry
    meta,       \* runningMeta: match -> [retrying, reviewing], None for no entry
    deepening,  \* deepening: matches with a deep dive in flight
    doc,        \* the slotted cache document of each match on disk, or None (one
                \* language of the user's; a dive begun in another is not fresh)
    op,         \* the calls of run() and deepen()
    superseded, \* history: calls a later call or a cancel superseded in flight
    orphaned    \* history: calls in flight when their generation was reclaimed

vars == <<gens, running, meta, deepening, doc, op, superseded, orphaned>>

Ops == Runs \cup Dives

\* base: the run whose findings the renderer handed to deepen(); fresh: it was
\* the active slot's when deepen() began. ended: how the call left.
NewOp == [pc |-> "new", match |-> None, gen |-> 0, slot |-> None,
          base |-> None, fresh |-> FALSE, ended |-> "no"]

InFlight(m) == {o \in Ops : op[o].match = m /\ op[o].pc # "end"}

IsCurrent(o) == gens[op[o].match] = op[o].gen

Init ==
    /\ gens = [m \in Matches |-> 0]
    /\ running = [m \in Matches |-> 0]
    /\ meta = [m \in Matches |-> None]
    /\ deepening = {}
    /\ doc = [m \in Matches |-> None]
    /\ op = [o \in Ops |-> NewOp]
    /\ superseded = {}
    /\ orphaned = {}

----------------------------------------------------------------------------
\* The cache document: slots keyed by backend:model, last names the active one.

Upsert(d, k, r) ==
    [last |-> k,
     slots |-> [j \in Slots |-> IF j = k THEN r
                                ELSE IF d = None THEN None ELSE d.slots[j]]]

Active(d) == IF d = None THEN None ELSE d.slots[d.last]

----------------------------------------------------------------------------
\* Generations.

\* Mutant of Reaped: a deep dive in flight does not hold the entry.
ReapedUnderDive(g, run, deep, m) ==
    IF run[m] = 0 THEN [g EXCEPT ![m] = 0] ELSE g

\* Entries left by a step that empties running[m] or deepening of m.
Reaped(g, run, deep, m) ==
    IF run[m] = 0 /\ m \notin deep THEN [g EXCEPT ![m] = 0] ELSE g

\* History of a step of o that may reclaim m's entry.
Orphans(o, m) ==
    orphaned' = IF gens'[m] = 0 /\ gens[m] # 0
                THEN orphaned \cup (InFlight(m) \ {o}) ELSE orphaned

\* running without the entry of o, if it is still o's.
Unowned(o) ==
    [running EXCEPT ![op[o].match] = IF @ = op[o].gen THEN 0 ELSE @]

ClearRunning(o) ==
    LET m == op[o].match IN
    /\ running' = Unowned(o)
    /\ meta' = IF running[m] = op[o].gen THEN [meta EXCEPT ![m] = None] ELSE meta
    /\ gens' = Reaped(gens, Unowned(o), deepening, m)
    /\ Orphans(o, m)

Leave(o, how) ==
    op' = [op EXCEPT ![o].pc = "end", ![o].ended = how]

----------------------------------------------------------------------------
\* run()

\* finish: the result goes to the run's own slot, which becomes the active
\* one; a write that fails is ignored, and done is emitted either way.
Finish(o) ==
    LET m == op[o].match IN
    /\ ClearRunning(o)
    /\ doc' \in {doc, [doc EXCEPT ![m] =
           Upsert(@, op[o].slot, [owner |-> o, findings |-> o, by |-> None])]}
    /\ Leave(o, "done")
    /\ UNCHANGED <<deepening, superseded>>

\* Mutant of RunStart: the generation is not advanced when there is an entry.
RunStartSameGeneration(o, m, k) ==
    LET g == IF gens[m] = 0 THEN 1 ELSE gens[m] IN
    /\ op[o].pc = "new"
    /\ gens' = [gens EXCEPT ![m] = g]
    /\ running' = [running EXCEPT ![m] = g]
    /\ meta' = [meta EXCEPT ![m] = [retrying |-> FALSE, reviewing |-> FALSE]]
    /\ op' = [op EXCEPT ![o] = [NewOp EXCEPT !.pc = "call1", !.match = m,
                                !.gen = g, !.slot = k]]
    /\ superseded' = superseded \cup InFlight(m)
    /\ UNCHANGED <<deepening, doc, orphaned>>

\* A run with candidates and a client: its first call is on its way.
RunStart(o, m, k) ==
    LET g == gens[m] + 1 IN
    /\ op[o].pc = "new"
    /\ gens' = [gens EXCEPT ![m] = g]
    /\ running' = [running EXCEPT ![m] = g]
    /\ meta' = [meta EXCEPT ![m] = [retrying |-> FALSE, reviewing |-> FALSE]]
    /\ op' = [op EXCEPT ![o] = [NewOp EXCEPT !.pc = "call1", !.match = m,
                                !.gen = g, !.slot = k]]
    /\ superseded' = superseded \cup InFlight(m)
    /\ UNCHANGED <<deepening, doc, orphaned>>

\* A run without candidates or without a client falls back at once: it takes
\* the running entry over, clears it and writes, all before run() returns.
RunAtOnce(o, m, k) ==
    /\ op[o].pc = "new"
    /\ running' = [running EXCEPT ![m] = 0]
    /\ meta' = [meta EXCEPT ![m] = None]
    /\ gens' = Reaped([gens EXCEPT ![m] = @ + 1], running', deepening, m)
    /\ Orphans(o, m)
    /\ doc' \in {doc, [doc EXCEPT ![m] =
           Upsert(@, k, [owner |-> o, findings |-> o, by |-> None])]}
    /\ op' = [op EXCEPT ![o] = [NewOp EXCEPT !.pc = "end", !.match = m,
                                !.gen = gens[m] + 1, !.slot = k, !.ended = "done"]]
    /\ superseded' = superseded \cup InFlight(m)
    /\ UNCHANGED deepening

Suspended(o) == op[o].pc \in {"call1", "call2", "review"}

\* Mutant of RunStale: the superseded run returns without clearing up.
RunStaleForgets(o) ==
    /\ Suspended(o)
    /\ ~IsCurrent(o)
    /\ Leave(o, "silent")
    /\ UNCHANGED <<gens, running, meta, deepening, doc, superseded, orphaned>>

\* The stream yields or ends and the run finds itself superseded.
RunStale(o) ==
    /\ Suspended(o)
    /\ ~IsCurrent(o)
    /\ ClearRunning(o)
    /\ Leave(o, "silent")
    /\ UNCHANGED <<deepening, doc, superseded>>

\* A flag of the run's metadata, set only while the entry is its own.
Flag(o, f) ==
    meta' = IF running[op[o].match] = op[o].gen /\ meta[op[o].match] # None
            THEN [meta EXCEPT ![op[o].match][f] = TRUE] ELSE meta

\* Mutant of RunRetry: the running run's metadata does not say so.
RunRetrySilently(o) ==
    /\ op[o].pc = "call1"
    /\ IsCurrent(o)
    /\ op' = [op EXCEPT ![o].pc = "call2"]
    /\ UNCHANGED <<gens, running, meta, deepening, doc, superseded, orphaned>>

\* The first reply does not parse: one more call.
RunRetry(o) ==
    /\ op[o].pc = "call1"
    /\ IsCurrent(o)
    /\ Flag(o, "retrying")
    /\ op' = [op EXCEPT ![o].pc = "call2"]
    /\ UNCHANGED <<gens, running, deepening, doc, superseded, orphaned>>

\* A reply with findings, and the self-review setting was on.
RunReview(o) ==
    /\ op[o].pc \in {"call1", "call2"}
    /\ IsCurrent(o)
    /\ Flag(o, "reviewing")
    /\ op' = [op EXCEPT ![o].pc = "review"]
    /\ UNCHANGED <<gens, running, deepening, doc, superseded, orphaned>>

\* The last reply is in: findings, an empty array, a second bad reply (the
\* bad-json fallback), or a review that was done, failed or ran out of time.
RunFinish(o) ==
    /\ Suspended(o)
    /\ IsCurrent(o)
    /\ Finish(o)

\* A model call throws: the catch of run() returns at once when superseded,
\* and otherwise clears running and reports the error. A review that throws
\* is a failed review.
RunThrow(o) ==
    /\ op[o].pc \in {"call1", "call2"}
    /\ IF IsCurrent(o)
       THEN ClearRunning(o) /\ Leave(o, "error")
       ELSE /\ Leave(o, "threw")
            /\ UNCHANGED <<gens, running, meta, orphaned>>
    /\ UNCHANGED <<deepening, doc, superseded>>

----------------------------------------------------------------------------
\* deepen()

\* writeMerged: the findings handed in, with the dives, replace those of the
\* slot that is active on disk now. Without a document only done is emitted.
Merged(d, m) ==
    IF Active(doc[m]) = None THEN doc
    ELSE [doc EXCEPT ![m] = Upsert(@, @.last,
             [owner |-> Active(@).owner, findings |-> op'[d].base, by |-> d])]

\* The finally of deepen().
Surface(d, m) ==
    /\ deepening' = deepening \ {m}
    /\ gens' = Reaped(gens, running, deepening', m)
    /\ Orphans(d, m)

DiveBegins(d, m, b) ==
    /\ op[d].pc = "new"
    /\ m \notin deepening
    /\ superseded' = superseded \cup InFlight(m)

DiveRecord(m, b) ==
    [NewOp EXCEPT !.match = m, !.gen = gens[m] + 1, !.base = b,
                  !.fresh = (Active(doc[m]) # None /\ Active(doc[m]).owner = b)]

\* A dive with a client and packs: its call is on its way.
DiveStart(d, m, b) ==
    /\ DiveBegins(d, m, b)
    /\ gens' = [gens EXCEPT ![m] = @ + 1]
    /\ deepening' = deepening \cup {m}
    /\ op' = [op EXCEPT ![d] = [DiveRecord(m, b) EXCEPT !.pc = "dive"]]
    /\ UNCHANGED <<running, meta, doc, orphaned>>

\* A dive without a client or without packs marks the slot deepened at once.
DiveAtOnce(d, m, b) ==
    /\ DiveBegins(d, m, b)
    /\ gens' = Reaped([gens EXCEPT ![m] = @ + 1], running, deepening, m)
    /\ Orphans(d, m)
    /\ op' = [op EXCEPT ![d] = [DiveRecord(m, b) EXCEPT !.pc = "end", !.ended = "done"]]
    /\ doc' \in {doc, Merged(d, m)}
    /\ UNCHANGED <<running, meta, deepening>>

\* The stream yields or ends and the dive finds itself superseded.
DiveStale(d) ==
    /\ op[d].pc \in {"dive", "repair"}
    /\ ~IsCurrent(d)
    /\ Leave(d, "silent")
    /\ Surface(d, op[d].match)
    /\ UNCHANGED <<running, meta, doc, superseded>>

\* Every entry was dropped by the audit: one more call.
DiveRepair(d) ==
    /\ op[d].pc = "dive"
    /\ IsCurrent(d)
    /\ op' = [op EXCEPT ![d].pc = "repair"]
    /\ UNCHANGED <<gens, running, meta, deepening, doc, superseded, orphaned>>

\* Mutant of DiveFinish: the generation is not checked before the write.
DiveFinishUnchecked(d) ==
    /\ op[d].pc \in {"dive", "repair"}
    /\ Leave(d, "done")
    /\ doc' \in {doc, Merged(d, op[d].match)}
    /\ Surface(d, op[d].match)
    /\ UNCHANGED <<running, meta, superseded>>

\* The reply was audited, the repair answered or failed, or the first call
\* threw; the write may fail, done is emitted either way.
DiveFinish(d) ==
    /\ op[d].pc \in {"dive", "repair"}
    /\ IsCurrent(d)
    /\ Leave(d, "done")
    /\ doc' \in {doc, Merged(d, op[d].match)}
    /\ Surface(d, op[d].match)
    /\ UNCHANGED <<running, meta, superseded>>

----------------------------------------------------------------------------
\* cancel()

\* cancel(matchId): the batch cancels one match.
CancelOne(m) ==
    /\ gens[m] < MaxGen
    /\ gens' = [gens EXCEPT ![m] = IF @ = 0 THEN 0 ELSE @ + 1]
    /\ running' = [running EXCEPT ![m] = 0]
    /\ meta' = [meta EXCEPT ![m] = None]
    /\ superseded' = superseded \cup InFlight(m)
    /\ UNCHANGED <<deepening, doc, op, orphaned>>

\* cancel(): every match.
CancelAll ==
    /\ \A m \in Matches : gens[m] < MaxGen
    /\ gens' = [m \in Matches |-> IF gens[m] = 0 THEN 0 ELSE gens[m] + 1]
    /\ running' = [m \in Matches |-> 0]
    /\ meta' = [m \in Matches |-> None]
    /\ superseded' = superseded \cup UNION {InFlight(m) : m \in Matches}
    /\ UNCHANGED <<deepening, doc, op, orphaned>>

----------------------------------------------------------------------------

\* Findings the renderer can hand to deepen(): of a result it was given.
Shown(m) == {o \in Runs : op[o].match = m /\ op[o].ended = "done"}

RunNext(o) ==
    \/ \E m \in Matches, k \in Slots :
          RunStart(o, m, k) \/ RunAtOnce(o, m, k)
    \/ RunStale(o) \/ RunRetry(o) \/ RunReview(o) \/ RunFinish(o) \/ RunThrow(o)

DiveNext(d) ==
    \/ \E m \in Matches : \E b \in Shown(m) : DiveStart(d, m, b) \/ DiveAtOnce(d, m, b)
    \/ DiveStale(d) \/ DiveRepair(d) \/ DiveFinish(d)

Next ==
    \/ \E o \in Runs : RunNext(o)
    \/ \E d \in Dives : DiveNext(d)
    \/ \E m \in Matches : CancelOne(m)
    \/ CancelAll

Spec == Init /\ [][Next]_vars

----------------------------------------------------------------------------
\* Properties.

Results == [owner : Runs, findings : Runs, by : Dives \cup {None}]

OpRecords ==
    [pc : {"new", "call1", "call2", "review", "dive", "repair", "end"},
     match : Matches \cup {None}, gen : Nat, slot : Slots \cup {None},
     base : Runs \cup {None}, fresh : BOOLEAN,
     ended : {"no", "done", "silent", "error", "threw"}]

\* Every variable has its type.
TypeOK ==
    /\ gens \in [Matches -> Nat]
    /\ running \in [Matches -> Nat]
    /\ meta \in [Matches -> [retrying : BOOLEAN, reviewing : BOOLEAN] \cup {None}]
    /\ deepening \subseteq Matches
    /\ doc \in [Matches ->
          [last : Slots, slots : [Slots -> Results \cup {None}]] \cup {None}]
    /\ op \in [Ops -> OpRecords]
    /\ superseded \subseteq Ops
    /\ orphaned \subseteq Ops

\* A call that a later run, a later dive or a cancel superseded leaves without
\* a result and without an event of its own, as long as the generation entry
\* it compares itself with was not reclaimed under it.
SupersededIsSilent ==
    \A o \in superseded \ orphaned : op[o].ended \notin {"done", "error"}

\* No analysis is thrown away for nothing: a call nobody superseded delivers
\* its result or its error, and no call of another match stops it. The entry
\* it compares itself with is never reclaimed under it; the only exception is a
\* match on which a superseded call survived a reclaim: the numbers begin again
\* and it may take itself for the latest.
LatestIsDelivered ==
    \A o \in Ops :
        op[o].ended \in {"silent", "threw"} =>
            \/ o \in superseded
            \/ \E z \in orphaned \cap superseded : op[z].match = op[o].match

\* What a panel that mounts during a run is told is true: a running entry is
\* that of a run in flight, with metadata saying which of its calls is out; or
\* of a superseded run whose call threw.
RunningIsTrue ==
    \A m \in Matches :
        /\ running[m] = 0 <=> meta[m] = None
        /\ running[m] # 0 =>
             \E o \in Runs :
                /\ op[o].match = m /\ op[o].gen = running[m]
                /\ \/ op[o].ended = "threw"
                   \/ /\ op[o].pc \in {"call1", "call2", "review"}
                      /\ op[o].pc = "call2" => meta[m].retrying
                      /\ meta[m].reviewing <=> op[o].pc = "review"

\* A match with nothing in flight keeps no entry, so the maps do not grow with
\* the matches ever viewed; except after a superseded run's call threw.
QuietLeavesNothing ==
    \A m \in Matches :
        (InFlight(m) = {} /\ \A o \in Runs : op[o].match = m => op[o].ended # "threw")
            => gens[m] = 0 /\ running[m] = 0 /\ m \notin deepening

\* One result per slot: the findings a slot holds are those of the run whose
\* session and audit it holds, unless a dive was handed the findings of a
\* result that was no longer the active one when it began.
SlotIsOneAnalysis ==
    \A m \in Matches : doc[m] # None =>
        \A k \in Slots :
            LET r == doc[m].slots[k] IN
            \/ r = None
            \/ r.findings = r.owner
            \/ ~op[r.by].fresh
            \/ \E z \in orphaned : op[z].match = m

=============================================================================
