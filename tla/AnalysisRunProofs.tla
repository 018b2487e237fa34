-------------------------- MODULE AnalysisRunProofs --------------------------
(***************************************************************************)
(* Proofs about the analysis service, for any number of matches, runs, deep *)
(* dives and slots. What the generations promise can be broken in one way   *)
(* only: a superseded run outlives the reclaim of its match's entry, and    *)
(* the numbers begin again while it is in flight. Such a match is haunted,  *)
(* and the invariant says that everything holds of the others.              *)
(***************************************************************************)
EXTENDS AnalysisRun, TLAPS

\* The matches with a superseded run that was in flight when their entry was
\* reclaimed.
Haunted == {op[z].match : z \in orphaned \cap superseded}

Flying(o) == op[o].pc \notin {"new", "end"}

RunsOnly == {"call1", "call2", "review"}
DivesOnly == {"dive", "repair"}

\* What a call is, by where it is.
CallOK(o) ==
    /\ op[o].pc = "new" => /\ op[o].match = None /\ op[o].ended = "no"
                           /\ o \notin superseded /\ o \notin orphaned
    /\ op[o].pc # "new" => op[o].match \in Matches /\ op[o].gen # 0
    /\ op[o].ended = "no" <=> op[o].pc # "end"
    /\ o \in Runs => op[o].pc \notin DivesOnly
    /\ o \in Dives => op[o].pc \notin RunsOnly /\ op[o].ended # "threw"

CallsOK == \A o \in Ops : CallOK(o)

\* A call in flight whose entry was never reclaimed is numbered up to the
\* present generation, and is of the present one unless superseded.
NumberOK(o) ==
    (Flying(o) /\ o \notin orphaned) =>
        /\ op[o].gen <= gens[op[o].match]
        /\ o \in superseded <=> op[o].gen # gens[op[o].match]

NumbersOK == \A o \in Ops : NumberOK(o)

\* Of one match one such call is not superseded.
OneCurrent ==
    \A o, p \in Ops :
        (/\ Flying(o) /\ o \notin superseded \cup orphaned
         /\ Flying(p) /\ p \notin superseded \cup orphaned
         /\ op[o].match = op[p].match) => o = p

\* Where an entry was reclaimed under a call, it was under a superseded run.
OrphansOK == \A o \in orphaned : o \in Runs /\ op[o].match \in Haunted

\* A run that is not superseded owns the running entry.
OwnersOK ==
    \A o \in Runs :
        (Flying(o) /\ o \notin superseded) =>
            running[op[o].match] = op[o].gen \/ op[o].match \in Haunted

\* deepening is the set of matches with a dive in flight, one for each.
DivesOK ==
    /\ \A d \in Dives : Flying(d) => op[d].match \in deepening
    /\ \A m \in deepening : \E d \in Dives : Flying(d) /\ op[d].match = m
    /\ \A d, e \in Dives : (Flying(d) /\ Flying(e) /\ op[d].match = op[e].match) => d = e

\* An entry of generations has somebody who will reclaim it, or had one.
EntryOK ==
    \A m \in Matches : gens[m] # 0 =>
        \/ running[m] # 0
        \/ \E o \in Ops : op[o].match = m /\ (Flying(o) \/ op[o].ended = "threw")

\* A run has its slot and a dive the findings it was handed.
NamedOK ==
    /\ \A o \in Runs : op[o].pc # "new" => op[o].slot \in Slots
    /\ \A d \in Dives : op[d].pc # "new" => op[d].base \in Runs

\* The result a dive was handed stays the active one until it is superseded.
HandedOK ==
    \A d \in Dives :
        (Flying(d) /\ op[d].fresh /\ d \notin superseded) =>
            \/ /\ Active(doc[op[d].match]) # None
               /\ Active(doc[op[d].match]).owner = op[d].base
            \/ op[d].match \in Haunted

\* Dives named in a document are over; a result no dive touched is the run's own.
WrittenOK ==
    \A m \in Matches, k \in Slots :
        (doc[m] # None /\ doc[m].slots[k] # None) =>
            /\ doc[m].slots[k].by \in Dives => op[doc[m].slots[k].by].pc = "end"
            /\ doc[m].slots[k].by = None => doc[m].slots[k].findings = doc[m].slots[k].owner

Core == /\ CallsOK /\ NumbersOK /\ OneCurrent /\ OrphansOK /\ OwnersOK /\ DivesOK
        /\ EntryOK /\ RunningIsTrue /\ LatestIsDelivered /\ SupersededIsSilent

IInv == TypeOK /\ Core /\ NamedOK /\ HandedOK /\ WrittenOK /\ SlotIsOneAnalysis

----------------------------------------------------------------------------
\* What the updates of op do.

\* The other calls stay as they are, and o keeps its identity.
Kept(o) ==
    /\ op' \in [Ops -> OpRecords]
    /\ \A p \in Ops \ {o} : op'[p] = op[p]
    /\ op'[o].match = op[o].match /\ op'[o].gen = op[o].gen
    /\ op'[o].slot = op[o].slot
    /\ op'[o].base = op[o].base /\ op'[o].fresh = op[o].fresh

LEMMA EndedEffect ==
    ASSUME NEW r \in OpRecords, NEW how \in {"done", "silent", "error", "threw"}
    PROVE  [r EXCEPT !.ended = how] \in OpRecords
  BY DEF OpRecords

\* A call that leaves says how, and nothing else of any call changes.
LEMMA LeaveEffect ==
    ASSUME op \in [Ops -> OpRecords], NEW o \in Ops,
           NEW how \in {"done", "silent", "error", "threw"}, Leave(o, how)
    PROVE  Kept(o) /\ op'[o].pc = "end" /\ op'[o].ended = how
<1> DEFINE op1 == [op EXCEPT ![o].pc = "end"]
<1>1. op1 \in [Ops -> OpRecords] /\ op1[o] = [op[o] EXCEPT !.pc = "end"]
  BY DEF OpRecords
<1>2. \A p \in Ops \ {o} : op1[p] = op[p]
  OBVIOUS
<1>3. op' = [op1 EXCEPT ![o].ended = how]
  BY DEF Leave
<1> HIDE DEF op1
<1>4. op1[o] \in OpRecords /\ [op1[o] EXCEPT !.ended = how] \in OpRecords
  BY <1>1, EndedEffect
<1>5. op' = [op1 EXCEPT ![o] = [op1[o] EXCEPT !.ended = how]]
  BY <1>1, <1>3
<1>6. /\ op' \in [Ops -> OpRecords] /\ op'[o] = [op1[o] EXCEPT !.ended = how]
      /\ \A p \in Ops \ {o} : op'[p] = op1[p]
  BY <1>1, <1>4, <1>5
<1> QED
  BY <1>1, <1>2, <1>4, <1>6 DEF Kept, OpRecords

\* A call that goes on to its next await changes its place only.
LEMMA GoOnEffect ==
    ASSUME op \in [Ops -> OpRecords], NEW o \in Ops,
           NEW pc \in {"call2", "review", "repair"}, op' = [op EXCEPT ![o].pc = pc]
    PROVE  Kept(o) /\ op'[o].pc = pc /\ op'[o].ended = op[o].ended
  BY DEF Kept, OpRecords

\* The record of a dive that begins.
LEMMA DiveRecordEffect ==
    ASSUME TypeOK, NEW m \in Matches, NEW b \in Runs
    PROVE  /\ DiveRecord(m, b) \in OpRecords
           /\ DiveRecord(m, b).match = m /\ DiveRecord(m, b).gen = gens[m] + 1
           /\ DiveRecord(m, b).base = b /\ DiveRecord(m, b).ended = "no"
           /\ DiveRecord(m, b).fresh <=>
                  (Active(doc[m]) # None /\ Active(doc[m]).owner = b)
<1> DEFINE f == Active(doc[m]) # None /\ Active(doc[m]).owner = b
<1>1. f \in BOOLEAN
  OBVIOUS
<1>2. DiveRecord(m, b) = [NewOp EXCEPT !.match = m, !.gen = gens[m] + 1, !.base = b,
                                       !.fresh = f]
  BY DEF DiveRecord
<1> HIDE DEF f
<1>3. DiveRecord(m, b) = [pc |-> "new", match |-> m, gen |-> gens[m] + 1, slot |-> None,
                          base |-> b, fresh |-> f, ended |-> "no"]
  BY <1>2 DEF NewOp
<1>4. /\ DiveRecord(m, b) \in OpRecords
      /\ DiveRecord(m, b).match = m /\ DiveRecord(m, b).gen = gens[m] + 1
      /\ DiveRecord(m, b).base = b /\ DiveRecord(m, b).ended = "no"
      /\ DiveRecord(m, b).fresh = f
  <2>1. gens[m] + 1 \in Nat
    BY DEF TypeOK
  <2> QED
    BY <1>1, <1>3, <2>1 DEF OpRecords
<1> QED
  BY <1>4 DEF f

----------------------------------------------------------------------------
\* A run that clears up and leaves.

LEMMA ClearEffect ==
    ASSUME TypeOK, NEW o \in Ops, op[o].match \in Matches, ClearRunning(o)
    PROVE  /\ running' \in [Matches -> Nat]
           /\ meta' \in [Matches -> [retrying : BOOLEAN, reviewing : BOOLEAN] \cup {None}]
           /\ gens' \in [Matches -> Nat]
           /\ \A m \in Matches \ {op[o].match} :
                 running'[m] = running[m] /\ meta'[m] = meta[m] /\ gens'[m] = gens[m]
           /\ running[op[o].match] = op[o].gen =>
                 running'[op[o].match] = 0 /\ meta'[op[o].match] = None
           /\ running[op[o].match] # op[o].gen =>
                 /\ running'[op[o].match] = running[op[o].match]
                 /\ meta'[op[o].match] = meta[op[o].match]
           /\ IF running'[op[o].match] = 0 /\ op[o].match \notin deepening
              THEN gens'[op[o].match] = 0
              ELSE gens'[op[o].match] = gens[op[o].match]
<1> DEFINE m == op[o].match
           n == op[o].gen
<1>1. /\ running' = [running EXCEPT ![m] = IF @ = n THEN 0 ELSE @]
      /\ meta' = IF running[m] = n THEN [meta EXCEPT ![m] = None] ELSE meta
      /\ gens' = IF running'[m] = 0 /\ m \notin deepening THEN [gens EXCEPT ![m] = 0] ELSE gens
  BY DEF ClearRunning, Unowned, Reaped
<1>2. /\ running \in [Matches -> Nat] /\ gens \in [Matches -> Nat] /\ m \in Matches
      /\ meta \in [Matches -> [retrying : BOOLEAN, reviewing : BOOLEAN] \cup {None}]
  BY DEF TypeOK
<1> HIDE DEF m, n
<1>3. /\ running' \in [Matches -> Nat]
      /\ \A p \in Matches \ {m} : running'[p] = running[p]
      /\ running[m] = n => running'[m] = 0
      /\ running[m] # n => running'[m] = running[m]
  BY <1>1, <1>2
<1>4. /\ meta' \in [Matches -> [retrying : BOOLEAN, reviewing : BOOLEAN] \cup {None}]
      /\ \A p \in Matches \ {m} : meta'[p] = meta[p]
      /\ running[m] = n => meta'[m] = None
      /\ running[m] # n => meta'[m] = meta[m]
  BY <1>1, <1>2
<1>5. /\ gens' \in [Matches -> Nat]
      /\ \A p \in Matches \ {m} : gens'[p] = gens[p]
      /\ IF running'[m] = 0 /\ m \notin deepening THEN gens'[m] = 0 ELSE gens'[m] = gens[m]
  BY <1>1, <1>2
<1> QED
  BY <1>3, <1>4, <1>5 DEF m, n

\* The reclaim of an entry adds to orphaned what is still in flight.
LEMMA OrphansEffect ==
    ASSUME TypeOK, NEW o \in Ops, NEW m \in Matches, Orphans(o, m)
    PROVE  /\ orphaned' \subseteq Ops /\ orphaned \subseteq orphaned'
           /\ \A p \in orphaned' \ orphaned :
                 /\ p \in Ops /\ p # o /\ op[p].match = m /\ op[p].pc # "end"
                 /\ gens'[m] = 0 /\ gens[m] # 0
           /\ (gens'[m] = 0 /\ gens[m] # 0) =>
                 \A p \in Ops \ {o} : op[p].match = m /\ op[p].pc # "end" => p \in orphaned'
  BY DEF Orphans, InFlight, TypeOK

LEMMA RunLeaves ==
    ASSUME TypeOK, Core, NEW o \in Runs, Suspended(o),
           ClearRunning(o), NEW how \in {"done", "silent", "error"}, Leave(o, how),
           how = "silent" <=> ~IsCurrent(o),
           UNCHANGED <<deepening, superseded>>
    PROVE  Core'
<1> DEFINE mo == op[o].match
           no == op[o].gen
<1>0. o \in Ops /\ mo \in Matches /\ no # 0 /\ no \in Nat /\ mo # None /\ Flying(o)
  BY OpsAssumption DEF Core, CallsOK, CallOK, Suspended, Flying, TypeOK, OpRecords, Ops
<1>1. Kept(o) /\ op'[o].pc = "end" /\ op'[o].ended = how
  BY <1>0, LeaveEffect DEF TypeOK
<1>2. /\ \A m \in Matches \ {mo} :
            running'[m] = running[m] /\ meta'[m] = meta[m] /\ gens'[m] = gens[m]
      /\ running[mo] = no => running'[mo] = 0 /\ meta'[mo] = None
      /\ running[mo] # no => running'[mo] = running[mo] /\ meta'[mo] = meta[mo]
      /\ IF running'[mo] = 0 /\ mo \notin deepening THEN gens'[mo] = 0 ELSE gens'[mo] = gens[mo]
      /\ running' \in [Matches -> Nat] /\ gens' \in [Matches -> Nat]
  BY <1>0, ClearEffect
<1>3. Orphans(o, mo)
  BY DEF ClearRunning
<1>4. /\ orphaned \subseteq orphaned' /\ orphaned' \subseteq Ops
      /\ \A p \in orphaned' \ orphaned :
            /\ p \in Ops /\ p # o /\ op[p].match = mo /\ op[p].pc # "end"
            /\ gens'[mo] = 0 /\ gens[mo] # 0
      /\ (gens'[mo] = 0 /\ gens[mo] # 0) =>
            \A p \in Ops \ {o} : op[p].match = mo /\ op[p].pc # "end" => p \in orphaned'
  BY <1>0, <1>3, OrphansEffect
<1>5. superseded' = superseded /\ deepening' = deepening
  OBVIOUS
<1>6. /\ \A p \in Ops : p # o => op'[p] = op[p]
      /\ op'[o].match = mo /\ op'[o].gen = no
  BY <1>1 DEF Kept
<1>7. superseded \subseteq Ops /\ orphaned \subseteq Ops
  BY DEF TypeOK
<1> HIDE DEF mo, no
<1>8. Haunted \subseteq Haunted'
  BY <1>4, <1>5, <1>6, <1>7 DEF Haunted, mo
<1>10. CallsOK'
  <2> SUFFICES ASSUME NEW p \in Ops PROVE CallOK(p)'
    BY DEF CallsOK
  <2>1. CASE p = o
    BY <2>1, <1>0, <1>1, <1>6, OpsAssumption DEF CallOK, DivesOnly, RunsOnly
  <2>2. CASE p # o
    BY <2>2, <1>0, <1>4, <1>5, <1>6 DEF Core, CallsOK, CallOK
  <2> QED
    BY <2>1, <2>2
<1>11. NumbersOK'
  <2> SUFFICES ASSUME NEW p \in Ops, Flying(p)', p \notin orphaned'
               PROVE  /\ op'[p].gen <= gens'[op'[p].match]
                      /\ p \in superseded' <=> op'[p].gen # gens'[op'[p].match]
    BY DEF NumbersOK, NumberOK
  <2>1. p # o /\ op'[p] = op[p] /\ Flying(p) /\ p \notin orphaned
    BY <1>1, <1>4, <1>6 DEF Flying
  <2>2. gens'[op[p].match] = gens[op[p].match]
    BY <1>2, <1>4, <2>1 DEF Flying, Core, CallsOK, CallOK
  <2> QED
    BY <2>1, <2>2, <1>5 DEF Core, NumbersOK, NumberOK
<1>12. OneCurrent'
  BY <1>1, <1>4, <1>5, <1>6 DEF Core, OneCurrent, Flying
<1>13. OrphansOK'
  <2> SUFFICES ASSUME NEW p \in orphaned' PROVE p \in Runs /\ op'[p].match \in Haunted'
    BY DEF OrphansOK
  <2>1. CASE p \in orphaned
    BY <2>1, <1>6, <1>7, <1>8 DEF Core, OrphansOK, mo
  <2>2. CASE p \notin orphaned
    <3>1. /\ p \in Ops /\ p # o /\ op[p].match = mo /\ Flying(p) /\ op'[p] = op[p]
          /\ running'[mo] = 0 /\ mo \notin deepening
      BY <1>0, <1>2, <1>4, <1>6, <2>2 DEF Flying, Core, CallsOK, CallOK
    <3>2. p \in Runs
      BY <3>1 DEF Core, DivesOK, Ops
    <3>3. CASE p \in superseded
      BY <3>1, <3>2, <3>3, <1>5 DEF Haunted
    <3>4. CASE p \notin superseded
      <4>1. running[mo] = op[p].gen \/ mo \in Haunted
        BY <3>1, <3>2, <3>4 DEF Core, OwnersOK
      <4>2. ASSUME running[mo] = op[p].gen, mo \notin Haunted PROVE FALSE
        <5>1. op[p].gen = no
          BY <4>2, <3>1, <1>0, <1>2 DEF Core, CallsOK, CallOK, Flying
        <5>2. o \notin orphaned
          BY <4>2 DEF Core, OrphansOK, mo
        <5>3. op[p].gen = gens[mo] 
          BY <2>2, <3>1, <3>4 DEF Core, NumbersOK, NumberOK
        <5>4. o \notin superseded
          BY <5>1, <5>2, <5>3, <1>0 DEF Core, NumbersOK, NumberOK, mo, no
        <5> QED
          BY <5>2, <5>4, <2>2, <3>1, <3>4, <1>0 DEF Core, OneCurrent, mo
      <4> QED
        BY <3>1, <3>2, <4>1, <4>2, <1>8
    <3> QED
      BY <3>3, <3>4
  <2> QED
    BY <2>1, <2>2
<1>14. OwnersOK'
  <2> SUFFICES ASSUME NEW p \in Runs, Flying(p)', p \notin superseded'
               PROVE  running'[op'[p].match] = op'[p].gen \/ op'[p].match \in Haunted'
    BY DEF OwnersOK
  <2>1. p # o /\ p \in Ops /\ op'[p] = op[p] /\ Flying(p) /\ p \notin superseded
    BY <1>1, <1>5, <1>6 DEF Flying, Ops
  <2>2. running[op[p].match] = op[p].gen \/ op[p].match \in Haunted
    BY <2>1 DEF Core, OwnersOK
  <2>3. CASE op[p].match \in Haunted
    BY <2>1, <2>3, <1>8
  <2>4. CASE op[p].match # mo /\ running[op[p].match] = op[p].gen
    BY <2>1, <2>4, <1>2 DEF Core, CallsOK, CallOK, Flying
  <2>5. CASE op[p].match = mo /\ running[mo] = op[p].gen /\ mo \notin Haunted
    <3>1. CASE op[p].gen # no
      BY <3>1, <2>1, <2>5, <1>2
    <3>2. CASE op[p].gen = no
      <4>1. o \notin orphaned /\ p \notin orphaned
        BY <2>5 DEF Core, OrphansOK, mo
      <4>2. o \notin superseded
        BY <4>1, <3>2, <2>1, <2>5, <1>0 DEF Core, NumbersOK, NumberOK, mo, no
      <4> QED
        BY <4>1, <4>2, <2>1, <2>5, <1>0 DEF Core, OneCurrent, mo
    <3> QED
      BY <3>1, <3>2
  <2> QED
    BY <2>2, <2>3, <2>4, <2>5
<1>15. DivesOK'
  <2>1. \A d \in Dives : d # o /\ d \in Ops
    BY OpsAssumption DEF Ops
  <2> QED
    BY <2>1, <1>5, <1>6 DEF Core, DivesOK, Flying
<1>16. EntryOK'
  <2> SUFFICES ASSUME NEW m \in Matches, gens'[m] # 0
               PROVE  \/ running'[m] # 0
                      \/ \E p \in Ops : op'[p].match = m
                                        /\ (Flying(p)' \/ op'[p].ended = "threw")
    BY DEF EntryOK
  <2>1. CASE m = mo
    <3>1. running'[m] # 0 \/ \E d \in Dives : Flying(d) /\ op[d].match = m
      BY <2>1, <1>2 DEF Core, DivesOK
    <3>2. \A d \in Dives : d # o /\ d \in Ops /\ op'[d] = op[d]
      BY <1>6, OpsAssumption DEF Ops
    <3> QED
      BY <3>1, <3>2 DEF Flying
  <2>2. CASE m # mo
    <3>1. \/ running[m] # 0
          \/ \E p \in Ops : op[p].match = m /\ (Flying(p) \/ op[p].ended = "threw")
      BY <2>2, <1>2 DEF Core, EntryOK
    <3> QED
      BY <3>1, <2>2, <1>2, <1>6 DEF Flying, mo
  <2> QED
    BY <2>1, <2>2
<1>17. RunningIsTrue'
  <2> SUFFICES ASSUME NEW m \in Matches
               PROVE  /\ running'[m] = 0 <=> meta'[m] = None
                      /\ running'[m] # 0 =>
                           \E p \in Runs :
                              /\ op'[p].match = m /\ op'[p].gen = running'[m]
                              /\ \/ op'[p].ended = "threw"
                                 \/ /\ op'[p].pc \in {"call1", "call2", "review"}
                                    /\ op'[p].pc = "call2" => meta'[m].retrying
                                    /\ meta'[m].reviewing <=> op'[p].pc = "review"
    BY DEF RunningIsTrue
  <2>1. CASE m = mo /\ running[mo] = no
    BY <2>1, <1>2
  <2>2. CASE ~(m = mo /\ running[mo] = no)
    <3>1. running'[m] = running[m] /\ meta'[m] = meta[m]
      BY <2>2, <1>2
    <3>2. \A p \in Runs : (op[p].match = m /\ op[p].gen = running[m]) => op'[p] = op[p]
      BY <2>2, <1>6 DEF Ops, mo, no
    <3> QED
      BY <3>1, <3>2 DEF Core, RunningIsTrue
  <2> QED
    BY <2>1, <2>2
<1>18. LatestIsDelivered'
  <2> SUFFICES ASSUME NEW p \in Ops, op'[p].ended \in {"silent", "threw"}
               PROVE  p \in superseded' \/ op'[p].match \in Haunted'
    BY DEF LatestIsDelivered, Haunted
  <2>1. CASE p = o
    <3>1. how = "silent" /\ gens[mo] # no
      BY <2>1, <1>1 DEF IsCurrent, mo, no
    <3>2. o \in orphaned \/ o \in superseded
      BY <3>1, <1>0 DEF Core, NumbersOK, NumberOK, mo, no
    <3> QED
      BY <2>1, <3>2, <1>5, <1>6, <1>8 DEF Core, OrphansOK, mo
  <2>2. CASE p # o
    BY <2>2, <1>5, <1>6, <1>8 DEF Core, LatestIsDelivered, Haunted
  <2> QED
    BY <2>1, <2>2
<1>19. SupersededIsSilent'
  <2> SUFFICES ASSUME NEW p \in Ops, p \in superseded', p \notin orphaned'
               PROVE  op'[p].ended \notin {"done", "error"}
    BY <1>5, <1>7 DEF SupersededIsSilent
  <2>1. CASE p = o
    <3>1. no # gens[mo]
      BY <2>1, <1>0, <1>4, <1>5 DEF Core, NumbersOK, NumberOK, mo, no
    <3> QED
      BY <2>1, <3>1, <1>1 DEF IsCurrent, mo, no
  <2>2. CASE p # o
    BY <2>2, <1>4, <1>5, <1>6 DEF Core, SupersededIsSilent
  <2> QED
    BY <2>1, <2>2
<1> QED
  BY <1>10, <1>11, <1>12, <1>13, <1>14, <1>15, <1>16, <1>17, <1>18, <1>19 DEF Core

----------------------------------------------------------------------------
\* A dive that surfaces.

LEMMA DiveLeaves ==
    ASSUME TypeOK, Core, NEW o \in Dives, op[o].pc \in {"dive", "repair"},
           Surface(o, op[o].match), NEW how \in {"done", "silent"}, Leave(o, how),
           how = "silent" <=> ~IsCurrent(o),
           UNCHANGED <<running, meta, superseded>>
    PROVE  Core'
<1> DEFINE mo == op[o].match
           no == op[o].gen
<1>0. /\ o \in Ops /\ mo \in Matches /\ no # 0 /\ no \in Nat /\ mo # None /\ Flying(o)
      /\ o \notin Runs /\ o \notin orphaned
  BY OpsAssumption DEF Core, CallsOK, CallOK, OrphansOK, Flying, TypeOK, OpRecords, Ops
<1>1. Kept(o) /\ op'[o].pc = "end" /\ op'[o].ended = how
  BY <1>0, LeaveEffect DEF TypeOK
<1>2. /\ deepening' = deepening \ {mo}
      /\ gens' = IF running[mo] = 0 THEN [gens EXCEPT ![mo] = 0] ELSE gens
      /\ Orphans(o, mo)
  BY DEF Surface, Reaped
<1>3. /\ \A m \in Matches \ {mo} : gens'[m] = gens[m]
      /\ IF running[mo] = 0 THEN gens'[mo] = 0 ELSE gens'[mo] = gens[mo]
  BY <1>0, <1>2 DEF TypeOK
<1>4. /\ orphaned \subseteq orphaned' /\ orphaned' \subseteq Ops
      /\ \A p \in orphaned' \ orphaned :
            /\ p \in Ops /\ p # o /\ op[p].match = mo /\ op[p].pc # "end"
            /\ gens'[mo] = 0 /\ gens[mo] # 0
      /\ (gens'[mo] = 0 /\ gens[mo] # 0) =>
            \A p \in Ops \ {o} : op[p].match = mo /\ op[p].pc # "end" => p \in orphaned'
  BY <1>0, <1>2, OrphansEffect
<1>5. superseded' = superseded /\ running' = running /\ meta' = meta
  OBVIOUS
<1>6. /\ \A p \in Ops : p # o => op'[p] = op[p]
      /\ op'[o].match = mo /\ op'[o].gen = no
  BY <1>1 DEF Kept
<1>7. superseded \subseteq Ops /\ orphaned \subseteq Ops
  BY DEF TypeOK
<1> HIDE DEF mo, no
<1>8. Haunted \subseteq Haunted'
  BY <1>4, <1>5, <1>6, <1>7 DEF Haunted, mo
<1>10. CallsOK'
  <2> SUFFICES ASSUME NEW p \in Ops PROVE CallOK(p)'
    BY DEF CallsOK
  <2>1. CASE p = o
    BY <2>1, <1>0, <1>1, <1>6 DEF CallOK, DivesOnly, RunsOnly
  <2>2. CASE p # o
    BY <2>2, <1>0, <1>4, <1>5, <1>6 DEF Core, CallsOK, CallOK
  <2> QED
    BY <2>1, <2>2
<1>11. NumbersOK'
  <2> SUFFICES ASSUME NEW p \in Ops, Flying(p)', p \notin orphaned'
               PROVE  /\ op'[p].gen <= gens'[op'[p].match]
                      /\ p \in superseded' <=> op'[p].gen # gens'[op'[p].match]
    BY DEF NumbersOK, NumberOK
  <2>1. p # o /\ op'[p] = op[p] /\ Flying(p) /\ p \notin orphaned
    BY <1>1, <1>4, <1>6 DEF Flying
  <2>2. gens'[op[p].match] = gens[op[p].match]
    BY <1>3, <1>4, <2>1 DEF Flying, Core, CallsOK, CallOK
  <2> QED
    BY <2>1, <2>2, <1>5 DEF Core, NumbersOK, NumberOK
<1>12. OneCurrent'
  BY <1>1, <1>4, <1>5, <1>6 DEF Core, OneCurrent, Flying
<1>13. OrphansOK'
  <2> SUFFICES ASSUME NEW p \in orphaned' PROVE p \in Runs /\ op'[p].match \in Haunted'
    BY DEF OrphansOK
  <2>1. CASE p \in orphaned
    BY <2>1, <1>6, <1>7, <1>8 DEF Core, OrphansOK, mo
  <2>2. CASE p \notin orphaned
    <3>1. /\ p \in Ops /\ p # o /\ op[p].match = mo /\ Flying(p) /\ op'[p] = op[p]
          /\ running[mo] = 0
      BY <1>0, <1>3, <1>4, <1>6, <2>2 DEF Flying, Core, CallsOK, CallOK
    <3>2. p \in Runs
      BY <3>1, <1>0 DEF Core, DivesOK, Ops, mo
    <3>3. CASE p \in superseded
      BY <3>1, <3>2, <3>3, <1>5 DEF Haunted
    <3>4. CASE p \notin superseded
      BY <3>1, <3>2, <3>4, <1>8 DEF Core, OwnersOK, CallsOK, CallOK, Flying
    <3> QED
      BY <3>3, <3>4
  <2> QED
    BY <2>1, <2>2
<1>14. OwnersOK'
  BY <1>0, <1>5, <1>6, <1>8 DEF Core, OwnersOK, Flying, Ops
<1>15. DivesOK'
  BY <1>0, <1>1, <1>2, <1>6 DEF Core, DivesOK, Flying, Ops, mo
<1>16. EntryOK'
  <2> SUFFICES ASSUME NEW m \in Matches, gens'[m] # 0, running[m] = 0
               PROVE  \E p \in Ops : op'[p].match = m
                                     /\ (Flying(p)' \/ op'[p].ended = "threw")
    BY <1>5 DEF EntryOK
  <2>1. m # mo /\ gens[m] # 0
    BY <1>3
  <2>2. PICK p \in Ops : op[p].match = m /\ (Flying(p) \/ op[p].ended = "threw")
    BY <2>1 DEF Core, EntryOK
  <2> QED
    BY <2>1, <2>2, <1>6 DEF Flying, mo
<1>17. RunningIsTrue'
  <2>1. \A p \in Runs : op'[p] = op[p]
    BY <1>0, <1>6 DEF Ops
  <2> QED
    BY <2>1, <1>5 DEF Core, RunningIsTrue
<1>18. LatestIsDelivered'
  <2> SUFFICES ASSUME NEW p \in Ops, op'[p].ended \in {"silent", "threw"}
               PROVE  p \in superseded' \/ op'[p].match \in Haunted'
    BY DEF LatestIsDelivered, Haunted
  <2>1. CASE p = o
    <3>1. gens[mo] # no
      BY <2>1, <1>1 DEF IsCurrent, mo, no
    <3> QED
      BY <2>1, <3>1, <1>0, <1>5 DEF Core, NumbersOK, NumberOK, mo, no
  <2>2. CASE p # o
    BY <2>2, <1>5, <1>6, <1>8 DEF Core, LatestIsDelivered, Haunted
  <2> QED
    BY <2>1, <2>2
<1>19. SupersededIsSilent'
  <2> SUFFICES ASSUME NEW p \in Ops, p \in superseded', p \notin orphaned'
               PROVE  op'[p].ended \notin {"done", "error"}
    BY <1>5, <1>7 DEF SupersededIsSilent
  <2>1. CASE p = o
    <3>1. no # gens[mo]
      BY <2>1, <1>0, <1>4, <1>5 DEF Core, NumbersOK, NumberOK, mo, no
    <3> QED
      BY <2>1, <3>1, <1>1 DEF IsCurrent, mo, no
  <2>2. CASE p # o
    BY <2>2, <1>4, <1>5, <1>6 DEF Core, SupersededIsSilent
  <2> QED
    BY <2>1, <2>2
<1> QED
  BY <1>10, <1>11, <1>12, <1>13, <1>14, <1>15, <1>16, <1>17, <1>18, <1>19 DEF Core

----------------------------------------------------------------------------
\* A call that goes on to its next await.

\* Everything but the metadata, for runs and dives alike.
LEMMA GoesOn ==
    ASSUME TypeOK, Core, NEW o \in Ops, Flying(o), Kept(o),
           op'[o].pc \in RunsOnly \cup DivesOnly, op'[o].ended = op[o].ended,
           o \in Runs => op'[o].pc \notin DivesOnly,
           o \in Dives => op'[o].pc \notin RunsOnly,
           UNCHANGED <<gens, running, deepening, superseded, orphaned>>
    PROVE  /\ CallsOK' /\ NumbersOK' /\ OneCurrent' /\ OrphansOK' /\ OwnersOK' /\ DivesOK'
           /\ EntryOK' /\ LatestIsDelivered' /\ SupersededIsSilent'
<1>1. \A p \in Ops : /\ op'[p].match = op[p].match /\ op'[p].gen = op[p].gen
                     /\ op'[p].ended = op[p].ended
                     /\ Flying(p)' <=> Flying(p)
                     /\ p # o => op'[p] = op[p]
  BY DEF Kept, Flying, RunsOnly, DivesOnly
<1>2. superseded \subseteq Ops /\ orphaned \subseteq Ops
  BY DEF TypeOK
<1>3. Haunted \subseteq Haunted'
  BY <1>1, <1>2 DEF Haunted
<1>4. CallsOK'
  <2> SUFFICES ASSUME NEW p \in Ops PROVE CallOK(p)'
    BY DEF CallsOK
  <2>1. CASE p = o
    BY <2>1, <1>1 DEF CallOK, Core, CallsOK, RunsOnly, DivesOnly, Flying
  <2>2. CASE p # o
    BY <2>2, <1>1 DEF CallOK, Core, CallsOK
  <2> QED
    BY <2>1, <2>2
<1>5. NumbersOK' /\ OneCurrent'
  BY <1>1 DEF Core, NumbersOK, NumberOK, OneCurrent
<1>6. OrphansOK' /\ OwnersOK'
  BY <1>1, <1>2, <1>3 DEF Core, OrphansOK, OwnersOK, Ops
<1>7. DivesOK' /\ EntryOK'
  BY <1>1 DEF Core, DivesOK, EntryOK, Ops
<1>8. LatestIsDelivered' /\ SupersededIsSilent'
  <2>1. LatestIsDelivered'
    BY <1>1, <1>2 DEF Core, LatestIsDelivered
  <2>2. SupersededIsSilent'
    BY <1>1, <1>2 DEF Core, SupersededIsSilent
  <2> QED
    BY <2>1, <2>2
<1> QED
  BY <1>4, <1>5, <1>6, <1>7, <1>8

LEMMA DiveRepairs ==
    ASSUME TypeOK, Core, NEW o \in Dives, DiveRepair(o)
    PROVE  Core' /\ Kept(o) /\ op'[o].pc = "repair" /\ op'[o].ended = op[o].ended
<1>1. o \in Ops /\ o \notin Runs
  BY OpsAssumption DEF Ops
<1>2. Kept(o) /\ op'[o].pc = "repair" /\ op'[o].ended = op[o].ended
  BY <1>1, GoOnEffect DEF TypeOK, DiveRepair
<1>3. /\ CallsOK' /\ NumbersOK' /\ OneCurrent' /\ OrphansOK' /\ OwnersOK' /\ DivesOK'
      /\ EntryOK' /\ LatestIsDelivered' /\ SupersededIsSilent'
  <2>1. Flying(o) /\ UNCHANGED <<gens, running, deepening, superseded, orphaned>>
    BY DEF DiveRepair, Flying
  <2> QED
    BY <1>1, <1>2, <2>1, GoesOn DEF RunsOnly, DivesOnly
<1>4. \A p \in Runs : op'[p] = op[p]
  BY <1>1, <1>2 DEF Kept, Ops
<1>5. RunningIsTrue'
  BY <1>4 DEF Core, RunningIsTrue, DiveRepair
<1> QED
  BY <1>2, <1>3, <1>5 DEF Core

LEMMA FlagEffect ==
    ASSUME TypeOK, NEW o \in Ops, op[o].match \in Matches,
           NEW f \in {"retrying", "reviewing"}, Flag(o, f)
    PROVE  /\ meta' \in [Matches -> [retrying : BOOLEAN, reviewing : BOOLEAN] \cup {None}]
           /\ \A m \in Matches \ {op[o].match} : meta'[m] = meta[m]
           /\ meta[op[o].match] = None => meta'[op[o].match] = None
           /\ running[op[o].match] # op[o].gen => meta'[op[o].match] = meta[op[o].match]
           /\ (running[op[o].match] = op[o].gen /\ meta[op[o].match] # None) =>
                 /\ meta'[op[o].match] # None
                 /\ meta'[op[o].match][f]
                 /\ \A g \in {"retrying", "reviewing"} \ {f} :
                       meta'[op[o].match][g] = meta[op[o].match][g]
<1> DEFINE mo == op[o].match
           MetaRecords == [retrying : BOOLEAN, reviewing : BOOLEAN]
<1>1. mo \in Matches /\ meta \in [Matches -> MetaRecords \cup {None}]
  BY DEF TypeOK
<1>2. CASE running[mo] = op[o].gen /\ meta[mo] # None
  <2> DEFINE new == [meta[mo] EXCEPT ![f] = TRUE]
  <2>1. meta[mo] \in MetaRecords
    BY <1>1, <1>2
  <2>2. /\ new \in MetaRecords /\ new[f] = TRUE
        /\ \A g \in {"retrying", "reviewing"} \ {f} : new[g] = meta[mo][g]
    <3>1. CASE f = "retrying"
      BY <2>1, <3>1
    <3>2. CASE f = "reviewing"
      BY <2>1, <3>2
    <3> QED
      BY <3>1, <3>2
  <2>3. new # None
    BY <2>2, NoneAssumption
  <2>4. meta' = [meta EXCEPT ![mo] = new]
    BY <1>2 DEF Flag
  <2> HIDE DEF new, mo, MetaRecords
  <2>5. /\ meta' \in [Matches -> MetaRecords \cup {None}]
        /\ \A m \in Matches \ {mo} : meta'[m] = meta[m]
        /\ meta'[mo] = new
    BY <1>1, <2>2, <2>4
  <2> QED
    BY <1>2, <2>2, <2>3, <2>5 DEF mo, MetaRecords
<1>3. CASE ~(running[mo] = op[o].gen /\ meta[mo] # None)
  <2>1. meta' = meta
    BY <1>3 DEF Flag
  <2> QED
    BY <1>1, <1>3, <2>1
<1> QED
  BY <1>2, <1>3

\* A run whose first reply does not parse, or that asks for a review: the
\* metadata says where it is, for every run of the running entry's number.
LEMMA RunGoesOn ==
    ASSUME TypeOK, Core, NEW o \in Runs, RunRetry(o) \/ RunReview(o)
    PROVE  /\ Core'
           /\ meta' \in [Matches -> [retrying : BOOLEAN, reviewing : BOOLEAN] \cup {None}]
           /\ Kept(o) /\ Flying(o)
           /\ op'[o].pc \in {"call2", "review"} /\ op'[o].ended = op[o].ended
<1>1. PICK pc \in {"call2", "review"}, f \in {"retrying", "reviewing"} :
         /\ op' = [op EXCEPT ![o].pc = pc] /\ Flag(o, f)
         /\ pc = "call2" <=> f = "retrying"
         /\ op[o].pc \in {"call1", "call2"}
         /\ pc = "call2" => op[o].pc = "call1"
         /\ UNCHANGED <<gens, running, deepening, doc, superseded, orphaned>>
  BY DEF RunRetry, RunReview
<1>2. /\ o \in Ops /\ o \notin Dives /\ Flying(o)
      /\ op[o].match \in Matches /\ op[o].match # None
  BY <1>1, OpsAssumption DEF Ops, Flying, Core, CallsOK, CallOK
<1>3. Kept(o) /\ op'[o].pc = pc /\ op'[o].ended = op[o].ended
  BY <1>1, <1>2, GoOnEffect DEF TypeOK
<1>4. /\ CallsOK' /\ NumbersOK' /\ OneCurrent' /\ OrphansOK' /\ OwnersOK' /\ DivesOK'
      /\ EntryOK' /\ LatestIsDelivered' /\ SupersededIsSilent'
  BY <1>1, <1>2, <1>3, GoesOn DEF RunsOnly, DivesOnly
<1> DEFINE mo == op[o].match
<1>5. /\ meta' \in [Matches -> [retrying : BOOLEAN, reviewing : BOOLEAN] \cup {None}]
      /\ \A m \in Matches \ {mo} : meta'[m] = meta[m]
      /\ meta[mo] = None => meta'[mo] = None
      /\ running[mo] # op[o].gen => meta'[mo] = meta[mo]
      /\ (running[mo] = op[o].gen /\ meta[mo] # None) =>
            /\ meta'[mo] # None
            /\ meta'[mo][f]
            /\ \A g \in {"retrying", "reviewing"} \ {f} : meta'[mo][g] = meta[mo][g]
  BY <1>1, <1>2, FlagEffect
<1>6. /\ \A p \in Runs : p # o => op'[p] = op[p]
      /\ op'[o].match = mo /\ op'[o].gen = op[o].gen /\ op'[o].pc = pc
      /\ op'[o].ended = op[o].ended /\ op[o].ended = "no"
  BY <1>1, <1>2, <1>3 DEF Kept, Ops, Core, CallsOK, CallOK
<1>7. mo \in Matches /\ running' = running
  BY <1>1, <1>2
<1> HIDE DEF mo
<1>8. RunningIsTrue'
  <2> SUFFICES ASSUME NEW m \in Matches
               PROVE  /\ running'[m] = 0 <=> meta'[m] = None
                      /\ running'[m] # 0 =>
                           \E p \in Runs :
                              /\ op'[p].match = m /\ op'[p].gen = running'[m]
                              /\ \/ op'[p].ended = "threw"
                                 \/ /\ op'[p].pc \in {"call1", "call2", "review"}
                                    /\ op'[p].pc = "call2" => meta'[m].retrying
                                    /\ meta'[m].reviewing <=> op'[p].pc = "review"
    BY DEF RunningIsTrue
  <2>1. CASE ~(m = mo /\ running[mo] = op[o].gen /\ meta[mo] # None)
    <3>1. meta'[m] = meta[m]
      BY <2>1, <1>5
    <3>2. \A p \in Runs : (op[p].match = m /\ op[p].gen = running[m] /\ running[m] # 0)
                             => op'[p] = op[p]
      BY <2>1, <1>6 DEF mo, Core, RunningIsTrue
    <3> QED
      BY <3>1, <3>2, <1>7 DEF Core, RunningIsTrue
  <2>2. CASE m = mo /\ running[mo] = op[o].gen /\ meta[mo] # None
    <3>1. running'[m] # 0 /\ meta'[m] # None
      BY <2>2, <1>5, <1>7 DEF Core, RunningIsTrue
    <3>2. CASE pc = "review"
      BY <3>1, <3>2, <2>2, <1>1, <1>5, <1>6, <1>7
    <3>3. CASE pc = "call2"
      <4>1. PICK p \in Runs :
               /\ op[p].match = m /\ op[p].gen = running[m]
               /\ \/ op[p].ended = "threw"
                  \/ /\ op[p].pc \in {"call1", "call2", "review"}
                     /\ op[p].pc = "call2" => meta[m].retrying
                     /\ meta[m].reviewing <=> op[p].pc = "review"
        BY <3>1, <1>7 DEF Core, RunningIsTrue
      <4>2. meta'[m].retrying /\ meta'[m].reviewing = meta[m].reviewing
        BY <3>3, <2>2, <1>1, <1>5
      <4>3. CASE p = o
        BY <4>1, <4>2, <4>3, <3>1, <3>3, <1>1, <1>6, <1>7
      <4>4. CASE p # o
        BY <4>1, <4>2, <4>4, <3>1, <1>6, <1>7
      <4> QED
        BY <4>3, <4>4
    <3> QED
      BY <3>2, <3>3
  <2> QED
    BY <2>1, <2>2
<1> QED
  BY <1>1, <1>2, <1>3, <1>4, <1>5, <1>8 DEF Core

\* A superseded run whose call throws leaves everything as it is.
LEMMA RunThrowsStale ==
    ASSUME TypeOK, Core, NEW o \in Runs, Suspended(o), ~IsCurrent(o), Leave(o, "threw"),
           UNCHANGED <<gens, running, meta, deepening, superseded, orphaned>>
    PROVE  Core'
<1>0. /\ o \in Ops /\ o \notin Dives /\ Flying(o) /\ op[o].match \in Matches
      /\ op[o].gen # 0 /\ op[o].match # None
  BY OpsAssumption DEF Ops, Suspended, Flying, Core, CallsOK, CallOK
<1>1. Kept(o) /\ op'[o].pc = "end" /\ op'[o].ended = "threw"
  BY <1>0, LeaveEffect DEF TypeOK
<1>2. \A p \in Ops : /\ op'[p].match = op[p].match /\ op'[p].gen = op[p].gen
                     /\ Flying(p)' => Flying(p) /\ p # o
                     /\ p # o => op'[p] = op[p]
  BY <1>1 DEF Kept, Flying
<1>3. superseded \subseteq Ops /\ orphaned \subseteq Ops
  BY DEF TypeOK
<1>4. Haunted \subseteq Haunted'
  BY <1>2, <1>3 DEF Haunted
<1>5. CallsOK'
  <2> SUFFICES ASSUME NEW p \in Ops PROVE CallOK(p)'
    BY DEF CallsOK
  <2>1. CASE p = o
    BY <2>1, <1>0, <1>1, <1>2 DEF CallOK, RunsOnly, DivesOnly
  <2>2. CASE p # o
    BY <2>2, <1>2 DEF CallOK, Core, CallsOK
  <2> QED
    BY <2>1, <2>2
<1>6. NumbersOK' /\ OneCurrent'
  <2>1. NumbersOK'
    BY <1>2 DEF Core, NumbersOK, NumberOK
  <2>2. OneCurrent'
    BY <1>2 DEF Core, OneCurrent
  <2> QED
    BY <2>1, <2>2
<1>7. OrphansOK' /\ OwnersOK'
  BY <1>2, <1>3, <1>4 DEF Core, OrphansOK, OwnersOK, Ops
<1>8. DivesOK'
  BY <1>0, <1>2 DEF Core, DivesOK, Flying, Ops
<1>9. EntryOK'
  BY <1>0, <1>1, <1>2 DEF Core, EntryOK, Flying
<1>10. RunningIsTrue'
  BY <1>0, <1>1, <1>2 DEF Core, RunningIsTrue, Ops
<1>11. LatestIsDelivered'
  <2>1. o \in superseded \/ op[o].match \in Haunted
    BY <1>0 DEF Core, NumbersOK, NumberOK, OrphansOK, IsCurrent
  <2> QED
    BY <2>1, <1>2, <1>3 DEF Core, LatestIsDelivered, Haunted
<1>12. SupersededIsSilent'
  BY <1>1, <1>2, <1>3 DEF Core, SupersededIsSilent
<1> QED
  BY <1>5, <1>6, <1>7, <1>8, <1>9, <1>10, <1>11, <1>12 DEF Core

----------------------------------------------------------------------------
\* A call that begins: it supersedes what is in flight, and the entry of its
\* match is reclaimed in the same step if the call is over and nobody holds it.

\* Where the call is after its first step.
Begun(o, m) ==
    /\ op' \in [Ops -> OpRecords]
    /\ \A p \in Ops \ {o} : op'[p] = op[p]
    /\ op'[o].match = m /\ op'[o].gen = gens[m] + 1
    /\ \/ op'[o].pc \in {"call1", "dive"} /\ op'[o].ended = "no"
       \/ op'[o].pc = "end" /\ op'[o].ended = "done"
    /\ o \in Runs => op'[o].pc # "dive"
    /\ o \in Dives => op'[o].pc # "call1"

LEMMA Begins ==
    ASSUME TypeOK, Core, NEW o \in Ops, NEW m \in Matches, op[o].pc = "new", Begun(o, m),
           \A p \in Matches \ {m} :
              running'[p] = running[p] /\ meta'[p] = meta[p] /\ gens'[p] = gens[p],
           gens'[m] = IF running'[m] = 0 /\ m \notin deepening' THEN 0 ELSE gens[m] + 1,
           Orphans(o, m), superseded' = superseded \cup InFlight(m),
           o \in Dives =>
              /\ m \notin deepening /\ running' = running /\ meta' = meta
              /\ deepening' = IF op'[o].pc = "dive" THEN deepening \cup {m} ELSE deepening,
           o \in Runs =>
              /\ deepening' = deepening
              /\ op'[o].pc = "call1" => /\ running'[m] = gens[m] + 1 /\ meta'[m] # None
                                        /\ meta'[m].reviewing = FALSE
              /\ op'[o].pc = "end" => running'[m] = 0 /\ meta'[m] = None
    PROVE  Core'
<1> DEFINE g == gens[m] + 1
<1>0. /\ op[o].match = None /\ m # None /\ o \notin superseded /\ o \notin orphaned
      /\ gens[m] \in Nat /\ g # 0 /\ g \in Nat /\ gens[m] < g
      /\ superseded \subseteq Ops /\ orphaned \subseteq Ops
      /\ (o \in Runs /\ o \notin Dives) \/ (o \in Dives /\ o \notin Runs)
      /\ \A p \in Ops : op[p].gen \in Nat
  BY OpsAssumption DEF Core, CallsOK, CallOK, TypeOK, Ops, OpRecords
<1>1. /\ \A p \in Ops : p # o => op'[p] = op[p]
      /\ op'[o].match = m /\ op'[o].gen = g
      /\ \/ op'[o].pc \in {"call1", "dive"} /\ op'[o].ended = "no"
         \/ op'[o].pc = "end" /\ op'[o].ended = "done"
      /\ o \in Runs => op'[o].pc # "dive"
      /\ o \in Dives => op'[o].pc # "call1"
  BY DEF Begun
<1>2. /\ orphaned \subseteq orphaned' /\ orphaned' \subseteq Ops
      /\ \A p \in orphaned' \ orphaned :
            /\ p \in Ops /\ p # o /\ op[p].match = m /\ op[p].pc # "end"
            /\ gens'[m] = 0 /\ gens[m] # 0
      /\ (gens'[m] = 0 /\ gens[m] # 0) =>
            \A p \in Ops \ {o} : op[p].match = m /\ op[p].pc # "end" => p \in orphaned'
  BY OrphansEffect
<1>3. \A p \in Ops : p \in superseded' <=>
            p \in superseded \/ (op[p].match = m /\ op[p].pc # "end")
  BY DEF InFlight
<1>4. superseded \subseteq superseded' /\ superseded' \subseteq Ops /\ o \notin superseded'
  BY <1>0, <1>3 DEF InFlight
<1>5. gens'[m] = 0 \/ gens'[m] = g
  OBVIOUS
<1> HIDE DEF g
<1>6. Haunted \subseteq Haunted'
  BY <1>0, <1>1, <1>2, <1>4 DEF Haunted
\* Whoever else of m is in flight is superseded.
<1>7. \A p \in Ops : (Flying(p)' /\ p # o /\ op'[p].match = m) =>
         Flying(p) /\ op[p].match = m /\ p \in superseded'
  BY <1>1, <1>3 DEF Flying
<1>8. \A p \in Ops : op[p].pc # "new" => op[p].match \in Matches /\ op[p].gen # 0 /\ p # o
  BY DEF Core, CallsOK, CallOK
<1>10. CallsOK'
  <2> SUFFICES ASSUME NEW p \in Ops PROVE CallOK(p)'
    BY DEF CallsOK
  <2>1. CASE p = o
    <3>1. op'[o].pc # "new" /\ op'[o].match \in Matches /\ op'[o].gen # 0
      BY <1>0, <1>1
    <3>2. op'[o].ended = "no" <=> op'[o].pc # "end"
      BY <1>1
    <3>3. op'[o].ended # "threw" /\ o \in Runs => op'[o].pc \notin DivesOnly
      BY <1>1 DEF DivesOnly
    <3>4. o \in Dives => op'[o].pc \notin RunsOnly /\ op'[o].ended # "threw"
      BY <1>1 DEF RunsOnly
    <3>5. o \in Runs => op'[o].pc \notin DivesOnly
      BY <1>1 DEF DivesOnly
    <3> QED
      BY <2>1, <3>1, <3>2, <3>4, <3>5 DEF CallOK
  <2>2. CASE p # o
    <3>1. op[p].pc = "new" => p \notin superseded' /\ p \notin orphaned'
      BY <1>0, <1>2, <1>3 DEF Core, CallsOK, CallOK
    <3> QED
      BY <2>2, <3>1, <1>1 DEF Core, CallsOK, CallOK
  <2> QED
    BY <2>1, <2>2
<1>11. NumbersOK'
  <2> SUFFICES ASSUME NEW p \in Ops, Flying(p)', p \notin orphaned'
               PROVE  /\ op'[p].gen <= gens'[op'[p].match]
                      /\ p \in superseded' <=> op'[p].gen # gens'[op'[p].match]
    BY DEF NumbersOK, NumberOK
  <2>1. CASE p = o
    <3>1. op'[o].pc \in {"call1", "dive"}
      BY <2>1, <1>1 DEF Flying
    <3>2. gens'[m] = g
      <4>1. CASE o \in Runs
        BY <4>1, <3>1, <1>0, <1>1 DEF g
      <4>2. CASE o \in Dives
        BY <4>2, <3>1, <1>1 DEF g
      <4> QED
        BY <4>1, <4>2, <1>0
    <3> QED
      BY <2>1, <3>2, <1>0, <1>1, <1>4
  <2>2. CASE p # o /\ op[p].match = m
    <3>1. Flying(p) /\ op'[p] = op[p] /\ p \in superseded' /\ p \notin orphaned /\ op[p].pc # "end"
      BY <2>2, <1>1, <1>2, <1>3 DEF Flying
    <3>2. op[p].gen <= gens[m] /\ op[p].gen # 0 /\ op[p].gen \in Nat
      BY <2>2, <3>1, <1>0, <1>8 DEF Core, NumbersOK, NumberOK, Flying
    <3>3. gens'[m] = g
      BY <2>2, <3>1, <3>2, <1>0, <1>2, <1>5
    <3> QED
      BY <2>2, <3>1, <3>2, <3>3, <1>0
  <2>3. CASE p # o /\ op[p].match # m
    <3>1. Flying(p) /\ op'[p] = op[p] /\ p \notin orphaned /\ (p \in superseded' <=> p \in superseded)
      BY <2>3, <1>1, <1>2, <1>3 DEF Flying
    <3>2. gens'[op[p].match] = gens[op[p].match]
      BY <2>3, <3>1, <1>8 DEF Flying
    <3> QED
      BY <3>1, <3>2 DEF Core, NumbersOK, NumberOK
  <2> QED
    BY <2>1, <2>2, <2>3
<1>12. OneCurrent'
  <2> SUFFICES ASSUME NEW p \in Ops, NEW q \in Ops,
                      Flying(p)', p \notin superseded' \cup orphaned',
                      Flying(q)', q \notin superseded' \cup orphaned',
                      op'[p].match = op'[q].match
               PROVE  p = q
    BY DEF OneCurrent
  <2>1. CASE op'[p].match = m
    BY <2>1, <1>7
  <2>2. CASE op'[p].match # m
    BY <2>2, <1>1, <1>2, <1>4 DEF Core, OneCurrent, Flying
  <2> QED
    BY <2>1, <2>2
<1>13. OrphansOK'
  <2> SUFFICES ASSUME NEW p \in orphaned' PROVE p \in Runs /\ op'[p].match \in Haunted'
    BY DEF OrphansOK
  <2>1. CASE p \in orphaned
    BY <2>1, <1>0, <1>1, <1>6 DEF Core, OrphansOK
  <2>2. CASE p \notin orphaned
    <3>1. p \in Ops /\ p # o /\ op[p].match = m /\ op[p].pc # "end" /\ gens'[m] = 0 /\ op'[p] = op[p]
      BY <2>2, <1>1, <1>2
    <3>2. p \in superseded' /\ m \in Haunted'
      BY <3>1, <1>3 DEF Haunted
    <3>3. m \notin deepening
      BY <3>1, <1>0, <1>1 DEF g
    <3>4. Flying(p)
      BY <3>1, <1>0 DEF Flying, Core, CallsOK, CallOK
    <3> QED
      BY <3>1, <3>2, <3>3, <3>4 DEF Core, DivesOK, Ops
  <2> QED
    BY <2>1, <2>2
<1>14. OwnersOK'
  <2> SUFFICES ASSUME NEW p \in Runs, Flying(p)', p \notin superseded'
               PROVE  running'[op'[p].match] = op'[p].gen \/ op'[p].match \in Haunted'
    BY DEF OwnersOK
  <2>0. p \in Ops
    BY DEF Ops
  <2>1. CASE p = o
    BY <2>1, <1>1 DEF Flying, g
  <2>2. CASE p # o
    <3>1. op'[p] = op[p] /\ Flying(p) /\ p \notin superseded /\ op[p].match # m
      BY <2>0, <2>2, <1>1, <1>4, <1>7 DEF Flying
    <3>2. op[p].match \in Matches
      BY <2>0, <3>1, <1>8 DEF Flying
    <3> QED
      BY <3>1, <3>2, <1>6 DEF Core, OwnersOK
  <2> QED
    BY <2>1, <2>2
<1>15. DivesOK'
  <2>0. \A d \in Dives : d \in Ops
    BY DEF Ops
  <2>1. CASE o \in Runs
    <3>1. \A d \in Dives : op'[d] = op[d]
      BY <2>0, <2>1, <1>0, <1>1
    <3> QED
      BY <2>1, <3>1 DEF Core, DivesOK, Flying
  <2>2. CASE o \in Dives
    <3>1. \A d \in Dives : d # o => op'[d] = op[d]
      BY <2>0, <1>1
    <3>2. ~Flying(o) /\ (Flying(o)' <=> op'[o].pc = "dive")
      BY <2>2, <1>1 DEF Flying
    <3>3. \A d \in Dives : Flying(d) => op[d].match # m
      BY <2>2 DEF Core, DivesOK
    <3> QED
      BY <2>2, <3>1, <3>2, <3>3, <1>1 DEF Core, DivesOK, Flying
  <2> QED
    BY <2>1, <2>2, <1>0
<1>16. EntryOK'
  <2> SUFFICES ASSUME NEW n \in Matches, gens'[n] # 0, running'[n] = 0
               PROVE  \E p \in Ops : op'[p].match = n
                                     /\ (Flying(p)' \/ op'[p].ended = "threw")
    BY DEF EntryOK
  <2>1. CASE n = m
    <3>1. m \in deepening'
      BY <2>1
    <3>2. \E d \in Dives : Flying(d)' /\ op'[d].match = m
      BY <3>1, <1>15 DEF DivesOK
    <3> QED
      BY <2>1, <3>2 DEF Ops
  <2>2. CASE n # m
    <3>1. gens[n] # 0 /\ running[n] = 0
      BY <2>2
    <3>2. PICK p \in Ops : op[p].match = n /\ (Flying(p) \/ op[p].ended = "threw")
      BY <3>1 DEF Core, EntryOK
    <3>3. p # o
      BY <3>2, <1>0 DEF Core, CallsOK, CallOK, Flying
    <3> QED
      BY <3>2, <3>3, <1>1 DEF Flying
  <2> QED
    BY <2>1, <2>2
<1>17. RunningIsTrue'
  <2>1. \A p \in Runs : p # o => op'[p] = op[p]
    BY <1>1 DEF Ops
  <2>2. op[o].gen \in Nat /\ op[o].ended = "no"
    BY <1>0 DEF Core, CallsOK, CallOK
  <2>3. CASE o \in Dives
    BY <2>1, <2>3, <1>0 DEF Core, RunningIsTrue
  <2>4. CASE o \in Runs
    <3> SUFFICES ASSUME NEW n \in Matches
                 PROVE  /\ running'[n] = 0 <=> meta'[n] = None
                        /\ running'[n] # 0 =>
                             \E p \in Runs :
                                /\ op'[p].match = n /\ op'[p].gen = running'[n]
                                /\ \/ op'[p].ended = "threw"
                                   \/ /\ op'[p].pc \in {"call1", "call2", "review"}
                                      /\ op'[p].pc = "call2" => meta'[n].retrying
                                      /\ meta'[n].reviewing <=> op'[p].pc = "review"
      BY DEF RunningIsTrue
    <3>1. CASE n # m
      <4>1. \A p \in Runs : op[p].match = n => op'[p] = op[p]
        BY <2>1, <3>1, <1>0, OpsAssumption
      <4> QED
        BY <3>1, <4>1, <1>1 DEF Core, RunningIsTrue
    <3>2. CASE n = m /\ op'[o].pc = "call1"
      <4>1. running'[m] = g /\ meta'[m] # None /\ meta'[m].reviewing = FALSE
        BY <2>4, <3>2 DEF g
      <4>2. running'[n] # 0 /\ meta'[n] # None
        BY <3>2, <4>1, <1>0
      <4>3. /\ op'[o].match = n /\ op'[o].gen = running'[n]
            /\ op'[o].pc \in {"call1", "call2", "review"}
            /\ op'[o].pc # "call2" /\ op'[o].pc # "review"
        BY <3>2, <4>1, <1>1
      <4>4. meta'[n].reviewing = FALSE
        BY <3>2, <4>1
      <4> QED
        BY <2>4, <4>2, <4>3, <4>4
    <3>3. CASE n = m /\ op'[o].pc = "end"
      BY <2>4, <3>3
    <3> QED
      BY <3>1, <3>2, <3>3, <2>4, <1>1
  <2> QED
    BY <2>3, <2>4, <1>0
<1>18. LatestIsDelivered'
  <2> SUFFICES ASSUME NEW p \in Ops, op'[p].ended \in {"silent", "threw"}
               PROVE  p \in superseded' \/ op'[p].match \in Haunted'
    BY DEF LatestIsDelivered, Haunted
  <2>1. p # o
    BY <1>1
  <2> QED
    BY <2>1, <1>1, <1>4, <1>6 DEF Core, LatestIsDelivered, Haunted
<1>19. SupersededIsSilent'
  <2> SUFFICES ASSUME NEW p \in Ops, p \in superseded', p \notin orphaned'
               PROVE  op'[p].ended \notin {"done", "error"}
    BY <1>4 DEF SupersededIsSilent
  <2>1. p # o
    BY <1>4
  <2>2. CASE p \in superseded
    BY <2>1, <2>2, <1>1, <1>2 DEF Core, SupersededIsSilent
  <2>3. CASE op[p].pc # "end"
    BY <2>1, <2>3, <1>1 DEF Core, CallsOK, CallOK
  <2> QED
    BY <2>2, <2>3, <1>3
<1> QED
  BY <1>10, <1>11, <1>12, <1>13, <1>14, <1>15, <1>16, <1>17, <1>18, <1>19 DEF Core

LEMMA RunStarts ==
    ASSUME TypeOK, Core, NEW o \in Runs, NEW m \in Matches, NEW k \in Slots,
           RunStart(o, m, k)
    PROVE  Core' /\ Begun(o, m) /\ op'[o].pc = "call1" /\ op'[o].slot = k
<1>1. /\ op[o].pc = "new" /\ o \in Ops /\ o \notin Dives /\ gens[m] \in Nat
      /\ superseded' = superseded \cup InFlight(m)
      /\ UNCHANGED <<deepening, doc, orphaned>>
  BY OpsAssumption DEF RunStart, Ops, TypeOK
<1>2. Begun(o, m) /\ op'[o].pc = "call1" /\ op'[o].slot = k
  <2> DEFINE g == gens[m] + 1
  <2>1. op' = [op EXCEPT ![o] = [NewOp EXCEPT !.pc = "call1", !.match = m,
                                              !.gen = g, !.slot = k]]
    BY DEF RunStart
  <2>2. g \in Nat /\ op \in [Ops -> OpRecords]
    BY <1>1 DEF TypeOK
  <2> HIDE DEF g
  <2>3. /\ op' \in [Ops -> OpRecords]
        /\ \A p \in Ops \ {o} : op'[p] = op[p]
        /\ op'[o].pc = "call1" /\ op'[o].match = m /\ op'[o].gen = g
        /\ op'[o].ended = "no" /\ op'[o].slot = k
    BY <2>1, <2>2 DEF NewOp, OpRecords, Ops
  <2> QED
    BY <2>3, <1>1 DEF Begun, g
<1>3. /\ gens' = [gens EXCEPT ![m] = gens[m] + 1]
      /\ running' = [running EXCEPT ![m] = gens[m] + 1]
      /\ meta' = [meta EXCEPT ![m] = [retrying |-> FALSE, reviewing |-> FALSE]]
      /\ gens \in [Matches -> Nat] /\ running \in [Matches -> Nat]
  BY DEF RunStart, TypeOK
<1>4. /\ gens'[m] = gens[m] + 1 /\ gens'[m] # 0
      /\ running'[m] = gens[m] + 1 /\ running'[m] # 0
      /\ \A n \in Matches \ {m} : running'[n] = running[n] /\ gens'[n] = gens[n]
  BY <1>1, <1>3
<1>5. /\ \A n \in Matches \ {m} : meta'[n] = meta[n]
      /\ meta'[m] # None /\ meta'[m].reviewing = FALSE
  <2> DEFINE r == [retrying |-> FALSE, reviewing |-> FALSE]
  <2>1. r \in [retrying : BOOLEAN, reviewing : BOOLEAN] /\ r.reviewing = FALSE
    OBVIOUS
  <2>2. r # None
    BY <2>1, NoneAssumption
  <2>3. meta' = [meta EXCEPT ![m] = r] /\ DOMAIN meta = Matches
        /\ meta = [n \in DOMAIN meta |-> meta[n]]
    BY <1>3 DEF TypeOK
  <2> HIDE DEF r
  <2>4. meta'[m] = r /\ \A n \in Matches \ {m} : meta'[n] = meta[n]
    BY <2>3
  <2> QED
    BY <2>1, <2>2, <2>4
<1>6. Orphans(o, m)
  BY <1>1, <1>4 DEF Orphans
<1> QED
  BY <1>1, <1>2, <1>4, <1>5, <1>6, Begins

LEMMA RunBeginsAtOnce ==
    ASSUME TypeOK, Core, NEW o \in Runs, NEW m \in Matches, NEW k \in Slots,
           RunAtOnce(o, m, k)
    PROVE  Core' /\ Begun(o, m) /\ op'[o].pc = "end" /\ op'[o].slot = k
<1>1. /\ op[o].pc = "new" /\ o \in Ops /\ o \notin Dives /\ gens[m] \in Nat
      /\ superseded' = superseded \cup InFlight(m)
      /\ deepening' = deepening /\ Orphans(o, m)
  BY OpsAssumption DEF RunAtOnce, Ops, TypeOK
<1>2. Begun(o, m) /\ op'[o].pc = "end" /\ op'[o].slot = k
  <2> DEFINE g == gens[m] + 1
  <2>1. op' = [op EXCEPT ![o] = [NewOp EXCEPT !.pc = "end", !.match = m,
                                              !.gen = g, !.slot = k,
                                              !.ended = "done"]]
    BY DEF RunAtOnce
  <2>2. g \in Nat /\ op \in [Ops -> OpRecords]
    BY <1>1 DEF TypeOK
  <2> HIDE DEF g
  <2>3. /\ op' \in [Ops -> OpRecords]
        /\ \A p \in Ops \ {o} : op'[p] = op[p]
        /\ op'[o].pc = "end" /\ op'[o].match = m /\ op'[o].gen = g
        /\ op'[o].ended = "done" /\ op'[o].slot = k
    BY <2>1, <2>2 DEF NewOp, OpRecords, Ops
  <2> QED
    BY <2>3, <1>1 DEF Begun, g
<1>3. /\ running' = [running EXCEPT ![m] = 0]
      /\ meta' = [meta EXCEPT ![m] = None]
      /\ gens' = Reaped([gens EXCEPT ![m] = gens[m] + 1], running', deepening, m)
      /\ gens \in [Matches -> Nat] /\ running \in [Matches -> Nat]
  BY DEF RunAtOnce, TypeOK
<1>4. /\ running'[m] = 0 /\ meta'[m] = None
      /\ \A n \in Matches \ {m} : running'[n] = running[n] /\ meta'[n] = meta[n]
  BY <1>3 DEF TypeOK
<1>5. /\ gens'[m] = IF m \notin deepening THEN 0 ELSE gens[m] + 1
      /\ \A n \in Matches \ {m} : gens'[n] = gens[n]
  <2>1. CASE m \in deepening
    BY <2>1, <1>3, <1>4 DEF Reaped
  <2>2. CASE m \notin deepening
    BY <2>2, <1>3, <1>4 DEF Reaped
  <2> QED
    BY <2>1, <2>2
<1> QED
  BY <1>1, <1>2, <1>4, <1>5, Begins

LEMMA DiveStarts ==
    ASSUME TypeOK, Core, NEW o \in Dives, NEW m \in Matches, NEW b \in Runs,
           DiveStart(o, m, b)
    PROVE  /\ Core' /\ Begun(o, m) /\ op'[o].pc = "dive" /\ op'[o].base = b
           /\ op'[o].fresh <=> (Active(doc[m]) # None /\ Active(doc[m]).owner = b)
<1>1. /\ op[o].pc = "new" /\ o \in Ops /\ o \notin Runs /\ gens[m] \in Nat
      /\ m \notin deepening
      /\ superseded' = superseded \cup InFlight(m)
      /\ deepening' = deepening \cup {m}
      /\ UNCHANGED <<running, meta, doc, orphaned>>
  BY OpsAssumption DEF DiveStart, DiveBegins, Ops, TypeOK
<1>2. /\ Begun(o, m) /\ op'[o].pc = "dive" /\ op'[o].base = b
      /\ op'[o].fresh <=> (Active(doc[m]) # None /\ Active(doc[m]).owner = b)
  <2> DEFINE r == DiveRecord(m, b)
  <2>1. /\ r \in OpRecords /\ r.match = m /\ r.gen = gens[m] + 1
        /\ r.base = b /\ r.ended = "no"
        /\ r.fresh <=> (Active(doc[m]) # None /\ Active(doc[m]).owner = b)
    BY DiveRecordEffect
  <2>2. op' = [op EXCEPT ![o] = [r EXCEPT !.pc = "dive"]]
    BY DEF DiveStart
  <2>3. op \in [Ops -> OpRecords]
    BY DEF TypeOK
  <2> HIDE DEF r
  <2>4. /\ [r EXCEPT !.pc = "dive"] \in OpRecords
        /\ [r EXCEPT !.pc = "dive"].match = r.match
        /\ [r EXCEPT !.pc = "dive"].gen = r.gen
        /\ [r EXCEPT !.pc = "dive"].base = r.base
        /\ [r EXCEPT !.pc = "dive"].ended = r.ended
        /\ [r EXCEPT !.pc = "dive"].fresh = r.fresh
        /\ [r EXCEPT !.pc = "dive"].pc = "dive"
    BY <2>1 DEF OpRecords
  <2>5. /\ op' \in [Ops -> OpRecords]
        /\ \A p \in Ops \ {o} : op'[p] = op[p]
        /\ op'[o] = [r EXCEPT !.pc = "dive"]
    BY <1>1, <2>2, <2>3, <2>4
  <2> QED
    BY <1>1, <2>1, <2>4, <2>5 DEF Begun
<1>3. /\ gens'[m] = gens[m] + 1 /\ gens'[m] # 0
      /\ \A n \in Matches \ {m} : gens'[n] = gens[n]
  BY <1>1 DEF DiveStart, TypeOK
<1>4. Orphans(o, m)
  BY <1>1, <1>3 DEF Orphans
<1> QED
  BY <1>1, <1>2, <1>3, <1>4, Begins

LEMMA DiveBeginsAtOnce ==
    ASSUME TypeOK, Core, NEW o \in Dives, NEW m \in Matches, NEW b \in Runs,
           DiveAtOnce(o, m, b)
    PROVE  /\ Core' /\ Begun(o, m) /\ op'[o].pc = "end" /\ op'[o].base = b
           /\ op'[o].fresh <=> (Active(doc[m]) # None /\ Active(doc[m]).owner = b)
<1>1. /\ op[o].pc = "new" /\ o \in Ops /\ o \notin Runs /\ gens[m] \in Nat
      /\ m \notin deepening
      /\ superseded' = superseded \cup InFlight(m)
      /\ Orphans(o, m)
      /\ UNCHANGED <<running, meta, deepening>>
  BY OpsAssumption DEF DiveAtOnce, DiveBegins, Ops, TypeOK
<1>2. /\ Begun(o, m) /\ op'[o].pc = "end" /\ op'[o].base = b
      /\ op'[o].fresh <=> (Active(doc[m]) # None /\ Active(doc[m]).owner = b)
  <2> DEFINE r == DiveRecord(m, b)
             r1 == [r EXCEPT !.pc = "end"]
             r2 == [r1 EXCEPT !.ended = "done"]
  <2>1. /\ r \in OpRecords /\ r.match = m /\ r.gen = gens[m] + 1 /\ r.base = b
        /\ r.fresh <=> (Active(doc[m]) # None /\ Active(doc[m]).owner = b)
    BY DiveRecordEffect
  <2>2. op' = [op EXCEPT ![o] = r2]
    BY DEF DiveAtOnce
  <2>3. op \in [Ops -> OpRecords]
    BY DEF TypeOK
  <2> HIDE DEF r
  <2>4. /\ r1 \in OpRecords /\ r1.match = r.match /\ r1.gen = r.gen
        /\ r1.base = r.base /\ r1.fresh = r.fresh /\ r1.pc = "end"
    BY <2>1 DEF OpRecords
  <2> HIDE DEF r1
  <2>5. /\ r2 \in OpRecords /\ r2.match = r1.match /\ r2.gen = r1.gen
        /\ r2.base = r1.base /\ r2.fresh = r1.fresh /\ r2.pc = r1.pc /\ r2.ended = "done"
    BY <2>4 DEF OpRecords
  <2> HIDE DEF r2
  <2>6. /\ op' \in [Ops -> OpRecords]
        /\ \A p \in Ops \ {o} : op'[p] = op[p]
        /\ op'[o] = r2
    BY <1>1, <2>2, <2>3, <2>5
  <2> QED
    BY <1>1, <2>1, <2>4, <2>5, <2>6 DEF Begun
<1>3. /\ gens' = Reaped([gens EXCEPT ![m] = gens[m] + 1], running, deepening, m)
      /\ gens \in [Matches -> Nat]
  BY DEF DiveAtOnce, TypeOK
<1>4. /\ gens'[m] = IF running[m] = 0 THEN 0 ELSE gens[m] + 1
      /\ \A n \in Matches \ {m} : gens'[n] = gens[n]
  <2>1. CASE running[m] = 0
    BY <2>1, <1>1, <1>3 DEF Reaped
  <2>2. CASE running[m] # 0
    BY <2>2, <1>3 DEF Reaped
  <2> QED
    BY <2>1, <2>2
<1> QED
  BY <1>1, <1>2, <1>4, Begins

----------------------------------------------------------------------------
\* A cancel of the matches of M.

LEMMA Cancels ==
    ASSUME TypeOK, Core, NEW M \in SUBSET Matches,
           gens' = [m \in Matches |-> IF m \in M /\ gens[m] # 0 THEN gens[m] + 1 ELSE gens[m]],
           running' = [m \in Matches |-> IF m \in M THEN 0 ELSE running[m]],
           meta' = [m \in Matches |-> IF m \in M THEN None ELSE meta[m]],
           superseded' = superseded \cup UNION {InFlight(m) : m \in M},
           UNCHANGED <<deepening, op, orphaned>>
    PROVE  Core' /\ superseded \subseteq superseded' /\ superseded' \subseteq Ops
<1>1. /\ \A p \in Ops : p \in superseded' <=>
            p \in superseded \/ (op[p].match \in M /\ op[p].pc # "end")
      /\ superseded \subseteq superseded' /\ superseded' \subseteq Ops
      /\ orphaned \subseteq Ops
  BY DEF InFlight, TypeOK
<1>2. Haunted \subseteq Haunted'
  BY <1>1 DEF Haunted
<1>3. \A p \in Ops : op[p].pc # "new" => op[p].match \in Matches /\ op[p].gen # 0 /\ op[p].gen \in Nat
  BY DEF Core, CallsOK, CallOK, TypeOK, OpRecords
<1>4. gens \in [Matches -> Nat] /\ running \in [Matches -> Nat]
  BY DEF TypeOK
<1>5. op' = op /\ orphaned' = orphaned /\ deepening' = deepening
  OBVIOUS
<1>6. CallsOK'
  <2>1. \A p \in Ops : op[p].pc = "new" => op[p].match \notin M
    BY OpsAssumption DEF Core, CallsOK, CallOK
  <2>2. \A p \in Ops : op[p].pc = "new" => p \notin superseded'
    BY <2>1, <1>1 DEF Core, CallsOK, CallOK
  <2> QED
    BY <2>2, <1>5 DEF Core, CallsOK, CallOK
<1>7. NumbersOK'
  <2> SUFFICES ASSUME NEW p \in Ops, Flying(p), p \notin orphaned
               PROVE  /\ op[p].gen <= gens'[op[p].match]
                      /\ p \in superseded' <=> op[p].gen # gens'[op[p].match]
    BY <1>5 DEF NumbersOK, NumberOK, Flying
  <2>1. /\ op[p].gen <= gens[op[p].match] /\ op[p].gen # 0 /\ op[p].gen \in Nat
        /\ p \in superseded <=> op[p].gen # gens[op[p].match]
        /\ op[p].match \in Matches /\ op[p].pc # "end"
    BY <1>3 DEF Core, NumbersOK, NumberOK, Flying
  <2>2. gens[op[p].match] \in Nat /\ gens[op[p].match] # 0
    BY <2>1, <1>4
  <2>3. CASE op[p].match \in M
    BY <2>1, <2>2, <2>3, <1>1
  <2>4. CASE op[p].match \notin M
    BY <2>1, <2>4, <1>1
  <2> QED
    BY <2>3, <2>4
<1>8. OneCurrent'
  BY <1>1, <1>5 DEF Core, OneCurrent, Flying
<1>9. OrphansOK'
  BY <1>1, <1>2, <1>5 DEF Core, OrphansOK
<1>10. OwnersOK'
  <2> SUFFICES ASSUME NEW p \in Runs, Flying(p), p \notin superseded'
               PROVE  running'[op[p].match] = op[p].gen \/ op[p].match \in Haunted'
    BY <1>5 DEF OwnersOK, Flying
  <2>1. p \in Ops /\ p \notin superseded /\ op[p].match \in Matches \ M
    BY <1>1, <1>3 DEF Ops, Flying
  <2> QED
    BY <2>1, <1>2 DEF Core, OwnersOK
<1>11. DivesOK'
  BY <1>5 DEF Core, DivesOK, Flying
<1>12. EntryOK'
  <2> SUFFICES ASSUME NEW m \in Matches, gens'[m] # 0, running'[m] = 0
               PROVE  \E p \in Ops : op[p].match = m /\ (Flying(p) \/ op[p].ended = "threw")
    BY <1>5 DEF EntryOK, Flying
  <2>1. gens[m] # 0
    BY <1>4
  <2>2. CASE running[m] = 0
    BY <2>1, <2>2 DEF Core, EntryOK
  <2>3. CASE running[m] # 0
    BY <2>3 DEF Core, RunningIsTrue, Flying, Ops
  <2> QED
    BY <2>2, <2>3
<1>13. RunningIsTrue'
  <2> SUFFICES ASSUME NEW m \in Matches
               PROVE  /\ running'[m] = 0 <=> meta'[m] = None
                      /\ running'[m] # 0 => running'[m] = running[m] /\ meta'[m] = meta[m]
    BY <1>5 DEF Core, RunningIsTrue
  <2> QED
    BY DEF Core, RunningIsTrue
<1>14. LatestIsDelivered'
  BY <1>1, <1>5 DEF Core, LatestIsDelivered
<1>15. SupersededIsSilent'
  <2> SUFFICES ASSUME NEW p \in superseded' \ orphaned
               PROVE  op[p].ended \notin {"done", "error"}
    BY <1>5 DEF SupersededIsSilent
  <2>1. CASE p \in superseded
    BY <2>1 DEF Core, SupersededIsSilent
  <2>2. CASE p \in Ops /\ op[p].pc # "end"
    BY <2>2 DEF Core, CallsOK, CallOK
  <2> QED
    BY <2>1, <2>2, <1>1
<1> QED
  BY <1>1, <1>6, <1>7, <1>8, <1>9, <1>10, <1>11, <1>12, <1>13, <1>14, <1>15 DEF Core

----------------------------------------------------------------------------
\* What is written.

Docs == [last : Slots, slots : [Slots -> Results \cup {None}]]

LEMMA UpsertEffect ==
    ASSUME NEW d \in Docs \cup {None}, NEW k \in Slots, NEW r \in Results
    PROVE  /\ Upsert(d, k, r) \in Docs
           /\ Upsert(d, k, r).last = k
           /\ Upsert(d, k, r).slots[k] = r
           /\ \A j \in Slots \ {k} :
                 /\ d = None => Upsert(d, k, r).slots[j] = None
                 /\ d # None => Upsert(d, k, r).slots[j] = d.slots[j]
<1> DEFINE S == [j \in Slots |-> IF j = k THEN r
                                 ELSE IF d = None THEN None ELSE d.slots[j]]
<1>1. S \in [Slots -> Results \cup {None}]
  BY DEF Docs
<1>2. /\ S[k] = r
      /\ \A j \in Slots \ {k} : /\ d = None => S[j] = None
                                /\ d # None => S[j] = d.slots[j]
  OBVIOUS
<1>3. Upsert(d, k, r) = [last |-> k, slots |-> S]
  BY DEF Upsert
<1> HIDE DEF S
<1> QED
  BY <1>1, <1>2, <1>3 DEF Docs

\* What a step may leave in the slot k of m: what was there, or a new result r.
Fine(r, m) ==
    \/ r.by = None /\ r.findings = r.owner
    \/ /\ r.by \in Dives /\ op'[r.by].pc = "end"
       /\ \/ r.findings = r.owner
          \/ ~op'[r.by].fresh
          \/ m \in Haunted'

LEMMA WrittenStep ==
    ASSUME IInv, TypeOK', Haunted \subseteq Haunted', orphaned \subseteq orphaned',
           \A p \in Ops : op[p].pc # "new" => op'[p].match = op[p].match,
           \A p \in Ops : op[p].pc = "end" => op'[p] = op[p],
           \A m \in Matches, k \in Slots :
              (doc'[m] # None /\ doc'[m].slots[k] # None) =>
                  \/ doc[m] # None /\ doc'[m].slots[k] = doc[m].slots[k]
                  \/ Fine(doc'[m].slots[k], m)
    PROVE  WrittenOK' /\ SlotIsOneAnalysis'
<1>1. None \notin Dives
  BY OpsAssumption
<1>2. WrittenOK'
  <2> SUFFICES ASSUME NEW m \in Matches, NEW k \in Slots,
                      doc'[m] # None, doc'[m].slots[k] # None
               PROVE  /\ doc'[m].slots[k].by \in Dives => op'[doc'[m].slots[k].by].pc = "end"
                      /\ doc'[m].slots[k].by = None =>
                            doc'[m].slots[k].findings = doc'[m].slots[k].owner
    BY DEF WrittenOK
  <2>1. CASE doc[m] # None /\ doc'[m].slots[k] = doc[m].slots[k]
    BY <2>1 DEF IInv, WrittenOK, Ops
  <2>2. CASE Fine(doc'[m].slots[k], m)
    BY <2>2, <1>1 DEF Fine
  <2> QED
    BY <2>1, <2>2
<1>3. SlotIsOneAnalysis'
  <2> SUFFICES ASSUME NEW m \in Matches, NEW k \in Slots,
                      doc'[m] # None, doc'[m].slots[k] # None,
                      doc'[m].slots[k].findings # doc'[m].slots[k].owner
               PROVE  \/ ~op'[doc'[m].slots[k].by].fresh
                      \/ \E z \in orphaned' : op'[z].match = m
    BY DEF SlotIsOneAnalysis
  <2>1. CASE doc[m] # None /\ doc'[m].slots[k] = doc[m].slots[k]
    <3>1. /\ \/ ~op[doc[m].slots[k].by].fresh
             \/ \E z \in orphaned : op[z].match = m
          /\ doc[m].slots[k].by # None
      BY <2>1 DEF IInv, SlotIsOneAnalysis, WrittenOK
    <3>2. doc[m].slots[k] \in Results
      BY <2>1 DEF IInv, TypeOK
    <3>3. doc[m].slots[k].by \in Dives
      BY <3>1, <3>2 DEF Results
    <3>4. op'[doc[m].slots[k].by] = op[doc[m].slots[k].by]
      BY <2>1, <3>3 DEF IInv, WrittenOK, Ops
    <3>5. \A z \in orphaned : z \in Ops /\ op[z].pc # "new"
      BY DEF IInv, Core, CallsOK, CallOK, TypeOK
    <3> QED
      BY <2>1, <3>1, <3>4, <3>5
  <2>2. CASE Fine(doc'[m].slots[k], m)
    BY <2>2 DEF Fine, Haunted
  <2> QED
    BY <2>1, <2>2
<1> QED
  BY <1>2, <1>3

----------------------------------------------------------------------------
\* The invariant, step by step.

\* A step after which the calls that were in flight are where they were, or
\* farther, as far as the documents are concerned.
LEMMA NamedStep ==
    ASSUME IInv, NEW o \in Ops, Kept(o), op[o].pc # "new"
    PROVE  NamedOK'
  BY DEF IInv, NamedOK, Kept, Ops

LEMMA HandedStep ==
    ASSUME IInv, NEW o \in Ops, Kept(o), Flying(o),
           superseded' = superseded, Haunted \subseteq Haunted', doc' = doc
    PROVE  HandedOK'
<1> SUFFICES ASSUME NEW d \in Dives, Flying(d)', op'[d].fresh, d \notin superseded
             PROVE  \/ /\ Active(doc[op'[d].match]) # None
                       /\ Active(doc[op'[d].match]).owner = op'[d].base
                    \/ op'[d].match \in Haunted'
  BY DEF HandedOK, Active
<1>1. /\ Flying(d) /\ d \in Ops /\ op'[d].match = op[d].match
      /\ op'[d].fresh = op[d].fresh /\ op'[d].base = op[d].base
  BY DEF Kept, Flying, Ops
<1> QED
  BY <1>1 DEF IInv, HandedOK

\* What is written to the document of m, and to no other.
Writes(m, k, r) == doc' = [doc EXCEPT ![m] = Upsert(doc[m], k, r)]

LEMMA WriteEffect ==
    ASSUME IInv, NEW m \in Matches, NEW k \in Slots, NEW r \in Results,
           Writes(m, k, r)
    PROVE  /\ doc' \in [Matches -> Docs \cup {None}]
           /\ \A n \in Matches \ {m} : doc'[n] = doc[n]
           /\ \A n \in Matches, j \in Slots :
                 (doc'[n] # None /\ doc'[n].slots[j] # None) =>
                    \/ doc[n] # None /\ doc'[n].slots[j] = doc[n].slots[j]
                    \/ n = m /\ doc'[n].slots[j] = r
<1> DEFINE u == Upsert(doc[m], k, r)
<1>1. doc \in [Matches -> Docs \cup {None}] /\ doc[m] \in Docs \cup {None}
  BY DEF IInv, TypeOK, Docs
<1>2. /\ u \in Docs /\ u.slots[k] = r
      /\ \A j \in Slots \ {k} : /\ doc[m] = None => u.slots[j] = None
                                /\ doc[m] # None => u.slots[j] = doc[m].slots[j]
  BY <1>1, UpsertEffect
<1>3. doc' = [doc EXCEPT ![m] = u]
  BY DEF Writes
<1> HIDE DEF u
<1>4. /\ doc' \in [Matches -> Docs \cup {None}] /\ doc'[m] = u
      /\ \A n \in Matches \ {m} : doc'[n] = doc[n]
  BY <1>1, <1>2, <1>3
<1> QED
  BY <1>2, <1>4

\* The result of a run is its own.
RunResult(o) == [owner |-> o, findings |-> o, by |-> None]

LEMMA RunResultFine ==
    ASSUME NEW o \in Runs, NEW m
    PROVE  RunResult(o) \in Results /\ Fine(RunResult(o), m)
  BY DEF RunResult, Results, Fine

\* A run leaves, superseded, with an error or with its result.
LEMMA RunEnds ==
    ASSUME IInv, NEW o \in Runs, Suspended(o), ClearRunning(o),
           NEW how \in {"done", "silent", "error"}, Leave(o, how),
           how = "silent" <=> ~IsCurrent(o), UNCHANGED <<deepening, superseded>>,
           \/ doc' = doc
           \/ IsCurrent(o) /\ Writes(op[o].match, op[o].slot, RunResult(o))
    PROVE  IInv'
<1> DEFINE mo == op[o].match
<1>0. TypeOK /\ Core
  BY DEF IInv
<1>1. o \in Ops /\ o \notin Dives /\ mo \in Matches /\ Flying(o) /\ op[o].slot \in Slots
  BY <1>0, OpsAssumption DEF Core, CallsOK, CallOK, Suspended, Flying, Ops, IInv, NamedOK
<1>2. Core'
  BY <1>0, RunLeaves
<1>3. Kept(o) /\ op'[o].pc = "end"
  BY <1>0, <1>1, LeaveEffect DEF TypeOK
<1>4. /\ running' \in [Matches -> Nat] /\ gens' \in [Matches -> Nat]
      /\ meta' \in [Matches -> [retrying : BOOLEAN, reviewing : BOOLEAN] \cup {None}]
  BY <1>0, <1>1, ClearEffect
<1>5. orphaned \subseteq orphaned' /\ orphaned' \subseteq Ops
  BY <1>0, <1>1, OrphansEffect DEF ClearRunning
<1>6. superseded \subseteq Ops /\ orphaned \subseteq Ops
  BY <1>0 DEF TypeOK
<1>7. \A p \in Ops : /\ op'[p].match = op[p].match
                     /\ op[p].pc = "end" => op'[p] = op[p]
  BY <1>1, <1>3 DEF Kept, Flying
<1>8. Haunted \subseteq Haunted'
  BY <1>5, <1>6, <1>7 DEF Haunted
<1>9. NamedOK'
  BY <1>1, <1>3, NamedStep DEF Flying
<1>10. /\ doc' \in [Matches -> Docs \cup {None}]
       /\ \A n \in Matches, k \in Slots :
             (doc'[n] # None /\ doc'[n].slots[k] # None) =>
                \/ doc[n] # None /\ doc'[n].slots[k] = doc[n].slots[k]
                \/ Fine(doc'[n].slots[k], n)
  <2>1. CASE doc' = doc
    BY <2>1, <1>0 DEF TypeOK, Docs
  <2>2. CASE Writes(mo, op[o].slot, RunResult(o))
    <3> DEFINE r == RunResult(o)
               k0 == op[o].slot
    <3>1. r \in Results /\ \A n : Fine(r, n)
      BY RunResultFine
    <3>2. k0 \in Slots /\ mo \in Matches /\ Writes(mo, k0, r)
      BY <2>2, <1>1
    <3> HIDE DEF r, k0, mo
    <3>3. /\ doc' \in [Matches -> Docs \cup {None}]
          /\ \A n \in Matches \ {mo} : doc'[n] = doc[n]
          /\ \A n \in Matches, j \in Slots :
                (doc'[n] # None /\ doc'[n].slots[j] # None) =>
                   \/ doc[n] # None /\ doc'[n].slots[j] = doc[n].slots[j]
                   \/ n = mo /\ doc'[n].slots[j] = r
      BY <3>1, <3>2, WriteEffect
    <3> QED
      BY <3>1, <3>3
  <2> QED
    BY <2>1, <2>2
<1>11. TypeOK'
  BY <1>0, <1>3, <1>4, <1>5, <1>10 DEF TypeOK, Kept, Docs
<1>12. WrittenOK' /\ SlotIsOneAnalysis'
  BY <1>5, <1>7, <1>8, <1>10, <1>11, WrittenStep
<1>13. HandedOK'
  <2>1. CASE doc' = doc
    BY <2>1, <1>1, <1>3, <1>8, HandedStep
  <2>2. CASE IsCurrent(o) /\ Writes(mo, op[o].slot, RunResult(o))
    <3> SUFFICES ASSUME NEW d \in Dives, Flying(d)', op'[d].fresh, d \notin superseded
                 PROVE  \/ /\ Active(doc'[op'[d].match]) # None
                           /\ Active(doc'[op'[d].match]).owner = op'[d].base
                        \/ op'[d].match \in Haunted'
      BY DEF HandedOK, Active
    <3>1. d \in Ops /\ d # o /\ op'[d] = op[d] /\ Flying(d) /\ op[d].match \in Matches
      BY <1>0, <1>1, <1>3 DEF Kept, Flying, Ops, Core, CallsOK, CallOK
    <3>2. CASE op[d].match # mo
      <4>1. doc'[op[d].match] = doc[op[d].match]
        BY <2>2, <3>1, <3>2 DEF IInv, TypeOK, Writes
      <4> QED
        BY <3>1, <4>1, <1>8 DEF IInv, HandedOK, Active
    <3>3. CASE op[d].match = mo
      <4>1. CASE o \in orphaned
        BY <3>1, <3>3, <4>1, <1>0, <1>8 DEF Core, OrphansOK
      <4>2. CASE o \notin orphaned
        <5>1. o \notin superseded
          BY <2>2, <4>2, <1>0, <1>1 DEF Core, NumbersOK, NumberOK, IsCurrent
        <5>2. d \notin orphaned
          BY <1>0, OpsAssumption DEF Core, OrphansOK
        <5> QED
          BY <3>1, <3>3, <4>2, <5>1, <5>2, <1>0, <1>1 DEF Core, OneCurrent
      <4> QED
        BY <4>1, <4>2
    <3> QED
      BY <3>2, <3>3
  <2> QED
    BY <2>1, <2>2
<1> QED
  BY <1>2, <1>9, <1>11, <1>12, <1>13 DEF IInv

\* The result of a dive: the findings it was handed, in place of those of the
\* active slot.
DiveResult(d, m) ==
    [owner |-> Active(doc[m]).owner, findings |-> op'[d].base, by |-> d]

LEMMA MergedEffect ==
    ASSUME IInv, NEW d \in Dives, NEW m \in Matches, op'[d].base \in Runs,
           doc' \in {doc, Merged(d, m)}
    PROVE  \/ doc' = doc
           \/ /\ Active(doc[m]) # None /\ doc[m].last \in Slots
              /\ DiveResult(d, m) \in Results
              /\ Writes(m, doc[m].last, DiveResult(d, m))
<1>1. CASE Active(doc[m]) = None \/ doc' = doc
  BY <1>1 DEF Merged
<1>2. CASE Active(doc[m]) # None /\ doc' = Merged(d, m)
  <2>1. doc[m] # None /\ doc[m] \in Docs
    BY <1>2 DEF Active, IInv, TypeOK, Docs
  <2>2. doc[m].last \in Slots /\ Active(doc[m]) \in Results
    BY <1>2, <2>1 DEF Active, Docs
  <2>3. DiveResult(d, m) \in Results
    BY <2>2 DEF DiveResult, Results
  <2>4. doc' = [doc EXCEPT ![m] = Upsert(doc[m], doc[m].last, DiveResult(d, m))]
    BY <1>2 DEF Merged, DiveResult
  <2> QED
    BY <1>2, <2>2, <2>3, <2>4 DEF Writes
<1> QED
  BY <1>1, <1>2

\* A dive leaves, superseded or with its result.
LEMMA DiveEnds ==
    ASSUME IInv, NEW o \in Dives, op[o].pc \in {"dive", "repair"},
           Surface(o, op[o].match), NEW how \in {"done", "silent"}, Leave(o, how),
           how = "silent" <=> ~IsCurrent(o), UNCHANGED <<running, meta, superseded>>,
           \/ doc' = doc
           \/ IsCurrent(o) /\ doc' \in {doc, Merged(o, op[o].match)}
    PROVE  IInv'
<1> DEFINE mo == op[o].match
<1>0. TypeOK /\ Core
  BY DEF IInv
<1>1. /\ o \in Ops /\ o \notin Runs /\ mo \in Matches /\ Flying(o) /\ op[o].base \in Runs
      /\ o \notin orphaned
  BY <1>0, OpsAssumption DEF Core, CallsOK, CallOK, OrphansOK, Flying, Ops, IInv, NamedOK
<1>2. Core'
  BY <1>0, DiveLeaves
<1>3. Kept(o) /\ op'[o].pc = "end"
  BY <1>0, <1>1, LeaveEffect DEF TypeOK
<1>4. gens' \in [Matches -> Nat] /\ deepening' \subseteq Matches
  BY <1>0, <1>1 DEF Surface, Reaped, TypeOK
<1>5. orphaned \subseteq orphaned' /\ orphaned' \subseteq Ops
  BY <1>0, <1>1, OrphansEffect DEF Surface
<1>6. superseded \subseteq Ops /\ orphaned \subseteq Ops
  BY <1>0 DEF TypeOK
<1>7. \A p \in Ops : /\ op'[p].match = op[p].match
                     /\ op[p].pc = "end" => op'[p] = op[p]
  BY <1>1, <1>3 DEF Kept, Flying
<1>8. Haunted \subseteq Haunted'
  BY <1>5, <1>6, <1>7 DEF Haunted
<1>9. NamedOK'
  BY <1>1, <1>3, NamedStep DEF Flying
<1>10. op'[o].base = op[o].base /\ op'[o].base \in Runs /\ op'[o].fresh = op[o].fresh
  BY <1>1, <1>3 DEF Kept
<1> DEFINE r == DiveResult(o, mo)
           k0 == doc[mo].last
<1>11. \/ doc' = doc
       \/ /\ Active(doc[mo]) # None /\ k0 \in Slots /\ r \in Results
          /\ Writes(mo, k0, r) /\ IsCurrent(o)
  BY <1>1, <1>10, MergedEffect
<1>12. ASSUME Active(doc[mo]) # None, IsCurrent(o) PROVE Fine(r, mo)
  <2>1. o \notin superseded
    BY <1>0, <1>1, <1>12 DEF Core, NumbersOK, NumberOK, IsCurrent
  <2>2. op[o].fresh => Active(doc[mo]).owner = op[o].base \/ mo \in Haunted
    BY <1>1, <2>1 DEF IInv, HandedOK
  <2>3. r.by = o /\ r.owner = Active(doc[mo]).owner /\ r.findings = op[o].base
    BY <1>10 DEF DiveResult
  <2> QED
    BY <2>2, <2>3, <1>3, <1>8, <1>10 DEF Fine
<1>13. mo \in Matches
  BY <1>1
<1> HIDE DEF mo, r, k0
<1>14. /\ doc' \in [Matches -> Docs \cup {None}]
       /\ \A n \in Matches \ {mo} : doc'[n] = doc[n]
       /\ \A n \in Matches, k \in Slots :
             (doc'[n] # None /\ doc'[n].slots[k] # None) =>
                \/ doc[n] # None /\ doc'[n].slots[k] = doc[n].slots[k]
                \/ Fine(doc'[n].slots[k], n)
  <2>1. CASE doc' = doc
    BY <2>1, <1>0 DEF TypeOK, Docs
  <2>2. CASE k0 \in Slots /\ r \in Results /\ Writes(mo, k0, r) /\ Fine(r, mo)
    <3>1. /\ doc' \in [Matches -> Docs \cup {None}]
          /\ \A n \in Matches \ {mo} : doc'[n] = doc[n]
          /\ \A n \in Matches, j \in Slots :
                (doc'[n] # None /\ doc'[n].slots[j] # None) =>
                   \/ doc[n] # None /\ doc'[n].slots[j] = doc[n].slots[j]
                   \/ n = mo /\ doc'[n].slots[j] = r
      BY <2>2, <1>13, WriteEffect
    <3> QED
      BY <2>2, <3>1
  <2> QED
    BY <2>1, <2>2, <1>11, <1>12
<1>15. TypeOK'
  BY <1>0, <1>3, <1>4, <1>5, <1>14 DEF TypeOK, Kept, Docs
<1>16. WrittenOK' /\ SlotIsOneAnalysis'
  BY <1>5, <1>7, <1>8, <1>14, <1>15, WrittenStep
<1>17. HandedOK'
  <2> SUFFICES ASSUME NEW d \in Dives, Flying(d)', op'[d].fresh, d \notin superseded
               PROVE  \/ /\ Active(doc'[op'[d].match]) # None
                         /\ Active(doc'[op'[d].match]).owner = op'[d].base
                      \/ op'[d].match \in Haunted'
    BY DEF HandedOK, Active
  <2>1. d \in Ops /\ d # o /\ op'[d] = op[d] /\ Flying(d) /\ op[d].match \in Matches
    BY <1>0, <1>1, <1>3 DEF Kept, Flying, Ops, Core, CallsOK, CallOK
  <2>2. op[d].match # mo
    BY <2>1, <1>0, <1>1 DEF Core, DivesOK, mo
  <2> QED
    BY <2>1, <2>2, <1>8, <1>14 DEF IInv, HandedOK, Active
<1> QED
  BY <1>2, <1>9, <1>15, <1>16, <1>17 DEF IInv

\* A call begins: what is left to show once Core' is known.
LEMMA BeginStep ==
    ASSUME IInv, Core', NEW o \in Ops, NEW m \in Matches, op[o].pc = "new", Begun(o, m),
           Orphans(o, m), superseded' = superseded \cup InFlight(m),
           gens' \in [Matches -> Nat], running' \in [Matches -> Nat],
           meta' \in [Matches -> [retrying : BOOLEAN, reviewing : BOOLEAN] \cup {None}],
           deepening' \subseteq Matches,
           o \in Runs => op'[o].slot \in Slots,
           o \in Dives => op'[o].base \in Runs,
           doc' \in [Matches -> Docs \cup {None}],
           \A n \in Matches \ {m} : doc'[n] = doc[n],
           \A n \in Matches, k \in Slots :
              (doc'[n] # None /\ doc'[n].slots[k] # None) =>
                 \/ doc[n] # None /\ doc'[n].slots[k] = doc[n].slots[k]
                 \/ Fine(doc'[n].slots[k], n),
           (o \in Dives /\ Flying(o)' /\ op'[o].fresh) =>
              Active(doc'[m]) # None /\ Active(doc'[m]).owner = op'[o].base
    PROVE  IInv'
<1>0. TypeOK /\ Core
  BY DEF IInv
<1>1. orphaned \subseteq orphaned' /\ orphaned' \subseteq Ops
  BY <1>0, OrphansEffect
<1>2. superseded \subseteq superseded' /\ superseded' \subseteq Ops /\ orphaned \subseteq Ops
  BY <1>0 DEF InFlight, TypeOK
<1>3. /\ op' \in [Ops -> OpRecords] /\ \A p \in Ops : p # o => op'[p] = op[p]
      /\ op'[o].match = m /\ o \notin superseded /\ o \notin orphaned
  BY <1>0 DEF Begun, Core, CallsOK, CallOK
<1>4. \A p \in Ops : /\ op[p].pc # "new" => op'[p].match = op[p].match
                     /\ op[p].pc = "end" => op'[p] = op[p]
  BY <1>3
<1>5. Haunted \subseteq Haunted'
  BY <1>0, <1>1, <1>2, <1>3 DEF Haunted
<1>6. TypeOK'
  BY <1>1, <1>2, <1>3 DEF TypeOK, Docs
<1>7. WrittenOK' /\ SlotIsOneAnalysis'
  BY <1>1, <1>4, <1>5, <1>6, WrittenStep
<1>8. NamedOK'
  BY <1>3 DEF IInv, NamedOK, Ops
<1>9. HandedOK'
  <2> SUFFICES ASSUME NEW d \in Dives, Flying(d)', op'[d].fresh, d \notin superseded'
               PROVE  \/ /\ Active(doc'[op'[d].match]) # None
                         /\ Active(doc'[op'[d].match]).owner = op'[d].base
                      \/ op'[d].match \in Haunted'
    BY DEF HandedOK, Active
  <2>1. CASE d = o
    BY <2>1, <1>3
  <2>2. CASE d # o
    <3>1. d \in Ops /\ op'[d] = op[d] /\ Flying(d) /\ op[d].match \in Matches
      BY <2>2, <1>0, <1>3 DEF Flying, Ops, Core, CallsOK, CallOK
    <3>2. op[d].match # m /\ d \notin superseded
      BY <3>1 DEF InFlight, Flying
    <3> QED
      BY <3>1, <3>2, <1>5 DEF IInv, HandedOK, Active
  <2> QED
    BY <2>1, <2>2
<1> QED
  BY <1>6, <1>7, <1>8, <1>9 DEF IInv

----------------------------------------------------------------------------
\* Every action preserves the invariant.

LEMMA InitOK == Init => IInv
<1> SUFFICES ASSUME Init PROVE IInv
  OBVIOUS
<1>1. NewOp \in OpRecords /\ NewOp.pc = "new" /\ NewOp.match = None /\ NewOp.ended = "no"
  BY DEF NewOp, OpRecords
<1>2. \A o \in Ops : op[o] = NewOp
  BY DEF Init
<1>3. TypeOK
  BY <1>1 DEF Init, TypeOK
<1>4. CallsOK
  BY <1>1, <1>2 DEF Init, CallsOK, CallOK, DivesOnly, RunsOnly
<1>5. \A o \in Ops : ~Flying(o)
  BY <1>1, <1>2 DEF Flying
<1>6. NumbersOK /\ OneCurrent /\ OrphansOK
  BY <1>5 DEF Init, NumbersOK, NumberOK, OneCurrent, OrphansOK
<1>7. OwnersOK /\ DivesOK
  BY <1>5 DEF Init, OwnersOK, DivesOK, Ops
<1>8. EntryOK /\ RunningIsTrue
  BY DEF Init, EntryOK, RunningIsTrue
<1>9. LatestIsDelivered /\ SupersededIsSilent
  BY <1>1, <1>2 DEF Init, LatestIsDelivered, SupersededIsSilent
<1>10. NamedOK /\ HandedOK
  BY <1>1, <1>2, <1>5 DEF Init, NamedOK, HandedOK, Ops
<1>11. WrittenOK /\ SlotIsOneAnalysis
  BY DEF Init, WrittenOK, SlotIsOneAnalysis
<1> QED
  BY <1>3, <1>4, <1>6, <1>7, <1>8, <1>9, <1>10, <1>11 DEF IInv, Core

LEMMA RunStartStep ==
    ASSUME IInv, NEW o \in Runs, NEW m \in Matches, NEW k \in Slots, RunStart(o, m, k)
    PROVE  IInv'
<1>1. TypeOK /\ Core
  BY DEF IInv
<1>2. Core' /\ Begun(o, m) /\ op'[o].slot = k
  BY <1>1, RunStarts
<1>3. o \in Ops /\ o \notin Dives /\ op[o].pc = "new" /\ doc' = doc /\ deepening' = deepening
      /\ orphaned' = orphaned /\ superseded' = superseded \cup InFlight(m)
  BY OpsAssumption DEF RunStart, Ops
<1>4. /\ gens' \in [Matches -> Nat] /\ running' \in [Matches -> Nat]
      /\ gens'[m] # 0
      /\ meta' \in [Matches -> [retrying : BOOLEAN, reviewing : BOOLEAN] \cup {None}]
  <2> DEFINE g == gens[m] + 1
             r == [retrying |-> FALSE, reviewing |-> FALSE]
  <2>1. /\ g \in Nat /\ g # 0 /\ r \in [retrying : BOOLEAN, reviewing : BOOLEAN]
        /\ gens' = [gens EXCEPT ![m] = g] /\ running' = [running EXCEPT ![m] = g]
        /\ meta' = [meta EXCEPT ![m] = r]
    BY <1>1 DEF RunStart, TypeOK
  <2> HIDE DEF g, r
  <2> QED
    BY <1>1, <2>1 DEF TypeOK
<1>5. Orphans(o, m)
  BY <1>3, <1>4 DEF Orphans
<1>6. doc' \in [Matches -> Docs \cup {None}] /\ deepening' \subseteq Matches
  BY <1>1, <1>3 DEF TypeOK, Docs
<1> QED
  BY <1>2, <1>3, <1>4, <1>5, <1>6, BeginStep

LEMMA RunAtOnceStep ==
    ASSUME IInv, NEW o \in Runs, NEW m \in Matches, NEW k \in Slots, RunAtOnce(o, m, k)
    PROVE  IInv'
<1>1. TypeOK /\ Core
  BY DEF IInv
<1>2. Core' /\ Begun(o, m) /\ op'[o].slot = k
  BY <1>1, RunBeginsAtOnce
<1>3. /\ o \in Ops /\ o \notin Dives /\ op[o].pc = "new" /\ deepening' = deepening
      /\ Orphans(o, m) /\ superseded' = superseded \cup InFlight(m)
      /\ doc' = doc \/ Writes(m, k, RunResult(o))
  BY OpsAssumption DEF RunAtOnce, Ops, Writes, RunResult
<1>4. /\ running' \in [Matches -> Nat]
      /\ meta' \in [Matches -> [retrying : BOOLEAN, reviewing : BOOLEAN] \cup {None}]
  BY <1>1 DEF RunAtOnce, TypeOK
<1>5. gens' \in [Matches -> Nat]
  <2>1. gens[m] + 1 \in Nat /\ gens \in [Matches -> Nat]
    BY <1>1 DEF TypeOK
  <2>2. [gens EXCEPT ![m] = gens[m] + 1] \in [Matches -> Nat]
    BY <2>1
  <2>3. gens' = Reaped([gens EXCEPT ![m] = gens[m] + 1], running', deepening, m)
    BY DEF RunAtOnce
  <2> QED
    BY <2>2, <2>3 DEF Reaped
<1>6. RunResult(o) \in Results /\ Fine(RunResult(o), m)
  BY RunResultFine
<1> DEFINE r == RunResult(o)
<1> HIDE DEF r
<1>7. /\ doc' \in [Matches -> Docs \cup {None}]
      /\ \A n \in Matches \ {m} : doc'[n] = doc[n]
      /\ \A n \in Matches, j \in Slots :
            (doc'[n] # None /\ doc'[n].slots[j] # None) =>
               \/ doc[n] # None /\ doc'[n].slots[j] = doc[n].slots[j]
               \/ n = m /\ doc'[n].slots[j] = r
  <2>1. CASE doc' = doc
    BY <2>1, <1>1 DEF TypeOK, Docs
  <2>2. CASE Writes(m, k, r)
    <3>1. r \in Results
      BY <1>6 DEF r
    <3> QED
      BY <2>2, <3>1, WriteEffect
  <2> QED
    BY <2>1, <2>2, <1>3 DEF r
<1>8. \A n \in Matches, j \in Slots :
         (doc'[n] # None /\ doc'[n].slots[j] # None) =>
            \/ doc[n] # None /\ doc'[n].slots[j] = doc[n].slots[j]
            \/ Fine(doc'[n].slots[j], n)
  BY <1>6, <1>7 DEF r
<1>9. deepening' \subseteq Matches
  BY <1>1, <1>3 DEF TypeOK
<1> QED
  BY <1>2, <1>3, <1>4, <1>5, <1>7, <1>8, <1>9, BeginStep

LEMMA DiveStartStep ==
    ASSUME IInv, NEW o \in Dives, NEW m \in Matches, NEW b \in Runs, DiveStart(o, m, b)
    PROVE  IInv'
<1>1. TypeOK /\ Core
  BY DEF IInv
<1>2. /\ Core' /\ Begun(o, m) /\ op'[o].base = b
      /\ op'[o].fresh <=> (Active(doc[m]) # None /\ Active(doc[m]).owner = b)
  BY <1>1, DiveStarts
<1>3. /\ o \in Ops /\ o \notin Runs /\ op[o].pc = "new" /\ doc' = doc
      /\ deepening' = deepening \cup {m} /\ running' = running /\ meta' = meta
      /\ orphaned' = orphaned /\ superseded' = superseded \cup InFlight(m)
  BY OpsAssumption DEF DiveStart, DiveBegins, Ops
<1>4. gens' \in [Matches -> Nat] /\ gens'[m] # 0
  BY <1>1 DEF DiveStart, TypeOK
<1>5. Orphans(o, m)
  BY <1>3, <1>4 DEF Orphans
<1>6. /\ doc' \in [Matches -> Docs \cup {None}] /\ deepening' \subseteq Matches
      /\ running' \in [Matches -> Nat]
      /\ meta' \in [Matches -> [retrying : BOOLEAN, reviewing : BOOLEAN] \cup {None}]
  BY <1>1, <1>3 DEF TypeOK, Docs
<1> QED
  BY <1>2, <1>3, <1>4, <1>5, <1>6, BeginStep

LEMMA DiveAtOnceStep ==
    ASSUME IInv, NEW o \in Dives, NEW m \in Matches, NEW b \in Runs, DiveAtOnce(o, m, b)
    PROVE  IInv'
<1>1. TypeOK /\ Core
  BY DEF IInv
<1>2. /\ Core' /\ Begun(o, m) /\ op'[o].pc = "end" /\ op'[o].base = b
      /\ op'[o].fresh <=> (Active(doc[m]) # None /\ Active(doc[m]).owner = b)
  BY <1>1, DiveBeginsAtOnce
<1>3. /\ o \in Ops /\ o \notin Runs /\ op[o].pc = "new"
      /\ deepening' = deepening /\ running' = running /\ meta' = meta
      /\ Orphans(o, m) /\ superseded' = superseded \cup InFlight(m)
      /\ doc' \in {doc, Merged(o, m)}
  BY OpsAssumption DEF DiveAtOnce, DiveBegins, Ops
<1>4. gens' \in [Matches -> Nat]
  <2>1. gens[m] + 1 \in Nat /\ gens \in [Matches -> Nat]
    BY <1>1 DEF TypeOK
  <2>2. [gens EXCEPT ![m] = gens[m] + 1] \in [Matches -> Nat]
    BY <2>1
  <2>3. gens' = Reaped([gens EXCEPT ![m] = gens[m] + 1], running, deepening, m)
    BY DEF DiveAtOnce
  <2> QED
    BY <2>2, <2>3 DEF Reaped
<1> DEFINE r == DiveResult(o, m)
           k0 == doc[m].last
<1>5. \/ doc' = doc
      \/ Active(doc[m]) # None /\ k0 \in Slots /\ r \in Results /\ Writes(m, k0, r)
  BY <1>2, <1>3, MergedEffect
<1>6. ASSUME Active(doc[m]) # None PROVE Fine(r, m)
  <2>1. r.by = o /\ r.owner = Active(doc[m]).owner /\ r.findings = b
    BY <1>2 DEF DiveResult
  <2> QED
    BY <2>1, <1>2, <1>6 DEF Fine
<1> HIDE DEF r, k0
<1>7. /\ doc' \in [Matches -> Docs \cup {None}]
      /\ \A n \in Matches \ {m} : doc'[n] = doc[n]
      /\ \A n \in Matches, k \in Slots :
            (doc'[n] # None /\ doc'[n].slots[k] # None) =>
               \/ doc[n] # None /\ doc'[n].slots[k] = doc[n].slots[k]
               \/ Fine(doc'[n].slots[k], n)
  <2>1. CASE doc' = doc
    BY <2>1, <1>1 DEF TypeOK, Docs
  <2>2. CASE k0 \in Slots /\ r \in Results /\ Writes(m, k0, r) /\ Fine(r, m)
    <3>1. /\ doc' \in [Matches -> Docs \cup {None}]
          /\ \A n \in Matches \ {m} : doc'[n] = doc[n]
          /\ \A n \in Matches, j \in Slots :
                (doc'[n] # None /\ doc'[n].slots[j] # None) =>
                   \/ doc[n] # None /\ doc'[n].slots[j] = doc[n].slots[j]
                   \/ n = m /\ doc'[n].slots[j] = r
      BY <2>2, WriteEffect
    <3> QED
      BY <2>2, <3>1
  <2> QED
    BY <2>1, <2>2, <1>5, <1>6
<1>8. /\ deepening' \subseteq Matches /\ running' \in [Matches -> Nat]
      /\ meta' \in [Matches -> [retrying : BOOLEAN, reviewing : BOOLEAN] \cup {None}]
  BY <1>1, <1>3 DEF TypeOK
<1>9. ~Flying(o)'
  BY <1>2 DEF Flying
<1> QED
  BY <1>2, <1>3, <1>4, <1>7, <1>8, <1>9, BeginStep

\* A call that goes on, or a superseded run whose call throws.
LEMMA OthersStep ==
    ASSUME IInv, Core', NEW o \in Ops, Flying(o), Kept(o),
           op'[o].pc # "new",
           meta' \in [Matches -> [retrying : BOOLEAN, reviewing : BOOLEAN] \cup {None}],
           UNCHANGED <<gens, running, deepening, doc, superseded, orphaned>>
    PROVE  IInv'
<1>1. TypeOK
  BY DEF IInv
<1>2. TypeOK'
  BY <1>1 DEF TypeOK, Kept
<1>3. \A p \in Ops : /\ op'[p].match = op[p].match
                     /\ op[p].pc = "end" => op'[p] = op[p]
  BY DEF Kept, Flying
<1>4. Haunted \subseteq Haunted'
  BY <1>1, <1>3 DEF Haunted, TypeOK
<1>5. NamedOK' /\ HandedOK'
  BY <1>4, NamedStep, HandedStep DEF Flying
<1>6. WrittenOK' /\ SlotIsOneAnalysis'
  BY <1>2, <1>3, <1>4, WrittenStep
<1> QED
  BY <1>2, <1>5, <1>6 DEF IInv

LEMMA RunStep ==
    ASSUME IInv, NEW o \in Runs,
           RunStale(o) \/ RunRetry(o) \/ RunReview(o) \/ RunFinish(o) \/ RunThrow(o)
    PROVE  IInv'
<1>0. TypeOK /\ Core /\ o \in Ops
  BY DEF IInv, Ops
<1>1. CASE RunStale(o)
  BY <1>1, RunEnds DEF RunStale
<1>2. CASE RunRetry(o) \/ RunReview(o)
  <2>1. /\ Core' /\ Kept(o) /\ Flying(o) /\ op'[o].pc # "new"
        /\ meta' \in [Matches -> [retrying : BOOLEAN, reviewing : BOOLEAN] \cup {None}]
    BY <1>0, <1>2, RunGoesOn
  <2>2. UNCHANGED <<gens, running, deepening, doc, superseded, orphaned>>
    BY <1>2 DEF RunRetry, RunReview
  <2> QED
    BY <1>0, <2>1, <2>2, OthersStep
<1>3. CASE RunFinish(o)
  <2>1. /\ Suspended(o) /\ IsCurrent(o) /\ ClearRunning(o) /\ Leave(o, "done")
        /\ UNCHANGED <<deepening, superseded>>
    BY <1>3 DEF RunFinish, Finish
  <2>2. doc' = doc \/ Writes(op[o].match, op[o].slot, RunResult(o))
    BY <1>3 DEF RunFinish, Finish, Writes, RunResult
  <2> QED
    BY <2>1, <2>2, RunEnds
<1>4. CASE RunThrow(o)
  <2>1. Suspended(o) /\ UNCHANGED <<deepening, doc, superseded>>
    BY <1>4 DEF RunThrow, Suspended
  <2>2. CASE IsCurrent(o)
    <3>1. ClearRunning(o) /\ Leave(o, "error")
      BY <1>4, <2>2 DEF RunThrow
    <3> QED
      BY <2>1, <2>2, <3>1, RunEnds
  <2>3. CASE ~IsCurrent(o)
    <3>1. Leave(o, "threw") /\ UNCHANGED <<gens, running, meta, orphaned>>
      BY <1>4, <2>3 DEF RunThrow
    <3>2. Core'
      BY <1>0, <2>1, <2>3, <3>1, RunThrowsStale
    <3>3. Kept(o) /\ op'[o].pc = "end"
      BY <1>0, <3>1, LeaveEffect DEF TypeOK
    <3>4. meta' \in [Matches -> [retrying : BOOLEAN, reviewing : BOOLEAN] \cup {None}]
      BY <1>0, <3>1 DEF TypeOK
    <3>5. Flying(o)
      BY <2>1 DEF Suspended, Flying
    <3> QED
      BY <1>0, <2>1, <3>1, <3>2, <3>3, <3>4, <3>5, OthersStep
  <2> QED
    BY <2>2, <2>3
<1> QED
  BY <1>1, <1>2, <1>3, <1>4

LEMMA DiveStep ==
    ASSUME IInv, NEW o \in Dives, DiveStale(o) \/ DiveRepair(o) \/ DiveFinish(o)
    PROVE  IInv'
<1>0. TypeOK /\ Core /\ o \in Ops
  BY DEF IInv, Ops
<1>1. CASE DiveStale(o)
  BY <1>1, DiveEnds DEF DiveStale
<1>2. CASE DiveRepair(o)
  <2>1. Core' /\ Kept(o) /\ op'[o].pc # "new"
    BY <1>0, <1>2, DiveRepairs
  <2>2. /\ Flying(o) /\ meta' = meta
        /\ UNCHANGED <<gens, running, deepening, doc, superseded, orphaned>>
    BY <1>2 DEF DiveRepair, Flying
  <2>3. meta' \in [Matches -> [retrying : BOOLEAN, reviewing : BOOLEAN] \cup {None}]
    BY <1>0, <2>2 DEF TypeOK
  <2> QED
    BY <1>0, <2>1, <2>2, <2>3, OthersStep
<1>3. CASE DiveFinish(o)
  <2>1. /\ op[o].pc \in {"dive", "repair"} /\ IsCurrent(o) /\ Leave(o, "done")
        /\ doc' \in {doc, Merged(o, op[o].match)} /\ Surface(o, op[o].match)
        /\ UNCHANGED <<running, meta, superseded>>
    BY <1>3 DEF DiveFinish
  <2> QED
    BY <2>1, DiveEnds
<1> QED
  BY <1>1, <1>2, <1>3

LEMMA CancelStep ==
    ASSUME IInv, CancelAll \/ \E m \in Matches : CancelOne(m)
    PROVE  IInv'
<1>0. TypeOK /\ Core
  BY DEF IInv
<1>1. PICK M \in SUBSET Matches :
         /\ gens' = [m \in Matches |-> IF m \in M /\ gens[m] # 0 THEN gens[m] + 1 ELSE gens[m]]
         /\ running' = [m \in Matches |-> IF m \in M THEN 0 ELSE running[m]]
         /\ meta' = [m \in Matches |-> IF m \in M THEN None ELSE meta[m]]
         /\ superseded' = superseded \cup UNION {InFlight(m) : m \in M}
         /\ UNCHANGED <<deepening, doc, op, orphaned>>
  <2>1. CASE CancelAll
    <3>1. gens' = [m \in Matches |-> IF m \in Matches /\ gens[m] # 0 THEN gens[m] + 1 ELSE gens[m]]
      BY <2>1, <1>0 DEF CancelAll, TypeOK
    <3>2. /\ running' = [m \in Matches |-> IF m \in Matches THEN 0 ELSE running[m]]
          /\ meta' = [m \in Matches |-> IF m \in Matches THEN None ELSE meta[m]]
      BY <2>1 DEF CancelAll
    <3>3. superseded' = superseded \cup UNION {InFlight(m) : m \in Matches}
          /\ UNCHANGED <<deepening, doc, op, orphaned>>
      BY <2>1 DEF CancelAll
    <3> QED
      BY <3>1, <3>2, <3>3
  <2>2. CASE \E n \in Matches : CancelOne(n)
    <3>1. PICK n \in Matches : CancelOne(n)
      BY <2>2
    <3>2. gens' = [m \in Matches |-> IF m \in {n} /\ gens[m] # 0 THEN gens[m] + 1 ELSE gens[m]]
      BY <3>1, <1>0 DEF CancelOne, TypeOK
    <3>3. /\ running' = [m \in Matches |-> IF m \in {n} THEN 0 ELSE running[m]]
          /\ meta' = [m \in Matches |-> IF m \in {n} THEN None ELSE meta[m]]
      BY <3>1, <1>0 DEF CancelOne, TypeOK
    <3>4. superseded' = superseded \cup UNION {InFlight(m) : m \in {n}}
          /\ UNCHANGED <<deepening, doc, op, orphaned>>
      BY <3>1 DEF CancelOne
    <3> QED
      BY <3>2, <3>3, <3>4
  <2> QED
    BY <2>1, <2>2
<1>2. Core' /\ superseded \subseteq superseded' /\ superseded' \subseteq Ops
  BY <1>0, <1>1, Cancels
<1>3. TypeOK'
  <2>1. gens' \in [Matches -> Nat] /\ running' \in [Matches -> Nat]
    BY <1>0, <1>1 DEF TypeOK
  <2>2. meta' \in [Matches -> [retrying : BOOLEAN, reviewing : BOOLEAN] \cup {None}]
    BY <1>0, <1>1 DEF TypeOK
  <2> QED
    BY <1>0, <1>1, <1>2, <2>1, <2>2 DEF TypeOK
<1>4. Haunted \subseteq Haunted'
  BY <1>1, <1>2 DEF Haunted
<1>5. NamedOK' /\ WrittenOK' /\ SlotIsOneAnalysis'
  BY <1>1 DEF IInv, NamedOK, WrittenOK, SlotIsOneAnalysis
<1>6. HandedOK'
  BY <1>1, <1>2, <1>4 DEF IInv, HandedOK, Flying, Active
<1> QED
  BY <1>2, <1>3, <1>5, <1>6 DEF IInv

LEMMA StepOK == IInv /\ [Next]_vars => IInv'
<1> SUFFICES ASSUME IInv, [Next]_vars PROVE IInv'
  OBVIOUS
<1>1. ASSUME NEW o \in Runs, RunNext(o) PROVE IInv'
  BY <1>1, RunStartStep, RunAtOnceStep, RunStep DEF RunNext
<1>2. ASSUME NEW d \in Dives, DiveNext(d) PROVE IInv'
  BY <1>2, DiveStartStep, DiveAtOnceStep, DiveStep DEF DiveNext, Shown
<1>3. ASSUME CancelAll \/ \E m \in Matches : CancelOne(m) PROVE IInv'
  BY <1>3, CancelStep
<1>4. CASE UNCHANGED vars
  BY <1>4 DEF vars, IInv, TypeOK, Core, CallsOK, CallOK, NumbersOK, NumberOK, OneCurrent,
     OrphansOK, OwnersOK, DivesOK, EntryOK, RunningIsTrue, LatestIsDelivered,
     SupersededIsSilent, NamedOK, HandedOK, WrittenOK, SlotIsOneAnalysis, Flying, Haunted,
     Active
<1> QED
  BY <1>1, <1>2, <1>3, <1>4 DEF Next

\* The invariant holds of every reachable state.
THEOREM Invariance == Spec => []IInv
<1> QED
  BY InitOK, StepOK, PTL DEF Spec

\* Type correctness of the analysis service.
THEOREM TypeCorrect == Spec => []TypeOK
<1>1. IInv => TypeOK
  BY DEF IInv
<1> QED
  BY <1>1, Invariance, PTL

\* A superseded call leaves without a result: main/analysis.ts checks the
\* generation after every await. Nothing is claimed of a call that was in flight
\* when the generation entry of its match was reclaimed.
THEOREM SupersededIsSilentHolds == Spec => []SupersededIsSilent
<1>1. IInv => SupersededIsSilent
  BY DEF IInv, Core
<1> QED
  BY <1>1, Invariance, PTL

\* A call nobody superseded delivers: the entry it compares itself with is not
\* reclaimed under it. Nothing is claimed of a match on which a superseded call
\* survived a reclaim (cancel during a run, then a dive that ends).
THEOREM LatestIsDeliveredHolds == Spec => []LatestIsDelivered
<1>1. IInv => LatestIsDelivered
  BY DEF IInv, Core
<1> QED
  BY <1>1, Invariance, PTL

\* What a panel that mounts during a run is told is true of a run in flight, or
\* is what a superseded run left behind when its call threw (analysis.ts:1031).
THEOREM RunningIsTrueHolds == Spec => []RunningIsTrue
<1>1. IInv => RunningIsTrue
  BY DEF IInv, Core
<1> QED
  BY <1>1, Invariance, PTL

\* A match with nothing in flight keeps no entry in any of the maps, unless the
\* call of a superseded run of it threw (analysis.ts:1031).
THEOREM QuietLeavesNothingHolds == Spec => []QuietLeavesNothing
<1>1. IInv => QuietLeavesNothing
  <2> SUFFICES ASSUME IInv, NEW m \in Matches, InFlight(m) = {},
                      \A o \in Runs : op[o].match = m => op[o].ended # "threw"
               PROVE  gens[m] = 0 /\ running[m] = 0 /\ m \notin deepening
    BY DEF QuietLeavesNothing
  <2>1. \A o \in Ops : op[o].match = m => ~Flying(o) /\ op[o].pc = "end"
    BY DEF InFlight, Flying
  <2>2. m \notin deepening
    BY <2>1 DEF IInv, Core, DivesOK, Ops
  <2>3. running[m] = 0
    BY <2>1 DEF IInv, Core, RunningIsTrue, Ops
  <2>4. \A o \in Dives : op[o].ended # "threw"
    BY DEF IInv, Core, CallsOK, CallOK, Ops
  <2>5. gens[m] = 0
    BY <2>1, <2>3, <2>4 DEF IInv, Core, EntryOK, Ops
  <2> QED
    BY <2>2, <2>3, <2>5
<1> QED
  BY <1>1, Invariance, PTL

\* A slot holds the findings of the run whose session and audit it holds, for
\* all the dives that began from the active result, on a match none of whose
\* calls was in flight when its generation entry was reclaimed.
THEOREM SlotIsOneAnalysisHolds == Spec => []SlotIsOneAnalysis
<1>1. IInv => SlotIsOneAnalysis
  BY DEF IInv
<1> QED
  BY <1>1, Invariance, PTL

=============================================================================
