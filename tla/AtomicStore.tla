----------------------------- MODULE AtomicStore -----------------------------
(***************************************************************************)
(* What the match store promises its users, whatever happens between two   *)
(* system calls: a match is on disk as a whole or not at all; it is never  *)
(* replaced or removed while it is whole, except by damage from outside;   *)
(* the library of a running application starts with every match that is    *)
(* whole, nothing enters it that is not on disk, and nothing leaves it.    *)
(***************************************************************************)
EXTENDS Naturals

CONSTANT Ids

VARIABLES disk,      \* each match: absent, stored, or damaged
          library,   \* the matches the running application shows
          damages    \* how often the disk was damaged from outside

vars == <<disk, library, damages>>

TypeOK == /\ disk \in [Ids -> {"absent", "damaged", "stored"}]
          /\ library \subseteq Ids
          /\ damages \in Nat

Stored == {id \in Ids : disk[id] = "stored"}
Present == {id \in Ids : disk[id] # "absent"}

Init == disk = [id \in Ids |-> "absent"] /\ library = {} /\ damages = 0

(* A match appears with all its files, where there is nothing. *)
Put(id) == /\ disk[id] = "absent"
           /\ disk' = [disk EXCEPT ![id] = "stored"]
           /\ UNCHANGED <<library, damages>>

List(id) == /\ disk[id] # "absent"
            /\ library' = library \cup {id}
            /\ UNCHANGED <<disk, damages>>

(* Only what is damaged is taken away. *)
Clear(id) == /\ disk[id] = "damaged"
             /\ disk' = [disk EXCEPT ![id] = "absent"]
             /\ UNCHANGED <<library, damages>>

Damage(id) == /\ disk[id] = "stored"
              /\ disk' = [disk EXCEPT ![id] = "damaged"]
              /\ damages' = damages + 1
              /\ UNCHANGED library

Stop == library' = {} /\ UNCHANGED <<disk, damages>>

(* The library of a new run: all that is whole, and perhaps what is there  *)
(* and damaged.                                                            *)
Load == /\ library = {}
        /\ library' \in SUBSET Present
        /\ Stored \subseteq library'
        /\ UNCHANGED <<disk, damages>>

Next == \/ \E id \in Ids : Put(id) \/ List(id) \/ Clear(id) \/ Damage(id)
        \/ Stop \/ Load

Spec == Init /\ [][Next]_vars
=============================================================================
