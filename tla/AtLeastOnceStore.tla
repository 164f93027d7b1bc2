-------------------------- MODULE AtLeastOnceStore --------------------------
(***************************************************************************)
(* What the offline storage promises its users: a record it accepted is    *)
(* pending until it was uploaded or, the storage being full, dropped; a    *)
(* restart may make an uploaded record pending again, and never loses one. *)
(***************************************************************************)
EXTENDS Naturals, FiniteSets

CONSTANT Record

VARIABLES accepted, pending, uploaded, lost

storeVars == <<accepted, pending, uploaded, lost>>

StoreInit == /\ accepted = {}
             /\ pending = {}
             /\ uploaded = {}
             /\ lost = {}

Accept(r) == /\ r \notin accepted
             /\ accepted' = accepted \cup {r}
             /\ pending' = pending \cup {r}
             /\ UNCHANGED <<uploaded, lost>>

(* The record may have been dropped while its upload was under way.        *)
Upload(r) == /\ r \in accepted
             /\ uploaded' = uploaded \cup {r}
             /\ pending' = pending \ {r}
             /\ UNCHANGED <<accepted, lost>>

(* Makes room: S was pending or had been uploaded.                         *)
Drop(S) == /\ S # {}
           /\ S \subseteq pending \cup uploaded
           /\ lost' = lost \cup S
           /\ pending' = pending \ S
           /\ UNCHANGED <<accepted, uploaded>>

(* Forgets which of the records that are still stored were uploaded.       *)
Forget(S) == /\ S # {}
             /\ S \subseteq uploaded \ pending
             /\ pending' = pending \cup S
             /\ UNCHANGED <<accepted, uploaded, lost>>

StoreNext == \/ \E r \in Record : Accept(r) \/ Upload(r)
             \/ \E S \in SUBSET Record : Drop(S) \/ Forget(S)

StoreSpec == StoreInit /\ [][StoreNext]_storeVars

(* Nothing accepted is forgotten, and nothing is made up. *)
Conserved == accepted = pending \cup uploaded \cup lost
=============================================================================
