------------------------------ MODULE Database ------------------------------
(***************************************************************************)
(* What eidosd promises its clients: a map from names to collections.  A    *)
(* collection appears empty, gains points and disappears as a whole.  A     *)
(* stop and a restart of the server (`up`) take nothing away; a creation    *)
(* that a stop has cut off may still succeed.  Nothing is promised of the   *)
(* names in `unsure`, which only grows: those whose creates and drops       *)
(* overlapped, that a restart failed to load, or whose index took a write   *)
(* on top of a failed one or was renumbered by a compaction.                *)
(***************************************************************************)
CONSTANTS Names, Metas, None

VARIABLES colls, up, unsure

Init ==
    /\ colls \in [Names -> {None} \cup [meta : Metas, points : {{}}]]
    /\ up = TRUE /\ unsure = {}

Create(n) == colls[n] = None /\ \E m \in Metas : colls'[n] = [meta |-> m, points |-> {}]
Drop(n) == colls'[n] = None
Put(n) ==
    /\ colls[n] # None /\ colls'[n] # None
    /\ colls'[n].meta = colls[n].meta
    /\ colls[n].points \subseteq colls'[n].points

Changes(n) ==
    \/ Create(n) \/ colls'[n] = colls[n]
    \/ up /\ up' /\ (Drop(n) \/ Put(n))

Next ==
    /\ unsure \subseteq unsure'
    /\ \A n \in Names \ unsure' : Changes(n)

Spec == Init /\ [][Next]_<<colls, up, unsure>>
=============================================================================
