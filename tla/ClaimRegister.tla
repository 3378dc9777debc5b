---------------------------- MODULE ClaimRegister ----------------------------
(***************************************************************************)
(* What the claims of one task promise their readers, with no importer,    *)
(* transaction, query or file in sight: a register of slots, each with the *)
(* claim that holds it and where its review stands, a trail that is only   *)
(* ever extended, and deliveries.                                          *)
(*                                                                         *)
(* An import fills any slots with new claims.  A decision is one step that *)
(* records a word on every claim it is about, and gives that status to     *)
(* those that still hold their slots; a claim that came to such a slot in  *)
(* between keeps its own or gets it too.  Where an import has emptied the  *)
(* slots it only records; never some of both.  A delivery is the register  *)
(* as it was at one moment, when every claim was approved, with all that   *)
(* the trail then said of its slots.                                       *)
(***************************************************************************)
EXTENDS Naturals, Sequences, Functions

VARIABLES
  register,   \* slot -> the claim that holds it (of) and its status
  issued,     \* all claims there ever were, by what they came with
  trail,      \* the records, oldest first: slot, claim and status
  preparing,  \* the delivery in preparation, if there is one
  delivered   \* the last delivery, if there is one

vars == <<register, issued, trail, preparing, delivered>>

Init ==
  /\ register = [i \in {} |-> "empty"] /\ issued = {} /\ trail = <<>>
  /\ preparing = {} /\ delivered = {}

Import ==
  /\ issued \subseteq issued'
  /\ \A i \in DOMAIN register' : /\ register'[i].of \in issued' \ issued
                                 /\ register'[i].status \in {"pending", "approved"}
  /\ UNCHANGED <<trail, preparing, delivered>>

\* The trail is extended by one record for each slot that is decided on.
Added == DOMAIN trail' \ DOMAIN trail
Decided == {trail'[n].claim : n \in Added}

Audit ==
  /\ \A n \in DOMAIN trail : n \in DOMAIN trail' /\ trail'[n] = trail[n]
  /\ \A n \in Added : trail'[n].of \in issued
  /\ \A m, n \in Added : trail'[m].claim = trail'[n].claim => m = n

\* What a recorded word makes of the slot it names.
Marked(slot, word) ==
  {[slot EXCEPT !.status = word.status]} \cup (IF word.of = slot.of THEN {} ELSE {slot})

Decide ==
  /\ preparing = {}
  /\ Audit /\ Decided \subseteq DOMAIN register
  /\ DOMAIN register' = DOMAIN register
  /\ \A n \in Added : LET i == trail'[n].claim IN register'[i] \in Marked(register[i], trail'[n])
  /\ \A i \in DOMAIN register \ Decided : register'[i] = register[i]
  /\ UNCHANGED <<issued, preparing, delivered>>

DecideTooLate ==
  /\ preparing = {}
  /\ Audit /\ Decided \cap DOMAIN register = {}
  /\ UNCHANGED <<register, issued, preparing, delivered>>

Snapshot ==
  [claims |-> {[claim |-> i, of |-> register[i].of] : i \in DOMAIN register},
   records |-> {r \in Range(trail) : r.claim \in DOMAIN register}]

AllApproved == \A i \in DOMAIN register : register[i].status = "approved"

Prepare ==
  /\ preparing = {} /\ AllApproved
  /\ preparing' = {Snapshot}
  /\ UNCHANGED <<register, issued, trail, delivered>>

Deliver ==
  /\ preparing # {}
  /\ delivered' = preparing /\ preparing' = {}
  /\ UNCHANGED <<register, issued, trail>>

\* What was prepared is never delivered.
Abandon ==
  /\ preparing' = {}
  /\ UNCHANGED <<register, issued, trail, delivered>>

Next == Import \/ Decide \/ DecideTooLate \/ Prepare \/ Deliver \/ Abandon

Spec == Init /\ [][Next]_vars
=============================================================================
