------------------------------- MODULE Manadas -------------------------------
(***************************************************************************)
(* The manadas of the tenant (src/src/modules/manadas) and findOrCreate,   *)
(* which the public route, the registration and the access request call.   *)
(*                                                                         *)
(* The unique index tells two spellings of one location apart, while       *)
(* findByLocation ignores case: a row is known by its spelling, and        *)
(* Location says which spellings are found together.                       *)
(***************************************************************************)
EXTENDS Naturals, FiniteSets

CONSTANTS
  Requests,   \* request slots: bounds how many handlers run at once
  Spellings,  \* a name, country, state and city as normalised before the lookup
  Location    \* the location each spelling stands for, case ignored

ASSUME ManadasAssumption == DOMAIN Location = Spellings

VARIABLES
  manadas,    \* for each spelling: no row, a soft-deleted one, an active one
  call        \* for each request: where its findOrCreate is

Free  == [at |-> "free"]
Calls ==
  {Free}
    \union [at : {"find", "create", "refind", "conflict"}, input : Spellings, seed : BOOLEAN]
    \union [at : {"restore", "found"}, row : Spellings]

ManadasTypeOK ==
  /\ manadas \in [Spellings -> {"absent", "deleted", "active"}]
  /\ call \in [Requests -> Calls]

(* Rows may be there from before, soft-deleted ones among them. *)
ManadasInit ==
  /\ manadas \in [Spellings -> {"absent", "deleted", "active"}]
  /\ call = [r \in Requests |-> Free]

ActiveManadas == {m \in Spellings : manadas[m] = "active"}

FindByLocation(s) == {m \in Spellings : manadas[m] # "absent" /\ Location[m] = Location[s]}

(* findOrCreate is called; the seed has the same steps without the catch. *)
FindOrCreate(r, s, isSeed) ==
  /\ call[r] = Free
  /\ call' = [call EXCEPT ![r] = [at |-> "find", input |-> s, seed |-> isSeed]]
  /\ UNCHANGED manadas

(* Mutant: a soft-deleted row is returned as it is. *)
FindManada_KeepsDeleted(r) ==
  /\ call[r].at \in {"find", "refind"}
  /\ LET rows == FindByLocation(call[r].input)
     IN \/ \E m \in rows : call' = [call EXCEPT ![r] = [at |-> "found", row |-> m]]
        \/ /\ rows = {}
           /\ call' = [call EXCEPT ![r].at = IF @ = "find" THEN "create" ELSE "conflict"]
  /\ UNCHANGED manadas

(* Any row of the location may come first.  It is returned, or restored if soft-deleted;
   without one a row is created, or, the second time, the conflict thrown on. *)
FindManada(r) ==
  /\ call[r].at \in {"find", "refind"}
  /\ LET rows == FindByLocation(call[r].input)
     IN \/ \E m \in rows :
             call' = [call EXCEPT ![r] =
                        [at |-> IF manadas[m] = "deleted" THEN "restore" ELSE "found",
                         row |-> m]]
        \/ /\ rows = {}
           /\ call' = [call EXCEPT ![r].at = IF @ = "find" THEN "create" ELSE "conflict"]
  /\ UNCHANGED manadas

(* Mutant: the conflict of the unique index is not caught. *)
CreateManada_NoCatch(r) ==
  /\ call[r].at = "create"
  /\ LET s == call[r].input
     IN IF manadas[s] = "absent"
        THEN /\ manadas' = [manadas EXCEPT ![s] = "active"]
             /\ call' = [call EXCEPT ![r] = [at |-> "found", row |-> s]]
        ELSE /\ call' = [call EXCEPT ![r].at = "conflict"]
             /\ UNCHANGED manadas

(* The row is inserted unless another request inserted one spelt alike, which is then
   looked up again. *)
CreateManada(r) ==
  /\ call[r].at = "create"
  /\ LET s == call[r].input
     IN IF manadas[s] = "absent"
        THEN /\ manadas' = [manadas EXCEPT ![s] = "active"]
             /\ call' = [call EXCEPT ![r] = [at |-> "found", row |-> s]]
        ELSE /\ call' = [call EXCEPT ![r].at = IF call[r].seed THEN "conflict" ELSE "refind"]
             /\ UNCHANGED manadas

RestoreManada(r) ==
  /\ call[r].at = "restore"
  /\ manadas' = [manadas EXCEPT ![call[r].row] = "active"]
  /\ call' = [call EXCEPT ![r].at = "found"]

ManadasStep(r) == FindManada(r) \/ CreateManada(r) \/ RestoreManada(r)

Return(r) == call' = [call EXCEPT ![r] = Free]
-----------------------------------------------------------------------------
(* However many requests create one manada at once, no caller but the seed is told of the
   conflict: after a refused insert the second lookup always finds the winner's row. *)
OnlySeedSeesConflict == \A r \in Requests : call[r].at = "conflict" => call[r].seed
=============================================================================
