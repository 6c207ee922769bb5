------------------------------ MODULE MC_Stats ------------------------------
(* Instances of Stats for TLC. *)
EXTENDS Stats

CONSTANTS A

(* Two courses that both have a module "M1"; a card that comes from one module and cites
   another, a card without origin that cites two, and one of the other course. *)
M(course, code) == [course |-> course, code |-> code]
ThreeModules == {M("a", "M1"), M("a", "M2"), M("b", "M1")}
ThreeCards ==
  [x |-> [course |-> "a", origin |-> M("a", "M1"), cites |-> <<M("a", "M2")>>],
   e |-> [course |-> "a", origin |-> NoModule, cites |-> <<M("a", "M2"), M("a", "M1")>>],
   l |-> [course |-> "b", origin |-> NoModule, cites |-> <<M("b", "M1")>>]]

WholePool == {Ids}

(* Everybody in one manada; a student alone in it, one without and an administrator. *)
User(admin, manada) == [admin |-> admin, manada |-> manada]
TwoProfiles == {<<User(FALSE, A), User(FALSE, A), User(FALSE, A)>>,
                <<User(FALSE, A), User(FALSE, NoManada), User(TRUE, NoManada)>>}
=============================================================================
