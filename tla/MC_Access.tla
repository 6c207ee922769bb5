------------------------------ MODULE MC_Access ------------------------------
(* Instances of Access for TLC: a mobile number and the landline among its aliases. *)
EXTENDS Access, Whatsapp, TLC

CONSTANTS r1, r2, mobile, landline, spelling, e1, e2

Digits == (mobile :> <<5, 5, 4, 3, 9, 3, 3, 2, 2, 1, 1, 0, 0>>)
       @@ (landline :> <<5, 5, 4, 3, 3, 3, 2, 2, 1, 1, 0, 0>>)

OneLanded == (mobile :> {mobile, landline}) @@ (landline :> {landline})

(* The aliases are those of the digits, which parseWhatsapp lets through as they are. *)
ASSUME MCAssumption ==
  \A n \in Numbers :
    /\ ParseWhatsapp(Digits[n]) = Digits[n]
    /\ Aliases[n] = {m \in Numbers : Digits[m] \in WhatsappAliases(Digits[n])}

OneLocation == [s \in Spellings |-> "location"]

Symmetry == Permutations(Requests) \union Permutations(Emails)
=============================================================================
