------------------------------- MODULE Whatsapp -------------------------------
(***************************************************************************)
(* The digits of a WhatsApp number (src/src/modules/access/whatsapp.util): *)
(* the canonical form every row is written in, the aliases a lookup looks  *)
(* for, and which numbers are plausible.  A Brazilian mobile number of the *)
(* old form, 55, area code and eight digits from 6 to 9 on, is completed   *)
(* by a 9 after the area code; a landline has eight digits from 2 to 5 on. *)
(***************************************************************************)
EXTENDS Naturals, Sequences

Digit == 0..9

(* normalizeWhatsapp: a string of eight to fifteen digits. *)
Normalised == UNION {[1..n -> Digit] : n \in 8..15}

Brazilian(d) == d[1] = 5 /\ d[2] = 5

(* A 9 put in after the area code, and taken out. *)
Insert9(d) == [i \in 1..13 |-> IF i < 5 THEN d[i] ELSE IF i = 5 THEN 9 ELSE d[i - 1]]
Drop5(d)   == [i \in 1..12 |-> IF i < 5 THEN d[i] ELSE d[i + 1]]

OldMobile(d) == Len(d) = 12 /\ Brazilian(d) /\ d[5] \in 6..9

Canonical(d) == IF OldMobile(d) THEN Insert9(d) ELSE d

WhatsappAliases(d) ==
  LET canonical == Canonical(d)
  IN IF Len(canonical) = 13 /\ Brazilian(canonical) /\ canonical[5] = 9
     THEN {canonical, Drop5(canonical)}
     ELSE {canonical}

BR_DDD ==
  (11..19) \union {21, 22, 24, 27, 28} \union (31..35) \union {37, 38} \union (41..49)
    \union {51, 53, 54, 55} \union (61..69) \union {71, 73, 74, 75, 77, 79}
    \union (81..89) \union (91..99)

Mobile(d)   == Len(d) = 13 /\ d[5] = 9
Landline(d) == Len(d) = 12 /\ d[5] \in 2..5

(* assertPlausibleWhatsapp does not throw. *)
Plausible(d) ==
  /\ \E i \in 2..Len(d) : d[i] # d[1]
  /\ Brazilian(d) => 10 * d[3] + d[4] \in BR_DDD /\ (Mobile(d) \/ Landline(d))

(* parseWhatsapp, of what normalizeWhatsapp lets through. *)
Refused == <<>>
ParseWhatsapp(d) == IF Plausible(Canonical(d)) THEN Canonical(d) ELSE Refused
===============================================================================
