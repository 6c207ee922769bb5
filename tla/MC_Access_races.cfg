\* Two requests at once for a mobile number and a landline it finds too, two emails and one
\* manada.
CONSTANTS
  r1 = r1  r2 = r2  mobile = mobile  landline = landline  spelling = spelling  e1 = e1  e2 = e2
  Requests = {r1, r2}
  Numbers = {mobile, landline}
  Aliases <- OneLanded
  Emails = {e1, e2}
  Seeded = {landline}
  Spellings = {spelling}
  Location <- OneLocation
  MaxRows = 2
SPECIFICATION Spec
SYMMETRY Symmetry
INVARIANTS RegisteredWasLetIn ApprovedHasCause ReviewMatchesStatus ReferencesActive OnlySeedSeesConflict
PROPERTY VerdictStands
