----------------------------- MODULE AccessProofs -----------------------------
(***************************************************************************)
(* Proofs about Access, for any numbers, aliases, emails, spellings and    *)
(* number of concurrent requests.  That whoever registers was let in is    *)
(* not inductive: a handler goes on what an earlier statement found, and   *)
(* what that row stands for must hold until the account is written.        *)
(***************************************************************************)
EXTENDS Access, Whatsapp, SequenceTheorems, TLAPS

Released(n) == \E l \in letIn : Alike(n, l)

(* A row of the list was released, and an approval stands for a release. *)
ListInv     == \A n \in Numbers : allowed[n] # 0 => n \in letIn
ApprovalInv == \A n \in Numbers : request[n].status = "APPROVED" => Released(n)

(* A registration has an email; past the lookups of its number it is of a released one, past
   that of its manada it has an active one, and it marks requests once it has an account. *)
RegistrationInv(r) ==
  /\ req[r].at = "mark" => /\ req[r].op = "register"
                           /\ \E u \in users : u.whatsapp = req[r].whatsapp
  /\ req[r].at # "idle" /\ req[r].op = "register" =>
       /\ req[r].email \in Emails
       /\ req[r].at \in {"allowed", "request"} \/ Released(req[r].whatsapp)
       /\ req[r].at = "write" => req[r].manada \in ActiveManadas

(* What findOrCreate returns is active, and after a refused insert there is a row. *)
CallInv(r) ==
  /\ call[r].at = "found" => call[r].row \in ActiveManadas
  /\ call[r].at = "refind" => manadas[call[r].input] # "absent"
  /\ call[r].at = "conflict" => call[r].seed

SlotInv == \A r \in Requests : RegistrationInv(r) /\ CallInv(r)

IInv ==
  /\ TypeOK
  /\ ListInv /\ ApprovalInv /\ SlotInv
  /\ RegisteredWasLetIn /\ ReferencesActive /\ ApprovedHasCause /\ ReviewMatchesStatus

-----------------------------------------------------------------------------
LEMMA AlikeReflexive == \A n \in Numbers : Alike(n, n)
BY AccessAssumption DEF Alike

LEMMA AliasAlike == \A n \in Numbers : \A a \in Aliases[n] : a \in Numbers /\ Alike(n, a)
BY AccessAssumption DEF Alike

(* A number is released as soon as one alike it is. *)
LEMMA ReleasedAlike ==
  ASSUME letIn \subseteq Numbers, NEW m \in Numbers, NEW n \in Numbers, Alike(m, n), Released(n)
  PROVE  Released(m)
BY AccessAssumption DEF Released

LEMMA CallTypes ==
  ASSUME TypeOK, NEW r \in Requests
  PROVE  /\ call[r].at = "free" => call[r] = Free
         /\ call[r].at \in {"find", "create", "refind", "conflict"} =>
              call[r].input \in Spellings /\ call[r].seed \in BOOLEAN
         /\ call[r].at \in {"restore", "found"} => call[r].row \in Spellings
         /\ call[r] = Free => call[r].at = "free"
BY DEF TypeOK, ManadasTypeOK, Calls, Free

LEMMA ReqTypes ==
  ASSUME TypeOK, NEW r \in Requests, req[r].at # "idle"
  PROVE  /\ req[r] \in Locals
         /\ req[r].whatsapp \in Numbers
         /\ req[r].row \in 0..MaxRows
BY DEF TypeOK, Idle, Locals

-----------------------------------------------------------------------------
(* Types. *)
LEMMA TypesOfCalls ==
  ASSUME TypeOK, NEW r \in Requests
  PROVE  /\ ManadasStep(r) => ManadasTypeOK'
         /\ \A s \in Spellings, isSeed \in BOOLEAN : FindOrCreate(r, s, isSeed) => ManadasTypeOK'
         /\ Return(r) /\ UNCHANGED manadas => ManadasTypeOK'
<1>1. FindManada(r) => ManadasTypeOK'
  BY CallTypes DEF FindManada, FindByLocation, TypeOK, ManadasTypeOK, Calls
<1>2. CreateManada(r) => ManadasTypeOK'
  BY CallTypes DEF CreateManada, TypeOK, ManadasTypeOK, Calls
<1>3. RestoreManada(r) => ManadasTypeOK'
  BY CallTypes DEF RestoreManada, TypeOK, ManadasTypeOK, Calls
<1>4. \A s \in Spellings, isSeed \in BOOLEAN : FindOrCreate(r, s, isSeed) => ManadasTypeOK'
  BY DEF FindOrCreate, TypeOK, ManadasTypeOK, Calls
<1>5. Return(r) /\ UNCHANGED manadas => ManadasTypeOK'
  BY DEF Return, TypeOK, ManadasTypeOK, Calls, Free
<1> QED BY <1>1, <1>2, <1>3, <1>4, <1>5 DEF ManadasStep

LEMMA TypesOfStarts ==
  ASSUME TypeOK, NEW r \in Requests, NEW n \in Numbers, NEW e \in Emails \union {NoEmail},
         NEW row \in 0..MaxRows, NEW op \in {"check", "submit", "register", "approve", "reject", "remove"},
         NEW at \in {"user", "allowed", "write"}, Starts(r, op, at, n, e, row)
  PROVE  TypeOK'
BY DEF Starts, TypeOK, ManadasTypeOK, Locals, access, history

LEMMA TypesOfGoes ==
  ASSUME TypeOK, NEW r \in Requests, req[r].at # "idle",
         NEW next \in {"user", "allowed", "request", "manada", "write", "end"}, Goes(r, next)
  PROVE  TypeOK'
BY ReqTypes DEF Goes, TypeOK, ManadasTypeOK, Locals, access

LEMMA TypesOfWrites ==
  ASSUME TypeOK, NEW r \in Requests, req[r].at # "idle",
         NEW row \in [status : Statuses, reviewed : Verdicts \union {"none"}], WritesRequest(r, row)
  PROVE  /\ request' \in [Numbers -> [status : Statuses, reviewed : Verdicts \union {"none"}]]
         /\ DOMAIN req' = Requests
         /\ \A p \in Requests : req'[p] = Idle \/ req'[p] \in Locals
         /\ stale' \subseteq Requests
BY ReqTypes DEF WritesRequest, Readers, TypeOK

LEMMA TypesOfAllow ==
  ASSUME TypeOK, NEW n \in Numbers, Allow(n)
  PROVE  /\ allowed' \in [Numbers -> 0..MaxRows] /\ lastId' \in 0..MaxRows
         /\ letIn' \subseteq Numbers
BY AccessAssumption DEF Allow, TypeOK

LEMMA TypesOfHandler ==
  ASSUME TypeOK, SlotInv, NEW r \in Requests, Handler(r)
  PROVE  TypeOK'
<1>1. ASSUME NEW n \in Numbers,
             \/ CheckWhatsapp(r, n) \/ RequestAccess(r, n) \/ \E e \in Emails : Register(r, n, e)
             \/ RemoveRead(r, n) \/ \E op \in {"approve", "reject"} : ReviewRead(r, n, op)
      PROVE  TypeOK'
  <2>1. allowed[n] \in 0..MaxRows /\ 0 \in 0..MaxRows
    BY AccessAssumption DEF TypeOK
  <2> QED
    BY <1>1, <2>1, TypesOfStarts
       DEF CheckWhatsapp, RequestAccess, Register, RemoveRead, ReviewRead
<1>2. ASSUME NEW s \in Spellings, NEW isSeed \in BOOLEAN, CreatePublic(r, s, isSeed)
      PROVE  TypeOK'
  BY <1>2, TypesOfCalls DEF CreatePublic, TypeOK, access, history
<1>3. CASE FindUser(r)
  BY <1>3, TypesOfGoes DEF FindUser
<1>4. CASE FindAllowed(r)
  BY <1>4, TypesOfGoes DEF FindAllowed
<1>5. CASE FindRequest(r)
  <2>1. \A op, status : AfterRequest(op, status) \in {"write", "manada", "user", "end"}
    BY DEF AfterRequest
  <2>2. req[r].at # "idle"
    BY <1>5 DEF FindRequest
  <2> QED
    BY <1>5, <2>1, <2>2, ReqTypes
       DEF FindRequest, TypeOK, ManadasTypeOK, Locals, access
<1>6. CASE UpsertInterested(r)
  BY <1>6, TypesOfWrites, ReqTypes DEF UpsertInterested, TypeOK, ManadasTypeOK, Statuses
<1>7. CASE SubmitRequest(r)
  BY <1>7, TypesOfWrites, ReqTypes DEF SubmitRequest, TypeOK, ManadasTypeOK, Statuses
<1>8. CASE CreateStudent(r)
  BY <1>8, ReqTypes DEF CreateStudent, SlotInv, RegistrationInv, ActiveManadas, TypeOK, ManadasTypeOK, Locals, history
<1>9. CASE MarkRegistered(r)
  BY <1>9, ReqTypes DEF MarkRegistered, Readers, TypeOK, ManadasTypeOK, Statuses
<1>10. CASE ResolveManada(r)
  <2>1. req[r] \in Locals
    BY <1>10, ReqTypes DEF ResolveManada
  <2>2. CASE UNCHANGED req
    BY <1>10, <2>2, TypesOfCalls DEF ResolveManada, TypeOK, ManadasTypeOK, access, history
  <2>3. req' = [req EXCEPT ![r].at = "write"] =>
          /\ req'[r] \in Locals /\ DOMAIN req' = Requests
          /\ \A p \in Requests : p # r => req'[p] = req[p]
    BY <2>1 DEF TypeOK, Locals
  <2>4. ASSUME NEW m \in Spellings, req' = [req EXCEPT ![r].at = "write", ![r].manada = m]
        PROVE  /\ req'[r] \in Locals /\ DOMAIN req' = Requests
               /\ \A p \in Requests : p # r => req'[p] = req[p]
    BY <2>1, <2>4 DEF TypeOK, Locals
  <2>5. CASE ~UNCHANGED req
    <3>1. /\ req'[r] \in Locals /\ DOMAIN req' = Requests
          /\ \A p \in Requests : p # r => req'[p] = req[p]
      BY <1>10, <2>3, <2>4, <2>5 DEF ResolveManada, ActiveManadas
    <3> QED
      BY <1>10, <2>5, <3>1 DEF ResolveManada, TypeOK, ManadasTypeOK, access, history
  <2> QED BY <2>2, <2>5
<1>11. CASE TakeManada(r)
  <2>1. req[r] \in Locals /\ call[r].row \in Spellings
    BY <1>11, ReqTypes, CallTypes DEF TakeManada
  <2>2. req'[r] \in Locals /\ DOMAIN req' = Requests /\ \A p \in Requests : p # r => req'[p] = req[p]
    BY <1>11, <2>1 DEF TakeManada, TypeOK, Locals
  <2>3. ManadasTypeOK'
    BY <1>11, TypesOfCalls DEF TakeManada
  <2> QED BY <1>11, <2>2, <2>3 DEF TakeManada, TypeOK, access, history
<1>12. CASE RemoveAllowed(r)
  BY <1>12, ReqTypes, AccessAssumption DEF RemoveAllowed, TypeOK, ManadasTypeOK, history
<1>13. CASE Approve(r)
  <2>1. req[r].whatsapp \in Numbers /\ req[r].at # "idle"
    BY <1>13, ReqTypes DEF Approve
  <2> DEFINE row == [request[req[r].whatsapp] EXCEPT !.status = "APPROVED", !.reviewed = "APPROVED"]
  <2>2. row \in [status : Statuses, reviewed : Verdicts \union {"none"}]
    BY <2>1 DEF TypeOK, Statuses, Verdicts
  <2>3. WritesRequest(r, row) /\ Allow(req[r].whatsapp)
    BY <1>13 DEF Approve
  <2> HIDE DEF row
  <2> QED
    BY <1>13, <2>1, <2>2, <2>3, TypesOfWrites, TypesOfAllow DEF Approve, TypeOK, ManadasTypeOK
<1>14. CASE Reject(r)
  <2>1. req[r].whatsapp \in Numbers /\ req[r].at # "idle"
    BY <1>14, ReqTypes DEF Reject
  <2> DEFINE row == [request[req[r].whatsapp] EXCEPT !.status = "REJECTED", !.reviewed = "REJECTED"]
  <2>2. row \in [status : Statuses, reviewed : Verdicts \union {"none"}]
    BY <2>1 DEF TypeOK, Statuses, Verdicts
  <2>3. WritesRequest(r, row)
    BY <1>14 DEF Reject
  <2> HIDE DEF row
  <2> QED
    BY <1>14, <2>1, <2>2, <2>3, TypesOfWrites DEF Reject, TypeOK, ManadasTypeOK
<1>15. CASE ManadasStep(r) /\ UNCHANGED <<access, req, history>>
  BY <1>15, TypesOfCalls DEF TypeOK, access, history
<1>16. CASE Ends(r)
  BY <1>16, TypesOfCalls DEF Ends, TypeOK, access
<1> QED
  BY <1>1, <1>2, <1>3, <1>4, <1>5, <1>6, <1>7, <1>8, <1>9, <1>10, <1>11, <1>12, <1>13,
     <1>14, <1>15, <1>16 DEF Handler

LEMMA TypeStep == TypeOK /\ SlotInv /\ [Next]_vars => TypeOK'
<1> SUFFICES ASSUME TypeOK, SlotInv, [Next]_vars PROVE TypeOK'
  OBVIOUS
<1>1. ASSUME NEW n \in Numbers, AddAllowed(n) \/ SeedAllowed(n) PROVE TypeOK'
  BY <1>1, TypesOfAllow DEF AddAllowed, SeedAllowed, TypeOK, ManadasTypeOK
<1>2. CASE UNCHANGED vars
  BY <1>2 DEF vars, access, history, TypeOK, ManadasTypeOK
<1> QED BY <1>1, <1>2, TypesOfHandler DEF Next

(* What one handler does leaves the others' local variables alone. *)
LEMMA OneAtATime ==
  ASSUME TypeOK, NEW r \in Requests, Handler(r), NEW p \in Requests, p # r
  PROVE  req'[p] = req[p] /\ call'[p] = call[p]
<1>1. DOMAIN req = Requests /\ DOMAIN call = Requests
  BY DEF TypeOK, ManadasTypeOK
<1>2. \/ \E n \in Numbers :
           \/ CheckWhatsapp(r, n) \/ RequestAccess(r, n) \/ \E e \in Emails : Register(r, n, e)
           \/ RemoveRead(r, n) \/ \E op \in {"approve", "reject"} : ReviewRead(r, n, op)
      => req'[p] = req[p] /\ call'[p] = call[p]
  BY <1>1 DEF CheckWhatsapp, RequestAccess, Register, RemoveRead, ReviewRead, Starts
<1>3. ASSUME NEW s \in Spellings, NEW isSeed \in BOOLEAN, CreatePublic(r, s, isSeed)
      PROVE  req'[p] = req[p] /\ call'[p] = call[p]
  BY <1>1, <1>3 DEF CreatePublic, FindOrCreate
<1>4. \A next : Goes(r, next) => req'[p] = req[p] /\ call'[p] = call[p]
  BY <1>1 DEF Goes
<1>5. FindUser(r) \/ FindAllowed(r) \/ FindRequest(r) => req'[p] = req[p] /\ call'[p] = call[p]
  <2>1. FindUser(r) => \E next : Goes(r, next)
    BY DEF FindUser
  <2>2. FindAllowed(r) => \E next : Goes(r, next)
    BY DEF FindAllowed
  <2>3. FindRequest(r) => req'[p] = req[p] /\ call'[p] = call[p]
    BY <1>1 DEF FindRequest
  <2> QED BY <1>4, <2>1, <2>2, <2>3
<1>6. UpsertInterested(r) \/ SubmitRequest(r) \/ Approve(r) \/ Reject(r)
      => req'[p] = req[p] /\ call'[p] = call[p]
  BY <1>1 DEF UpsertInterested, SubmitRequest, Approve, Reject, WritesRequest
<1>7. CreateStudent(r) \/ MarkRegistered(r) \/ RemoveAllowed(r)
      => req'[p] = req[p] /\ call'[p] = call[p]
  BY <1>1 DEF CreateStudent, MarkRegistered, RemoveAllowed
<1>8. ResolveManada(r) \/ TakeManada(r) \/ Ends(r) => req'[p] = req[p] /\ call'[p] = call[p]
  BY <1>1 DEF ResolveManada, TakeManada, Ends, FindOrCreate, Return
<1>9. ManadasStep(r) /\ UNCHANGED <<access, req, history>>
      => req'[p] = req[p] /\ call'[p] = call[p]
  BY <1>1 DEF ManadasStep, FindManada, CreateManada, RestoreManada
<1> QED BY <1>2, <1>3, <1>5, <1>6, <1>7, <1>8, <1>9 DEF Handler

-----------------------------------------------------------------------------
(* A manada once there stays, and once active stays so; nobody is ever un-released, and no
   account is deleted. *)
LEMMA OnlyGrows ==
  ASSUME TypeOK, Next
  PROVE  /\ \A m \in Spellings : manadas[m] # "absent" => manadas'[m] # "absent"
         /\ ActiveManadas \subseteq ActiveManadas'
         /\ letIn \subseteq letIn' /\ users \subseteq users'
<1>1. ASSUME NEW n \in Numbers, AddAllowed(n) \/ SeedAllowed(n)
      PROVE  manadas' = manadas /\ letIn \subseteq letIn'
  BY <1>1 DEF AddAllowed, SeedAllowed, Allow
<1>2. ASSUME NEW r \in Requests, Handler(r)
      PROVE  letIn \subseteq letIn'
  <2>1. Approve(r) => letIn \subseteq letIn'
    BY DEF Approve, Allow
  <2>2. ~Approve(r) => letIn' = letIn
    BY <1>2 DEF Handler, CheckWhatsapp, RequestAccess, Register, RemoveRead, ReviewRead, Starts,
                CreatePublic, FindUser, FindAllowed, FindRequest, Goes, UpsertInterested,
                SubmitRequest, CreateStudent, MarkRegistered, ResolveManada, TakeManada,
                RemoveAllowed, Reject, Ends, history
  <2> QED BY <2>1, <2>2
<1>3. ASSUME NEW r \in Requests, Handler(r)
      PROVE  \A m \in Spellings : /\ manadas[m] # "absent" => manadas'[m] # "absent"
                                  /\ manadas[m] = "active" => manadas'[m] = "active"
  <2>1. CASE ManadasStep(r)
    <3>1. CASE FindManada(r)
      BY <3>1 DEF FindManada
    <3>2. CASE CreateManada(r)
      BY <3>2, CallTypes DEF CreateManada, TypeOK, ManadasTypeOK
    <3>3. CASE RestoreManada(r)
      BY <3>3, CallTypes DEF RestoreManada, TypeOK, ManadasTypeOK
    <3> QED BY <2>1, <3>1, <3>2, <3>3 DEF ManadasStep
  <2>2. CASE ~ManadasStep(r)
    <3>1. manadas' = manadas
      BY <1>3, <2>2
         DEF Handler, CheckWhatsapp, RequestAccess, Register, RemoveRead, ReviewRead, Starts,
             CreatePublic, FindOrCreate, FindUser, FindAllowed, FindRequest, Goes,
             UpsertInterested, SubmitRequest, CreateStudent, MarkRegistered, ResolveManada,
             TakeManada, RemoveAllowed, Approve, Reject, Ends
    <3> QED BY <3>1
  <2> QED BY <2>1, <2>2
<1>4. users \subseteq users'
  <2>1. ASSUME NEW r \in Requests, Handler(r) PROVE users \subseteq users'
    <3>1. CreateStudent(r) => users \subseteq users'
      BY DEF CreateStudent
    <3>2. ~CreateStudent(r) => users' = users
      BY <2>1
         DEF Handler, CheckWhatsapp, RequestAccess, Register, RemoveRead, ReviewRead, Starts,
             CreatePublic, FindUser, FindAllowed, FindRequest, Goes, UpsertInterested,
             SubmitRequest, MarkRegistered, ResolveManada, TakeManada, RemoveAllowed,
             Approve, Reject, Ends, access
    <3> QED BY <3>1, <3>2
  <2> QED BY <2>1 DEF Next, AddAllowed, SeedAllowed
<1> QED BY <1>1, <1>2, <1>3, <1>4 DEF Next, ActiveManadas

LEMMA StillReleased ==
  ASSUME TypeOK, Next, NEW n \in Numbers, Released(n)
  PROVE  Released(n)'
BY OnlyGrows DEF Released, Alike

(* The slot of the handler that takes the step keeps what it has to know... *)
LEMMA CallStep ==
  ASSUME IInv, NEW r \in Requests, Handler(r)
  PROVE  CallInv(r)'
<1> USE DEF IInv, SlotInv
<1>1. TypeOK /\ CallInv(r) /\ DOMAIN call = Requests
  BY DEF TypeOK, ManadasTypeOK
<1>2. Next /\ ActiveManadas \subseteq ActiveManadas'
  BY OnlyGrows DEF Next
<1>3. \A m \in Spellings : manadas[m] # "absent" => manadas'[m] # "absent"
  BY <1>2, OnlyGrows
<1>4. CASE call'[r] = call[r]
  BY <1>1, <1>2, <1>3, <1>4, CallTypes DEF CallInv
<1>5. CASE call'[r] = Free
  BY <1>5 DEF CallInv, Free
<1>6. CASE \E s \in Spellings, isSeed \in BOOLEAN : FindOrCreate(r, s, isSeed)
  BY <1>1, <1>6 DEF FindOrCreate, CallInv
<1>7. CASE FindManada(r)
  <2>1. \A m \in Spellings : manadas[m] \in {"absent", "deleted", "active"}
    BY <1>1 DEF TypeOK, ManadasTypeOK
  <2>2. CASE \E m \in FindByLocation(call[r].input) :
               call' = [call EXCEPT ![r] =
                          [at |-> IF manadas[m] = "deleted" THEN "restore" ELSE "found", row |-> m]]
    BY <1>1, <1>7, <2>1, <2>2 DEF FindManada, FindByLocation, CallInv, ActiveManadas
  <2>3. CASE /\ FindByLocation(call[r].input) = {}
             /\ call' = [call EXCEPT ![r].at = IF @ = "find" THEN "create" ELSE "conflict"]
    <3>1. call[r].at # "refind"
      BY <1>1, <2>3, CallTypes DEF FindByLocation, CallInv
    <3> QED BY <1>1, <1>7, <2>3, <3>1 DEF FindManada, CallInv
  <2> QED BY <1>7, <2>2, <2>3 DEF FindManada
<1>8. CASE CreateManada(r)
  <2>1. call[r].input \in Spellings /\ call[r].seed \in BOOLEAN
    BY <1>1, <1>8, CallTypes DEF CreateManada
  <2>2. call[r] \in [at : {"find", "create", "refind", "conflict"}, input : Spellings, seed : BOOLEAN]
    BY <1>1, <1>8 DEF CreateManada, TypeOK, ManadasTypeOK, Calls, Free
  <2>3. CASE manadas[call[r].input] = "absent"
    BY <1>1, <1>8, <2>1, <2>3 DEF CreateManada, CallInv, ActiveManadas, TypeOK, ManadasTypeOK
  <2>4. CASE manadas[call[r].input] # "absent" /\ call[r].seed
    <3>1. call' = [call EXCEPT ![r].at = "conflict"]
      BY <1>8, <2>4 DEF CreateManada
    <3> QED BY <1>1, <2>2, <2>4, <3>1 DEF CallInv
  <2>5. CASE manadas[call[r].input] # "absent" /\ ~call[r].seed
    <3>1. call' = [call EXCEPT ![r].at = "refind"] /\ manadas' = manadas
      BY <1>8, <2>5 DEF CreateManada
    <3> QED BY <1>1, <2>2, <2>5, <3>1 DEF CallInv
  <2> QED BY <2>3, <2>4, <2>5
<1>9. CASE RestoreManada(r)
  BY <1>1, <1>9, CallTypes DEF RestoreManada, CallInv, ActiveManadas, TypeOK, ManadasTypeOK
<1> QED
  BY <1>1, <1>4, <1>5, <1>6, <1>7, <1>8, <1>9
     DEF Handler, CheckWhatsapp, RequestAccess, Register, RemoveRead, ReviewRead, Starts,
         CreatePublic, FindUser, FindAllowed, FindRequest, Goes, UpsertInterested,
         SubmitRequest, CreateStudent, MarkRegistered, ResolveManada, TakeManada,
         RemoveAllowed, Approve, Reject, Ends, Return, ManadasStep

LEMMA RegistrationStep ==
  ASSUME IInv, NEW r \in Requests, Handler(r)
  PROVE  RegistrationInv(r)'
<1> USE DEF IInv, SlotInv
<1>1. TypeOK /\ RegistrationInv(r) /\ CallInv(r) /\ ListInv /\ ApprovalInv /\ DOMAIN req = Requests
  BY DEF TypeOK
<1>2. Next /\ ActiveManadas \subseteq ActiveManadas' /\ users \subseteq users'
  BY OnlyGrows DEF Next
<1>3. \A n \in Numbers : Released(n) => Released(n)'
  BY <1>1, <1>2, StillReleased
<1>4. CASE req'[r] = req[r]
  BY <1>1, <1>2, <1>3, <1>4, ReqTypes DEF RegistrationInv
<1>5. CASE req'[r] = Idle
  BY <1>5 DEF RegistrationInv, Idle
<1>6. ASSUME NEW n \in Numbers,
             \/ CheckWhatsapp(r, n) \/ RequestAccess(r, n) \/ \E e \in Emails : Register(r, n, e)
             \/ RemoveRead(r, n) \/ \E op \in {"approve", "reject"} : ReviewRead(r, n, op)
      PROVE  RegistrationInv(r)'
  BY <1>1, <1>6
     DEF CheckWhatsapp, RequestAccess, Register, RemoveRead, ReviewRead, Starts, RegistrationInv
<1>7. CASE FindUser(r)
  <2>1. req[r] \in Locals /\ req[r].whatsapp \in Numbers
    BY <1>7, ReqTypes DEF FindUser
  <2> QED BY <1>1, <1>2, <1>3, <1>5, <1>7, <2>1 DEF FindUser, Goes, RegistrationInv, Locals
<1>8. CASE FindAllowed(r)
  <2>1. req[r] \in Locals /\ req[r].whatsapp \in Numbers
    BY <1>8, ReqTypes DEF FindAllowed
  <2>2. OnList(req[r].whatsapp) => Released(req[r].whatsapp)
    BY <1>1, <2>1, AliasAlike DEF OnList, ListInv, Released
  <2> QED BY <1>1, <1>3, <1>5, <1>8, <2>1, <2>2 DEF FindAllowed, Goes, RegistrationInv, Locals
<1>9. CASE FindRequest(r)
  <2>1. req[r] \in Locals /\ req[r].whatsapp \in Numbers
    BY <1>9, ReqTypes DEF FindRequest
  <2>2. "APPROVED" \in FoundStatuses(req[r].whatsapp) => Released(req[r].whatsapp)
    <3> SUFFICES ASSUME "APPROVED" \in FoundStatuses(req[r].whatsapp)
                 PROVE  Released(req[r].whatsapp)
      OBVIOUS
    <3>1. PICK a \in Aliases[req[r].whatsapp] : request[a].status = "APPROVED"
      BY DEF FoundStatuses
    <3>2. a \in Numbers /\ Alike(req[r].whatsapp, a) /\ Released(a)
      BY <1>1, <2>1, <3>1, AliasAlike DEF ApprovalInv
    <3> QED BY <1>1, <2>1, <3>2, ReleasedAlike DEF TypeOK
  <2>3. PICK status \in FoundStatuses(req[r].whatsapp) :
          req' = [req EXCEPT ![r] = IF AfterRequest(req[r].op, status) = "end" THEN Idle
                                    ELSE [@ EXCEPT !.at = AfterRequest(req[r].op, status)]]
    BY <1>9 DEF FindRequest
  <2>4. AfterRequest(req[r].op, status) # "mark"
        /\ (req[r].op = "register" =>
              \/ AfterRequest(req[r].op, status) = "user" /\ status = "APPROVED"
              \/ AfterRequest(req[r].op, status) = "end")
    BY DEF AfterRequest
  <2> QED BY <1>1, <1>3, <1>5, <2>1, <2>2, <2>3, <2>4 DEF RegistrationInv, Locals
<1>10. CASE CreateStudent(r)
  <2>1. req[r] \in Locals /\ req[r].whatsapp \in Numbers
    BY <1>10, ReqTypes DEF CreateStudent
  <2>2. CASE Unique(req[r].whatsapp, req[r].email)
    <3>1. req' = [req EXCEPT ![r].at = "mark"] /\ req[r].op = "register"
      BY <1>10, <2>2 DEF CreateStudent
    <3>2. req'[r].at = "mark" /\ req'[r].op = "register"
          /\ req'[r].whatsapp = req[r].whatsapp /\ req'[r].email = req[r].email
      BY <1>1, <2>1, <3>1, SMTT(30) DEF Locals
    <3>3. \E u \in users' : u.whatsapp = req[r].whatsapp
      <4> DEFINE account == [whatsapp |-> req[r].whatsapp, email |-> req[r].email,
                             manada |-> req[r].manada]
      <4>1. account \in users'
        BY <1>10, <2>2 DEF CreateStudent
      <4>2. account.whatsapp = req[r].whatsapp
        OBVIOUS
      <4> QED BY <4>1, <4>2
    <3>4. req[r].email \in Emails /\ \E l \in letIn' : Alike(req[r].whatsapp, l)
      BY <1>1, <1>3, <1>10, <2>1 DEF CreateStudent, RegistrationInv, Released, Alike
    <3> QED BY <3>2, <3>3, <3>4 DEF RegistrationInv, Released, Alike
  <2>3. CASE ~Unique(req[r].whatsapp, req[r].email)
    BY <1>1, <1>5, <1>10, <2>3 DEF CreateStudent
  <2> QED BY <2>2, <2>3
<1>11. CASE ResolveManada(r)
  <2>1. req[r] \in Locals /\ req[r].whatsapp \in Numbers
    BY <1>11, ReqTypes DEF ResolveManada
  <2>2. CASE req[r].op = "submit" /\ req' = [req EXCEPT ![r].at = "write"]
    BY <1>1, <2>1, <2>2 DEF RegistrationInv, Locals
  <2>3. ASSUME NEW m \in ActiveManadas, req[r].op = "register",
               req' = [req EXCEPT ![r].at = "write", ![r].manada = m]
        PROVE  RegistrationInv(r)'
    <3>2. m \in ActiveManadas'
      BY <1>2
    <3>3. /\ req'[r].at = "write" /\ req'[r].op = "register" /\ req'[r].manada = m
          /\ req'[r].whatsapp = req[r].whatsapp /\ req'[r].email = req[r].email
      BY <1>1, <2>1, <2>3, SMTT(30) DEF Locals
    <3>4. req[r].email \in Emails /\ Released(req[r].whatsapp)
      BY <1>1, <1>11, <2>3 DEF ResolveManada, RegistrationInv
    <3>5. \E l \in letIn' : Alike(req'[r].whatsapp, l)
      BY <1>3, <2>1, <3>3, <3>4 DEF Released, Alike
    <3> QED BY <3>2, <3>3, <3>4, <3>5 DEF RegistrationInv, Released, Alike
  <2> QED BY <1>4, <1>11, <2>2, <2>3 DEF ResolveManada
<1>12. CASE TakeManada(r)
  <2>1. req[r] \in Locals /\ req[r].whatsapp \in Numbers /\ call[r].row \in ActiveManadas
    BY <1>1, <1>12, ReqTypes DEF TakeManada, CallInv
  <2>2. CASE req[r].op = "register"
    BY <1>1, <1>2, <1>3, <1>12, <2>1, <2>2 DEF TakeManada, RegistrationInv, Locals
  <2>3. CASE req[r].op # "register"
    BY <1>1, <1>12, <2>1, <2>3 DEF TakeManada, RegistrationInv, Locals
  <2> QED BY <2>2, <2>3
<1> QED
  BY <1>1, <1>4, <1>5, <1>6, <1>7, <1>8, <1>9, <1>10, <1>11, <1>12
     DEF Handler, CreatePublic, UpsertInterested, SubmitRequest, MarkRegistered,
         RemoveAllowed, Approve, Reject, WritesRequest, Ends

(* ...a verdict on a row is that of its status, or a registration's... *)
LEMMA VerdictStep ==
  ASSUME IInv, Next
  PROVE  ApprovedHasCause' /\ ReviewMatchesStatus'
<1>1. TypeOK /\ ApprovedHasCause /\ ReviewMatchesStatus /\ users \subseteq users'
  BY OnlyGrows DEF IInv
<1> DEFINE Sound(row, n) ==
      /\ row.status = "APPROVED" => row.reviewed = "APPROVED" \/ \E u \in users : Serves(u, n)
      /\ row.status \in {"absent", "INTERESTED", "PENDING"} => row.reviewed = "none"
      /\ row.status = "REJECTED" => row.reviewed = "REJECTED"
<1>2. \A n \in Numbers : Sound(request[n], n)
  BY <1>1 DEF ApprovedHasCause, ReviewMatchesStatus
<1>3. SUFFICES ASSUME NEW n \in Numbers PROVE Sound(request'[n], n)
  BY <1>1 DEF ApprovedHasCause, ReviewMatchesStatus, Serves
<1>4. CASE UNCHANGED request
  BY <1>2, <1>4
<1>5. ASSUME NEW r \in Requests,
             UpsertInterested(r) \/ SubmitRequest(r) \/ Approve(r) \/ Reject(r) \/ MarkRegistered(r)
      PROVE  Sound(request'[n], n)
  <2>1. req[r].whatsapp \in Numbers
    BY <1>1, <1>5, ReqTypes
       DEF UpsertInterested, SubmitRequest, Approve, Reject, MarkRegistered
  <2>2. request[req[r].whatsapp] \in [status : Statuses, reviewed : Verdicts \union {"none"}]
    BY <1>1, <2>1 DEF TypeOK
  <2>3. CASE UpsertInterested(r)
    BY <1>1, <1>2, <2>1, <2>2, <2>3 DEF UpsertInterested, WritesRequest, TypeOK
  <2>4. CASE SubmitRequest(r)
    BY <1>1, <1>2, <2>1, <2>4 DEF SubmitRequest, WritesRequest, TypeOK
  <2>5. CASE Approve(r)
    BY <1>1, <1>2, <2>1, <2>2, <2>5 DEF Approve, WritesRequest, TypeOK
  <2>6. CASE Reject(r)
    BY <1>1, <1>2, <2>1, <2>2, <2>6 DEF Reject, WritesRequest, TypeOK
  <2>7. CASE MarkRegistered(r)
    <3>1. PICK u \in users : u.whatsapp = req[r].whatsapp
      BY <2>7 DEF IInv, SlotInv, RegistrationInv, MarkRegistered
    <3>2. n \in Aliases[req[r].whatsapp] => Serves(u, n)
      BY <3>1 DEF Serves
    <3>3. request[n] \in [status : Statuses, reviewed : Verdicts \union {"none"}]
      BY <1>1 DEF TypeOK
    <3>4. \/ request'[n] = request[n]
          \/ /\ n \in Aliases[req[r].whatsapp]
             /\ request'[n] = [request[n] EXCEPT !.status = "APPROVED"]
      BY <2>7 DEF MarkRegistered
    <3> QED BY <1>2, <3>2, <3>3, <3>4
  <2> QED BY <1>5, <2>3, <2>4, <2>5, <2>6, <2>7
<1> HIDE DEF Sound
<1>6. ASSUME NEW r \in Requests, Handler(r)
      PROVE  \/ UNCHANGED request
             \/ UpsertInterested(r) \/ SubmitRequest(r) \/ Approve(r) \/ Reject(r)
             \/ MarkRegistered(r)
  BY <1>6
     DEF Handler, CheckWhatsapp, RequestAccess, Register, RemoveRead, ReviewRead, Starts,
         CreatePublic, FindUser, FindAllowed, FindRequest, Goes, ResolveManada, TakeManada,
         CreateStudent, RemoveAllowed, Ends, access
<1> QED BY <1>4, <1>5, <1>6 DEF Next, AddAllowed, SeedAllowed

(* ...and the rows it writes are as released as they were. *)
LEMMA RowsStep ==
  ASSUME IInv, Next
  PROVE  /\ ListInv' /\ ApprovalInv' /\ RegisteredWasLetIn' /\ ReferencesActive'
         /\ ApprovedHasCause' /\ ReviewMatchesStatus'
<1> USE DEF IInv, SlotInv
<1>1. TypeOK /\ ListInv /\ ApprovalInv /\ RegisteredWasLetIn /\ ReferencesActive
  OBVIOUS
<1>2. ActiveManadas \subseteq ActiveManadas' /\ letIn \subseteq letIn'
  BY <1>1, OnlyGrows
<1>3. \A n \in Numbers : Released(n) => Released(n)'
  BY <1>1, StillReleased
<1>4. UNCHANGED allowed => ListInv'
  BY <1>1, <1>2 DEF ListInv
<1>5. UNCHANGED request => ApprovalInv'
  BY <1>1, <1>3 DEF ApprovalInv
<1>6. UNCHANGED users => RegisteredWasLetIn' /\ ReferencesActive'
  BY <1>1, <1>2 DEF RegisteredWasLetIn, ReferencesActive, Alike
<1>7. ASSUME NEW n \in Numbers, Allow(n) PROVE ListInv' /\ Released(n)'
  <2>1. ListInv'
    BY <1>1, <1>7 DEF Allow, ListInv, TypeOK
  <2>2. n \in letIn'
    BY <1>7 DEF Allow
  <2> QED BY <2>1, <2>2, AlikeReflexive DEF Released, Alike
<1>8. ASSUME NEW n \in Numbers, AddAllowed(n) \/ SeedAllowed(n)
      PROVE  ListInv' /\ ApprovalInv' /\ RegisteredWasLetIn' /\ ReferencesActive'
  BY <1>5, <1>6, <1>7, <1>8 DEF AddAllowed, SeedAllowed
<1>9. ASSUME NEW r \in Requests, Handler(r)
      PROVE  ListInv' /\ ApprovalInv' /\ RegisteredWasLetIn' /\ ReferencesActive'
  <2>1. RegistrationInv(r) /\ RegistrationInv(r)' /\ TypeOK'
    BY <1>1, <1>9, RegistrationStep, TypesOfHandler
  <2>2. CASE UpsertInterested(r) \/ SubmitRequest(r) \/ Reject(r)
    <3>1. req[r].whatsapp \in Numbers /\ DOMAIN request = Numbers
      BY <1>1, <2>2, ReqTypes DEF UpsertInterested, SubmitRequest, Reject, TypeOK
    <3>2. \A n \in Numbers : request'[n].status = "APPROVED" => request[n].status = "APPROVED"
      <4>1. CASE UpsertInterested(r)
        BY <1>1, <3>1, <4>1 DEF UpsertInterested, WritesRequest, TypeOK
      <4>2. CASE SubmitRequest(r)
        BY <1>1, <3>1, <4>2 DEF SubmitRequest, WritesRequest, TypeOK
      <4>3. CASE Reject(r)
        BY <1>1, <3>1, <4>3 DEF Reject, WritesRequest, TypeOK
      <4> QED BY <2>2, <4>1, <4>2, <4>3
    <3>3. ApprovalInv'
      BY <1>1, <1>3, <3>2 DEF ApprovalInv
    <3> QED BY <1>4, <1>6, <2>2, <3>3 DEF UpsertInterested, SubmitRequest, Reject
  <2>3. CASE Approve(r)
    <3>1. req[r].whatsapp \in Numbers /\ DOMAIN request = Numbers
      BY <1>1, <2>3, ReqTypes DEF Approve, TypeOK
    <3>2. ListInv' /\ \A n \in Numbers : n = req[r].whatsapp => Released(n)'
      BY <1>7, <2>3, <3>1 DEF Approve
    <3>3. \A n \in Numbers : n # req[r].whatsapp => request'[n] = request[n]
      BY <2>3, <3>1 DEF Approve, WritesRequest
    <3>4. ApprovalInv'
      BY <1>1, <1>3, <3>2, <3>3 DEF ApprovalInv
    <3> QED BY <1>6, <2>3, <3>2, <3>4 DEF Approve
  <2>4. CASE MarkRegistered(r)
    <3>1. req[r].whatsapp \in Numbers /\ Released(req[r].whatsapp)
      BY <1>1, <2>1, <2>4, ReqTypes DEF MarkRegistered, RegistrationInv
    <3>2. \A n \in Numbers : n \notin Aliases[req[r].whatsapp] => request'[n] = request[n]
      BY <2>4 DEF MarkRegistered
    <3>3. \A n \in Aliases[req[r].whatsapp] : n \in Numbers /\ Released(n)
      <4> TAKE n \in Aliases[req[r].whatsapp]
      <4>1. n \in Numbers /\ Alike(n, req[r].whatsapp)
        BY <3>1, AliasAlike DEF Alike
      <4> QED BY <1>1, <3>1, <4>1, ReleasedAlike DEF TypeOK
    <3>4. ApprovalInv'
      BY <1>1, <1>3, <3>2, <3>3 DEF ApprovalInv
    <3> QED BY <1>4, <1>6, <2>4, <3>4 DEF MarkRegistered
  <2>5. CASE CreateStudent(r)
    <3>1. /\ Released(req[r].whatsapp) /\ req[r].manada \in ActiveManadas
          /\ letIn' = letIn /\ ActiveManadas' = ActiveManadas
      BY <1>1, <2>1, <2>5 DEF CreateStudent, RegistrationInv, ActiveManadas, history
    <3>2. \A u \in users' : u \in users \/ (u.whatsapp = req[r].whatsapp /\ u.manada = req[r].manada)
      BY <2>5 DEF CreateStudent
    <3>3. RegisteredWasLetIn' /\ ReferencesActive'
      BY <1>1, <3>1, <3>2 DEF RegisteredWasLetIn, ReferencesActive, Released, Alike
    <3> QED BY <1>4, <1>5, <2>5, <3>3 DEF CreateStudent
  <2>6. CASE RemoveAllowed(r)
    <3>1. ListInv'
      BY <1>1, <2>6 DEF RemoveAllowed, ListInv, TypeOK, history
    <3> QED BY <1>5, <1>6, <2>6, <3>1 DEF RemoveAllowed
  <2>7. CASE UNCHANGED access
    BY <1>4, <1>5, <1>6, <2>7 DEF access
  <2> QED
    BY <1>9, <2>2, <2>3, <2>4, <2>5, <2>6, <2>7
       DEF Handler, CheckWhatsapp, RequestAccess, Register, RemoveRead, ReviewRead, Starts,
           CreatePublic, FindUser, FindAllowed, FindRequest, Goes, ResolveManada, TakeManada, Ends
<1>10. ApprovedHasCause' /\ ReviewMatchesStatus'
  BY VerdictStep
<1> QED BY <1>8, <1>9, <1>10 DEF Next

LEMMA Inductive == IInv /\ [Next]_vars => IInv'
<1> SUFFICES ASSUME IInv, [Next]_vars PROVE IInv'
  OBVIOUS
<1> USE DEF IInv
<1>1. CASE UNCHANGED vars
  BY <1>1
     DEF vars, access, history, TypeOK, ManadasTypeOK, ListInv, ApprovalInv, SlotInv,
         RegistrationInv, CallInv, Released, Alike, ActiveManadas, RegisteredWasLetIn,
         ReferencesActive, ApprovedHasCause, ReviewMatchesStatus, Serves
<1>2. CASE Next
  <2>1. TypeOK'
    BY TypeStep
  <2>2. /\ ListInv' /\ ApprovalInv' /\ RegisteredWasLetIn' /\ ReferencesActive'
        /\ ApprovedHasCause' /\ ReviewMatchesStatus'
    BY <1>2, RowsStep
  <2>3. ActiveManadas \subseteq ActiveManadas'
        /\ users \subseteq users'
        /\ \A m \in Spellings : manadas[m] # "absent" => manadas'[m] # "absent"
    BY <1>2, OnlyGrows
  <2>4. \A n \in Numbers : Released(n) => Released(n)'
    BY <1>2, StillReleased
  <2>5. ASSUME NEW p \in Requests, req'[p] = req[p], call'[p] = call[p]
        PROVE  RegistrationInv(p)' /\ CallInv(p)'
    BY <2>3, <2>4, <2>5, ReqTypes, CallTypes DEF SlotInv, RegistrationInv, CallInv
  <2>6. ASSUME NEW r \in Requests, Handler(r) PROVE SlotInv'
    BY <2>5, <2>6, RegistrationStep, CallStep, OneAtATime DEF SlotInv
  <2>7. ASSUME NEW n \in Numbers, AddAllowed(n) \/ SeedAllowed(n) PROVE SlotInv'
    BY <2>5, <2>7 DEF SlotInv, AddAllowed, SeedAllowed
  <2> QED BY <1>2, <2>1, <2>2, <2>6, <2>7 DEF Next
<1> QED BY <1>1, <1>2

LEMMA Initially == Init => IInv
<1> SUFFICES ASSUME Init PROVE IInv
  OBVIOUS
<1>1. TypeOK
  BY AccessAssumption
     DEF Init, TypeOK, ManadasInit, ManadasTypeOK, Calls, Free, Statuses, Idle
<1>2. ListInv /\ ApprovalInv /\ RegisteredWasLetIn /\ ReferencesActive
  BY DEF Init, ListInv, ApprovalInv, RegisteredWasLetIn, ReferencesActive
<1>3. SlotInv
  BY DEF Init, ManadasInit, SlotInv, RegistrationInv, CallInv, Idle, Free
<1>4. ApprovedHasCause /\ ReviewMatchesStatus
  BY DEF Init, ApprovedHasCause, ReviewMatchesStatus
<1> QED BY <1>1, <1>2, <1>3, <1>4 DEF IInv

LEMMA Always == Spec => []IInv
BY Initially, Inductive, PTL DEF Spec

-----------------------------------------------------------------------------
(* Every row of the list, the requests, the users and the manadas, and every local variable
   of a handler, keeps its type. *)
THEOREM TypeCorrect == Spec => []TypeOK
<1>1. IInv => TypeOK
  BY DEF IInv
<1> QED BY <1>1, Always, PTL

(* However checks, submissions, reviews, removals and registrations overlap, nobody has an
   account unless a number alike was released. *)
THEOREM LetInFirst == Spec => []RegisteredWasLetIn
<1>1. IInv => RegisteredWasLetIn
  BY DEF IInv
<1> QED BY <1>1, Always, PTL

(* Every account points to an active manada, whichever spellings share its location. *)
THEOREM ManadaActive == Spec => []ReferencesActive
<1>1. IInv => ReferencesActive
  BY DEF IInv
<1> QED BY <1>1, Always, PTL

(* However many requests create manadas at once, in however many spellings, none but the
   seed is told of the conflict. *)
THEOREM ConflictHandled == Spec => []OnlySeedSeesConflict
<1>1. IInv => OnlySeedSeesConflict
  BY DEF IInv, SlotInv, CallInv, OnlySeedSeesConflict
<1> QED BY <1>1, Always, PTL

(* No step that fails or comes late leaves a request approved that neither a reviewer nor a
   registration approved. *)
THEOREM ApprovalExplained == Spec => []ApprovedHasCause
<1>1. IInv => ApprovedHasCause
  BY DEF IInv
<1> QED BY <1>1, Always, PTL

(* A waiting request shows no reviewer and a rejected one its rejection. *)
THEOREM ReviewShown == Spec => []ReviewMatchesStatus
<1>1. IInv => ReviewMatchesStatus
  BY DEF IInv
<1> QED BY <1>1, Always, PTL

-----------------------------------------------------------------------------
(* A handler that is not stale finds the row of its number as it went by it: one that may be
   submitted again, or one that waits for a verdict. *)
FreshInv(r) ==
  req[r].at \in {"manada", "write"} /\ r \notin stale =>
    /\ req[r].op = "submit" =>
         request[req[r].whatsapp].status \in {"absent", "INTERESTED", "REJECTED"}
    /\ req[r].op \in {"approve", "reject"} => request[req[r].whatsapp].status = "PENDING"

(* Whoever changes a request row makes those stale that have read it. *)
LEMMA ReadersGoStale ==
  ASSUME IInv, NEW r \in Requests, Handler(r)
  PROVE  /\ stale \ {r} \subseteq stale'
         /\ \A n \in Numbers : request'[n] # request[n] => Readers(n) \ {r} \subseteq stale'
<1>1. TypeOK
  BY DEF IInv
<1>2. ASSUME UpsertInterested(r) \/ SubmitRequest(r) \/ Approve(r) \/ Reject(r)
      PROVE  /\ stale \ {r} \subseteq stale'
             /\ \A n \in Numbers : request'[n] # request[n] => Readers(n) \ {r} \subseteq stale'
  <2>1. \E row : WritesRequest(r, row)
    BY <1>2 DEF UpsertInterested, SubmitRequest, Approve, Reject
  <2>2. PICK row : /\ request' = [request EXCEPT ![req[r].whatsapp] = row]
                   /\ stale' = (IF row = request[req[r].whatsapp] THEN stale
                                ELSE stale \union Readers(req[r].whatsapp)) \ {r}
    BY <2>1 DEF WritesRequest
  <2>3. stale \ {r} \subseteq stale'
    BY <2>2
  <2>4. ASSUME NEW n \in Numbers, request'[n] # request[n]
        PROVE  Readers(n) \ {r} \subseteq stale'
    <3>1. n = req[r].whatsapp /\ row # request[n]
      BY <1>1, <2>2, <2>4 DEF TypeOK
    <3> QED BY <2>2, <3>1
  <2> QED BY <2>3, <2>4
<1>3. ASSUME MarkRegistered(r)
      PROVE  /\ stale \ {r} \subseteq stale'
             /\ \A n \in Numbers : request'[n] # request[n] => Readers(n) \ {r} \subseteq stale'
  <2> DEFINE found == {a \in Aliases[req[r].whatsapp] : request[a].status \notin {"absent", "APPROVED"}}
  <2>1. /\ request' = [n \in Numbers |-> IF n \in found THEN [request[n] EXCEPT !.status = "APPROVED"]
                                         ELSE request[n]]
        /\ stale' = (stale \union UNION {Readers(a) : a \in found}) \ {r}
    BY <1>3 DEF MarkRegistered
  <2> HIDE DEF found
  <2>2. stale \ {r} \subseteq stale'
    BY <2>1
  <2>3. ASSUME NEW n \in Numbers, request'[n] # request[n]
        PROVE  Readers(n) \ {r} \subseteq stale'
    <3>1. n \in found
      BY <2>1, <2>3
    <3> QED BY <2>1, <3>1
  <2> QED BY <2>2, <2>3
<1>4. ASSUME request' = request, stale \ {r} \subseteq stale'
      PROVE  /\ stale \ {r} \subseteq stale'
             /\ \A n \in Numbers : request'[n] # request[n] => Readers(n) \ {r} \subseteq stale'
  BY <1>4
<1>5. CASE FindRequest(r)
  <2>1. request' = request /\ stale \subseteq stale'
    BY <1>5 DEF FindRequest, access
  <2> QED BY <1>4, <2>1
<1>6. \/ request' = request /\ stale \ {r} \subseteq stale'
      \/ UpsertInterested(r) \/ SubmitRequest(r) \/ Approve(r) \/ Reject(r) \/ MarkRegistered(r)
      \/ FindRequest(r)
  BY DEF Handler, CheckWhatsapp, RequestAccess, Register, RemoveRead, ReviewRead, Starts,
         CreatePublic, FindUser, FindAllowed, Goes, ResolveManada, TakeManada, CreateStudent,
         RemoveAllowed, Ends, access, history
<1> QED BY <1>2, <1>3, <1>4, <1>5, <1>6

LEMMA FreshOthers ==
  ASSUME IInv, NEW r \in Requests, Handler(r), NEW p \in Requests, p # r, FreshInv(p)
  PROVE  FreshInv(p)'
<1>1. req'[p] = req[p]
  BY OneAtATime DEF IInv
<1> SUFFICES ASSUME req[p].at \in {"manada", "write"}, p \notin stale',
                    req[p].op \in {"submit", "approve", "reject"}
             PROVE  /\ req[p].op = "submit" =>
                         request'[req[p].whatsapp].status \in {"absent", "INTERESTED", "REJECTED"}
                    /\ req[p].op \in {"approve", "reject"} =>
                         request'[req[p].whatsapp].status = "PENDING"
  BY <1>1 DEF FreshInv
<1>2. req[p].whatsapp \in Numbers
  BY ReqTypes DEF IInv
<1>3. p \in Readers(req[p].whatsapp)
  BY DEF Readers
<1>4. request'[req[p].whatsapp] = request[req[p].whatsapp] /\ p \notin stale
  BY <1>2, <1>3, ReadersGoStale
<1> QED BY <1>4 DEF FreshInv

LEMMA FreshOwn ==
  ASSUME IInv, NEW r \in Requests, Handler(r), FreshInv(r)
  PROVE  FreshInv(r)'
<1>1. TypeOK /\ DOMAIN req = Requests
  BY DEF IInv, TypeOK
<1>2. CASE req'[r] = Idle
  BY <1>2 DEF FreshInv, Idle
<1>3. ASSUME NEW n \in Numbers,
             \/ CheckWhatsapp(r, n) \/ RequestAccess(r, n) \/ \E e \in Emails : Register(r, n, e)
             \/ RemoveRead(r, n)
      PROVE  FreshInv(r)'
  BY <1>1, <1>3 DEF CheckWhatsapp, RequestAccess, Register, RemoveRead, Starts, FreshInv
<1>4. ASSUME NEW n \in Numbers, NEW op \in {"approve", "reject"}, ReviewRead(r, n, op)
      PROVE  FreshInv(r)'
  BY <1>1, <1>4 DEF ReviewRead, Starts, FreshInv, access
<1>5. CASE FindUser(r)
  <2>1. req[r] \in Locals
    BY <1>1, <1>5, ReqTypes DEF FindUser
  <2> QED BY <1>1, <1>2, <1>5, <2>1 DEF FindUser, Goes, FreshInv, Locals
<1>6. CASE FindAllowed(r)
  <2>1. req[r] \in Locals
    BY <1>1, <1>6, ReqTypes DEF FindAllowed
  <2> QED BY <1>1, <1>2, <1>6, <2>1 DEF FindAllowed, Goes, FreshInv, Locals
<1>7. CASE FindRequest(r)
  <2>1. req[r] \in Locals /\ req[r].whatsapp \in Numbers
    BY <1>1, <1>7, ReqTypes DEF FindRequest
  <2> DEFINE n    == req[r].whatsapp
             op   == req[r].op
  <2>2. PICK status \in FoundStatuses(n) :
          /\ req' = [req EXCEPT ![r] = IF AfterRequest(op, status) = "end" THEN Idle
                                       ELSE [@ EXCEPT !.at = AfterRequest(op, status)]]
          /\ stale' = IF op = "submit" /\ AfterRequest(op, status) = "manada"
                         /\ request[n].status \notin {status, "absent"}
                      THEN stale \union {r} ELSE stale
    BY <1>7 DEF FindRequest
  <2>3. status \in Statuses /\ request' = request
    <3>1. \A a \in Aliases[n] : a \in Numbers
      BY <2>1, AliasAlike
    <3>2. status \in Statuses
      BY <1>1, <2>2, <3>1 DEF FoundStatuses, TypeOK, Statuses
    <3> QED BY <1>7, <3>2 DEF FindRequest, access
  <2>4. CASE AfterRequest(op, status) = "end"
    BY <1>1, <1>2, <2>2, <2>4
  <2>5. CASE AfterRequest(op, status) # "end"
    <3>1. /\ req'[r].at = AfterRequest(op, status) /\ req'[r].op = op /\ req'[r].whatsapp = n
      BY <1>1, <2>1, <2>2, <2>5 DEF Locals
    <3>2. /\ AfterRequest(op, status) \in {"manada", "write"} => op \in {"submit", "check"}
          /\ AfterRequest(op, status) = "manada" =>
               op = "submit" /\ status \notin {"PENDING", "APPROVED"}
          /\ op = "submit" => AfterRequest(op, status) # "write"
      BY DEF AfterRequest
    <3> HIDE DEF n, op
    <3>3. op = "submit" /\ AfterRequest(op, status) = "manada" /\ r \notin stale' =>
            request[n].status \in {"absent", "INTERESTED", "REJECTED"}
      BY <2>2, <2>3, <3>2 DEF Statuses
    <3> QED BY <2>3, <3>1, <3>2, <3>3 DEF FreshInv
  <2> QED BY <2>4, <2>5
<1>8. CASE req[r].at = "manada" /\ (ResolveManada(r) \/ TakeManada(r))
  <2>1. req[r] \in Locals
    BY <1>1, <1>8, ReqTypes
  <2>2. request' = request /\ stale' = stale
    BY <1>8 DEF ResolveManada, TakeManada, access, history
  <2>3. req'[r].op = req[r].op /\ req'[r].whatsapp = req[r].whatsapp
    <3>1. CASE req' = [req EXCEPT ![r].at = "write"]
      BY <1>1, <2>1, <3>1 DEF Locals
    <3>2. ASSUME NEW m, req' = [req EXCEPT ![r].at = "write", ![r].manada = m]
          PROVE  req'[r].op = req[r].op /\ req'[r].whatsapp = req[r].whatsapp
      BY <1>1, <2>1, <3>2, SMTT(30) DEF Locals
    <3>3. CASE UNCHANGED req
      BY <3>3
    <3>4. TakeManada(r) =>
            \E m : req' = [req EXCEPT ![r].at = "write", ![r].manada = m]
      <4>1. TakeManada(r) =>
              req' = [req EXCEPT ![r].at = "write",
                                 ![r].manada = IF req[r].op = "register" THEN call[r].row ELSE @]
        BY DEF TakeManada
      <4>2. [req EXCEPT ![r].at = "write",
                        ![r].manada = IF req[r].op = "register" THEN call[r].row ELSE @]
            = [req EXCEPT ![r].at = "write",
                          ![r].manada = IF req[r].op = "register" THEN call[r].row
                                        ELSE req[r].manada]
        BY <1>1, <2>1 DEF Locals
      <4> QED BY <4>1, <4>2
    <3> QED BY <1>8, <3>1, <3>2, <3>3, <3>4 DEF ResolveManada
  <2> QED BY <1>8, <2>2, <2>3 DEF FreshInv
<1>9. CASE CreateStudent(r)
  <2>1. req[r] \in Locals
    BY <1>1, <1>9, ReqTypes DEF CreateStudent
  <2>2. CASE req' = [req EXCEPT ![r].at = "mark"]
    BY <1>1, <2>1, <2>2 DEF FreshInv, Locals
  <2> QED BY <1>1, <1>2, <1>9, <2>2 DEF CreateStudent
<1>10. ASSUME req' = req, request' = request, stale' = stale PROVE FreshInv(r)'
  BY <1>10 DEF FreshInv
<1>11. \/ req'[r] = Idle
       \/ req' = req /\ request' = request /\ stale' = stale
       \/ CreateStudent(r) \/ ResolveManada(r) \/ TakeManada(r)
       \/ FindUser(r) \/ FindAllowed(r) \/ FindRequest(r)
       \/ \E n \in Numbers :
            \/ CheckWhatsapp(r, n) \/ RequestAccess(r, n) \/ \E e \in Emails : Register(r, n, e)
            \/ RemoveRead(r, n) \/ \E op \in {"approve", "reject"} : ReviewRead(r, n, op)
  BY <1>1 DEF Handler, CreatePublic, UpsertInterested, SubmitRequest, MarkRegistered,
              RemoveAllowed, Approve, Reject, WritesRequest, Ends, access, history
<1>12. ResolveManada(r) \/ TakeManada(r) => req[r].at = "manada"
  BY DEF ResolveManada, TakeManada
<1> QED BY <1>2, <1>3, <1>4, <1>5, <1>6, <1>7, <1>8, <1>9, <1>10, <1>11, <1>12

VerdictInv == IInv /\ \A r \in Requests : FreshInv(r)

LEMMA FreshStep == VerdictInv /\ [Next]_vars => VerdictInv'
<1> SUFFICES ASSUME VerdictInv, [Next]_vars PROVE \A p \in Requests : FreshInv(p)'
  BY Inductive DEF VerdictInv
<1>1. ASSUME NEW r \in Requests, Handler(r) PROVE \A p \in Requests : FreshInv(p)'
  BY <1>1, FreshOwn, FreshOthers DEF VerdictInv
<1>2. CASE UNCHANGED <<req, request, stale>>
  BY <1>2 DEF VerdictInv, FreshInv
<1> QED BY <1>1, <1>2 DEF Next, AddAllowed, SeedAllowed, vars, access, history

(* A verdict stands until somebody who saw it changes it: a handler that replaces it is a new
   submission of a rejected number, a registration, or one that went by what was no longer so. *)
THEOREM VerdictIsKept == Spec => VerdictStands
<1>1. Init => VerdictInv
  BY Initially DEF Init, VerdictInv, FreshInv, Idle
<1>2. ASSUME VerdictInv, [Next]_vars, NEW n \in Numbers,
             request[n].reviewed # "none", request'[n] # request[n]
      PROVE  \/ request[n].status = "REJECTED" /\ request'[n].status = "PENDING"
             \/ /\ request'[n] = [request[n] EXCEPT !.status = "APPROVED"]
                /\ \E u \in users : Serves(u, n)
             \/ \E r \in stale : req[r].whatsapp = n /\ req'[r] = Idle
  <2>1. /\ TypeOK /\ ReviewMatchesStatus /\ DOMAIN req = Requests
        /\ request \in [Numbers -> [status : Statuses, reviewed : Verdicts \union {"none"}]]
        /\ \A r \in Requests : FreshInv(r) /\ RegistrationInv(r)
    BY <1>2 DEF VerdictInv, IInv, TypeOK, SlotInv
  <2>2. request[n].status \in {"APPROVED", "REJECTED"}
    BY <1>2, <2>1 DEF ReviewMatchesStatus, Statuses
  <2>3. ASSUME NEW r \in Requests,
               UpsertInterested(r) \/ SubmitRequest(r) \/ Approve(r) \/ Reject(r)
        PROVE  req[r].whatsapp = n /\ req'[r] = Idle /\ ~UpsertInterested(r)
    <3>1. \E row : WritesRequest(r, row)
      BY <2>3 DEF UpsertInterested, SubmitRequest, Approve, Reject
    <3>2. req[r].whatsapp = n /\ req'[r] = Idle
      BY <1>2, <2>1, <3>1 DEF WritesRequest
    <3>3. ASSUME UpsertInterested(r) PROVE FALSE
      <4>1. WritesRequest(r, request[n])
        BY <2>2, <3>2, <3>3 DEF UpsertInterested
      <4> QED BY <1>2, <2>1, <3>2, <4>1 DEF WritesRequest
    <3> QED BY <3>2, <3>3
  <2>4. ASSUME NEW r \in Requests, SubmitRequest(r), request[n].status = "APPROVED"
        PROVE  r \in stale
    BY <2>1, <2>3, <2>4 DEF SubmitRequest, FreshInv
  <2>5. ASSUME NEW r \in Requests, SubmitRequest(r) PROVE request'[n].status = "PENDING"
    <3>1. req[r].whatsapp = n
      BY <2>3, <2>5
    <3> QED BY <2>1, <2>5, <3>1 DEF SubmitRequest, WritesRequest
  <2>6. ASSUME NEW r \in Requests, Approve(r) \/ Reject(r) PROVE r \in stale
    BY <2>1, <2>2, <2>3, <2>6 DEF Approve, Reject, FreshInv
  <2>7. ASSUME NEW r \in Requests, MarkRegistered(r)
        PROVE  /\ request'[n] = [request[n] EXCEPT !.status = "APPROVED"]
               /\ \E u \in users : Serves(u, n)
    <3>1. n \in Aliases[req[r].whatsapp] /\ request'[n] = [request[n] EXCEPT !.status = "APPROVED"]
      BY <1>2, <2>7 DEF MarkRegistered
    <3>2. \E u \in users : u.whatsapp = req[r].whatsapp
      BY <2>1, <2>7 DEF MarkRegistered, RegistrationInv
    <3> QED BY <3>1, <3>2 DEF Serves
  <2>8. \E r \in Requests : UpsertInterested(r) \/ SubmitRequest(r) \/ Approve(r) \/ Reject(r)
                            \/ MarkRegistered(r)
    BY <1>2
       DEF Next, Handler, CheckWhatsapp, RequestAccess, Register, RemoveRead, ReviewRead, Starts,
           CreatePublic, FindUser, FindAllowed, FindRequest, Goes, ResolveManada, TakeManada,
           CreateStudent, RemoveAllowed, Ends, AddAllowed, SeedAllowed, vars, access
  <2> QED BY <2>2, <2>3, <2>4, <2>5, <2>6, <2>7, <2>8
<1>3. VerdictInv /\ [Next]_vars =>
        [\A n \in Numbers :
           request[n].reviewed # "none" /\ request'[n] # request[n] =>
             \/ request[n].status = "REJECTED" /\ request'[n].status = "PENDING"
             \/ /\ request'[n] = [request[n] EXCEPT !.status = "APPROVED"]
                /\ \E u \in users : Serves(u, n)
             \/ \E r \in stale : req[r].whatsapp = n /\ req'[r] = Idle]_vars
  BY <1>2
<1> QED BY <1>1, <1>3, FreshStep, PTL DEF Spec, VerdictStands

-----------------------------------------------------------------------------
(* What the aliases of a number promise, for every string of eight to fifteen digits. *)
Forms == {Canonical(d) : d \in Normalised}

LEMMA NormalisedLen ==
  ASSUME NEW d \in Normalised
  PROVE  /\ Len(d) \in 8..15
         /\ d \in [1..Len(d) -> Digit]
<1>1. PICK n \in 8..15 : d \in [1..n -> Digit]
  BY DEF Normalised
<1>2. d \in Seq(Digit)
  BY <1>1, IsASeq
<1>3. Len(d) = n
  BY <1>1, <1>2, LenProperties, SMT
<1> QED BY <1>1, <1>3

LEMMA LenNormalised ==
  ASSUME NEW n \in 8..15, NEW d \in [1..n -> Digit]
  PROVE  Len(d) = n /\ d \in Normalised
<1>1. d \in Normalised
  BY DEF Normalised
<1>2. d \in [1..Len(d) -> Digit] /\ Len(d) \in 8..15
  BY <1>1, NormalisedLen
<1>3. 1..n = 1..Len(d)
  BY <1>2
<1>4. n = Len(d)
  BY <1>2, <1>3, SMT
<1> QED BY <1>1, <1>4

LEMMA Inserted ==
  ASSUME NEW d \in Normalised, Len(d) = 12
  PROVE  Insert9(d) \in Normalised /\ Len(Insert9(d)) = 13
<1>1. d \in [1..12 -> Digit]
  BY NormalisedLen
<1>2. Insert9(d) \in [1..13 -> Digit]
  BY <1>1, SMT DEF Insert9, Digit
<1> QED BY <1>2, LenNormalised, SMT

LEMMA Dropped ==
  ASSUME NEW d \in Normalised, Len(d) = 13
  PROVE  Drop5(d) \in Normalised /\ Len(Drop5(d)) = 12
<1>1. d \in [1..13 -> Digit]
  BY NormalisedLen
<1>2. Drop5(d) \in [1..12 -> Digit]
  BY <1>1, SMT DEF Drop5, Digit
<1> QED BY <1>2, LenNormalised, SMT

LEMMA DropInserted ==
  ASSUME NEW d \in Normalised, Len(d) = 12
  PROVE  Drop5(Insert9(d)) = d
<1>1. d \in [1..12 -> Digit]
  BY NormalisedLen
<1>2. Drop5(Insert9(d)) = [i \in 1..12 |-> d[i]]
  BY SMT DEF Drop5, Insert9
<1> QED BY <1>1, <1>2

LEMMA InsertDropped ==
  ASSUME NEW d \in Normalised, Len(d) = 13, d[5] = 9
  PROVE  Insert9(Drop5(d)) = d
<1>1. d \in [1..13 -> Digit]
  BY NormalisedLen
<1>2. Insert9(Drop5(d)) = [i \in 1..13 |-> d[i]]
  BY SMT DEF Drop5, Insert9
<1> QED BY <1>1, <1>2

(* A number is written in one form: completing it twice changes nothing. *)
THEOREM CanonicalIdempotent ==
  ASSUME NEW d \in Normalised
  PROVE  Canonical(d) \in Normalised /\ Canonical(Canonical(d)) = Canonical(d)
<1>1. CASE OldMobile(d)
  <2>1. Insert9(d) \in Normalised /\ Len(Insert9(d)) = 13
    BY <1>1, Inserted DEF OldMobile
  <2>2. ~OldMobile(Insert9(d))
    BY <2>1 DEF OldMobile
  <2> QED BY <1>1, <2>1, <2>2 DEF Canonical
<1>2. CASE ~OldMobile(d)
  BY <1>2 DEF Canonical
<1> QED BY <1>1, <1>2

(* Whichever form a row was written in before the canonical one was settled, a lookup of the
   number finds it. *)
THEOREM EveryFormIsFound ==
  ASSUME NEW d \in Normalised
  PROVE  d \in WhatsappAliases(Canonical(d)) /\ WhatsappAliases(Canonical(d)) = WhatsappAliases(d)
<1>1. Canonical(Canonical(d)) = Canonical(d)
  BY CanonicalIdempotent
<1>2. WhatsappAliases(Canonical(d)) = WhatsappAliases(d)
  BY <1>1 DEF WhatsappAliases
<1>3. CASE OldMobile(d)
  <2>1. Canonical(d) = Insert9(d) /\ Len(d) = 12 /\ Brazilian(d)
    BY <1>3 DEF Canonical, OldMobile
  <2>2. Len(Insert9(d)) = 13 /\ Drop5(Insert9(d)) = d
    BY <2>1, Inserted, DropInserted
  <2>3. Brazilian(Insert9(d)) /\ Insert9(d)[5] = 9
    BY <2>1, SMT DEF Insert9, Brazilian
  <2> QED BY <1>2, <2>1, <2>2, <2>3 DEF WhatsappAliases
<1>4. CASE ~OldMobile(d)
  BY <1>2, <1>4 DEF Canonical, WhatsappAliases
<1> QED BY <1>2, <1>3, <1>4

LEMMA OtherAlias ==
  ASSUME NEW c \in Forms, NEW e \in Forms, e \in WhatsappAliases(c), e # c
  PROVE  /\ Len(c) = 13 /\ Brazilian(c) /\ c[5] = 9
         /\ Len(e) = 12 /\ e = Drop5(c) /\ c = Insert9(e)
         /\ Brazilian(e) /\ ~OldMobile(e)
<1>1. c \in Normalised /\ Canonical(c) = c /\ e \in Normalised /\ Canonical(e) = e
  BY CanonicalIdempotent DEF Forms
<1>2. Len(c) = 13 /\ Brazilian(c) /\ c[5] = 9 /\ e = Drop5(c)
  BY <1>1 DEF WhatsappAliases
<1>3. Len(e) = 12 /\ c = Insert9(e)
  BY <1>1, <1>2, Dropped, InsertDropped
<1>4. Brazilian(e)
  BY <1>2, SMT DEF Drop5, Brazilian
<1>5. ~OldMobile(e)
  <2>1. OldMobile(e) => Insert9(e) = e
    BY <1>1 DEF Canonical
  <2> QED BY <1>2, <1>3, <2>1
<1> QED BY <1>2, <1>3, <1>4, <1>5

(* The only row of another number that a lookup finds is that of a landline, found by the
   mobile number a 9 makes of it; a landline finds none but its own. *)
THEOREM OtherAliasIsLandline ==
  ASSUME NEW c \in Forms, NEW e \in Forms, e \in WhatsappAliases(c), e # c, Plausible(e)
  PROVE  Mobile(c) /\ Landline(e) /\ WhatsappAliases(e) = {e}
<1>1. Mobile(c) /\ Len(e) = 12 /\ Brazilian(e)
  BY OtherAlias DEF Mobile
<1>2. Landline(e)
  BY <1>1 DEF Plausible, Mobile
<1>3. Canonical(e) = e
  BY CanonicalIdempotent DEF Forms
<1> QED BY <1>1, <1>2, <1>3 DEF WhatsappAliases

LEMMA SharedAlias ==
  ASSUME NEW c \in Forms, NEW e \in Forms, NEW x \in Forms,
         x \in WhatsappAliases(c), x \in WhatsappAliases(e)
  PROVE  c \in WhatsappAliases(e) \/ e \in WhatsappAliases(c)
<1>1. CASE x = c \/ x = e
  BY <1>1
<1>2. CASE x # c /\ x # e
  <2>1. c = e
    BY <1>2, OtherAlias
  <2> QED BY <1>2, <2>1, EveryFormIsFound, CanonicalIdempotent DEF Forms
<1> QED BY <1>1, <1>2

(* The assumption of Access: a number is among its own aliases, and to have an alias in common
   is transitive, so that it splits the numbers into groups the code takes for one person's. *)
THEOREM AliasesSuitAccess ==
  ASSUME Numbers \subseteq Forms,
         Aliases = [n \in Numbers |-> WhatsappAliases(n) \intersect Numbers],
         NEW l \in Numbers, NEW m \in Numbers, NEW n \in Numbers,
         Aliases[l] \intersect Aliases[m] # {}, Aliases[m] \intersect Aliases[n] # {}
  PROVE  n \in Aliases[n] /\ Aliases[l] \intersect Aliases[n] # {}
<1>1. \A c \in Numbers : c \in Forms /\ c \in WhatsappAliases(c) /\ c \in Aliases[c]
  BY EveryFormIsFound, CanonicalIdempotent DEF Forms
<1>2. l \in WhatsappAliases(m) \/ m \in WhatsappAliases(l)
  BY <1>1, SharedAlias
<1>3. m \in WhatsappAliases(n) \/ n \in WhatsappAliases(m)
  BY <1>1, SharedAlias
<1>4. l = n \/ l \in WhatsappAliases(n) \/ n \in WhatsappAliases(l)
  <2>1. CASE l = m \/ m = n
    BY <1>2, <1>3, <2>1
  <2>2. CASE l # m /\ m # n
    <3>1. CASE l \in WhatsappAliases(m)
      <4>1. l = Drop5(m) /\ Len(m) = 13
        BY <1>1, <2>2, <3>1, OtherAlias
      <4>2. n \in WhatsappAliases(m)
        BY <1>1, <1>3, <2>2, <4>1, OtherAlias, SMT
      <4> QED BY <1>1, <2>2, <4>1, <4>2, OtherAlias
    <3>2. CASE m \in WhatsappAliases(l)
      <4>1. l = Insert9(m) /\ Len(m) = 12
        BY <1>1, <2>2, <3>2, OtherAlias
      <4>2. m \in WhatsappAliases(n)
        BY <1>1, <1>3, <2>2, <4>1, OtherAlias, SMT
      <4> QED BY <1>1, <2>2, <4>1, <4>2, OtherAlias
    <3> QED BY <1>2, <3>1, <3>2
  <2> QED BY <2>1, <2>2
<1>5. l \in Aliases[n] \/ n \in Aliases[l]
  BY <1>1, <1>4
<1> QED BY <1>1, <1>5
=============================================================================
