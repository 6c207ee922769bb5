-------------------------------- MODULE Access --------------------------------
(***************************************************************************)
(* Who may register: the numbers on the allowed list, the requests for     *)
(* access and the verdicts on them (src/src/modules/access), and the       *)
(* registration (AuthService.register) that lets a released number in,     *)
(* composed with the manadas both of them look up or create.               *)
(*                                                                         *)
(* Every await is a step of its own, and a request may stop after any of   *)
(* them.  Names, justifications, mail and the manada of a request are left *)
(* out.  A number stands for its canonical digits (Whatsapp); a lookup by  *)
(* number finds the rows of all its aliases, a write goes to its own.      *)
(***************************************************************************)
EXTENDS Manadas

CONSTANTS
  Numbers,  \* WhatsApp numbers
  Aliases,  \* whatsappAliases: for each number, those whose rows a lookup of it finds
  Emails,
  Seeded,   \* the numbers of allowed-whatsapps.json, upserted by every boot
  MaxRows   \* bounds the rows ever inserted in allowed_whatsapps

(* Two numbers the lookups take for one person's: they have an alias in common. *)
Alike(m, n) == Aliases[m] \intersect Aliases[n] # {}

(* What the digits give, for all of them (WhatsappProofs!AliasesSuitAccess). *)
ASSUME AccessAssumption ==
  /\ Seeded \subseteq Numbers /\ MaxRows \in Nat
  /\ Aliases \in [Numbers -> SUBSET Numbers]
  /\ \A n \in Numbers : n \in Aliases[n]
  /\ \A l, m, n \in Numbers : Alike(l, m) /\ Alike(m, n) => Alike(l, n)

VARIABLES
  allowed,  \* allowed_whatsapps: the id of the row of each number, 0 without one
  lastId,   \* the id of the row inserted last
  request,  \* access_requests: status, and the verdict reviewedAt and reviewedById stand for
  users,    \* users: number, email and manada of each account
  req,      \* the handler each request slot runs and its local variables
  letIn,    \* history: numbers that an administrator, a reviewer or the seed released
  stale     \* history: slots whose request row is not, or no longer, what they went by

access  == <<allowed, lastId, request, users>>
history == <<letIn, stale>>
vars    == <<manadas, call, access, req, history>>

NoManada == "none"
NoEmail  == "none"
Statuses == {"absent", "INTERESTED", "PENDING", "APPROVED", "REJECTED"}
Verdicts == {"APPROVED", "REJECTED"}
Idle     == [at |-> "idle"]
Locals   == [op : {"check", "submit", "register", "approve", "reject", "remove"},
             at : {"user", "allowed", "request", "manada", "write", "mark"},
             whatsapp : Numbers, email : Emails \union {NoEmail},
             manada : Spellings \union {NoManada}, row : 0..MaxRows]

TypeOK ==
  /\ ManadasTypeOK
  /\ allowed \in [Numbers -> 0..MaxRows] /\ lastId \in 0..MaxRows
  /\ request \in [Numbers -> [status : Statuses, reviewed : Verdicts \union {"none"}]]
  /\ users \subseteq [whatsapp : Numbers, email : Emails, manada : Spellings]
  /\ DOMAIN req = Requests
  /\ \A r \in Requests : req[r] = Idle \/ req[r] \in Locals
  /\ letIn \subseteq Numbers /\ stale \subseteq Requests

Init ==
  /\ ManadasInit
  /\ allowed = [n \in Numbers |-> 0] /\ lastId = 0
  /\ request = [n \in Numbers |-> [status |-> "absent", reviewed |-> "none"]]
  /\ users = {}
  /\ req = [r \in Requests |-> Idle]
  /\ letIn = {} /\ stale = {}

-----------------------------------------------------------------------------
(* What findUserByWhatsapp and findAllowed look for, and what the unique indexes refuse. *)
Registered(n) == \E u \in users : u.whatsapp \in Aliases[n]
OnList(n)     == \E a \in Aliases[n] : allowed[a] # 0
Unique(n, e)  == \A u \in users : u.whatsapp # n /\ u.email # e

(* findRequest: any row of an alias may come first. *)
FoundStatuses(n) ==
  LET found == {a \in Aliases[n] : request[a].status # "absent"}
  IN IF found = {} THEN {"absent"} ELSE {request[a].status : a \in found}

Starts(r, op, at, n, e, row) ==
  /\ req[r] = Idle /\ call[r] = Free
  /\ req' = [req EXCEPT ![r] = [op |-> op, at |-> at, whatsapp |-> n, email |-> e,
                               manada |-> NoManada, row |-> row]]
  /\ UNCHANGED <<manadas, call, access, history>>

(* A read of a handler: it goes on to the step next, or ends. *)
Goes(r, next) ==
  /\ req' = [req EXCEPT ![r] = IF next = "end" THEN Idle ELSE [@ EXCEPT !.at = next]]
  /\ stale' = stale \ (IF next = "end" THEN {r} ELSE {})
  /\ UNCHANGED <<manadas, call, access, letIn>>

(* The slots that read the request row of n and have yet to write it. *)
Readers(n) ==
  {p \in Requests : /\ req[p].at \in {"manada", "write"}
                    /\ req[p].whatsapp = n /\ req[p].op \notin {"register", "remove"}}

(* The last statement of a handler writes the request row of its number. *)
WritesRequest(r, row) ==
  LET n == req[r].whatsapp
  IN /\ request' = [request EXCEPT ![n] = row]
     /\ stale' = (IF row = request[n] THEN stale ELSE stale \union Readers(n)) \ {r}
     /\ req' = [req EXCEPT ![r] = Idle]

(* allowed_whatsapps has one row per number: an upsert keeps the one that is there. *)
Allow(n) ==
  /\ letIn' = letIn \union {n}
  /\ IF allowed[n] = 0
     THEN /\ lastId < MaxRows
          /\ lastId' = lastId + 1
          /\ allowed' = [allowed EXCEPT ![n] = lastId + 1]
     ELSE UNCHANGED <<allowed, lastId>>

(* POST /auth/check-whatsapp, /auth/access-requests and /auth/register. *)
CheckWhatsapp(r, n) == Starts(r, "check", "user", n, NoEmail, 0)
RequestAccess(r, n) == Starts(r, "submit", "user", n, NoEmail, 0)
Register(r, n, e)   == Starts(r, "register", "allowed", n, e, 0)

(* The user is looked up: a check or a submission of a registered number ends here, and a
   registration, whose two lookups are one step here (accounts are only ever added), when
   the email or the number is taken. *)
FindUser(r) ==
  /\ req[r].at = "user"
  /\ LET n == req[r].whatsapp
     IN Goes(r, IF req[r].op = "register"
                THEN IF Registered(n) \/ ~Unique(n, req[r].email) THEN "end" ELSE "manada"
                ELSE IF Registered(n) THEN "end" ELSE "allowed")

(* The allowed list is looked up: a number on it may register, and has nothing to ask. *)
FindAllowed(r) ==
  /\ req[r].at = "allowed"
  /\ Goes(r, IF ~OnList(req[r].whatsapp) THEN "request"
             ELSE IF req[r].op = "register" THEN "user" ELSE "end")

AfterRequest(op, status) ==
  CASE op = "check" /\ status \in {"absent", "INTERESTED"}    -> "write"
    [] op = "submit" /\ status \notin {"PENDING", "APPROVED"} -> "manada"
    [] op = "register" /\ status = "APPROVED"                  -> "user"
    [] OTHER                                                    -> "end"

(* Mutant: a pending request lets its number register. *)
FindRequest_PendingRegisters(r) ==
  /\ req[r].at = "request"
  /\ \E status \in FoundStatuses(req[r].whatsapp) :
       Goes(r, IF req[r].op = "register" /\ status = "PENDING" THEN "user"
               ELSE AfterRequest(req[r].op, status))

(* The request is looked up: a check goes on to record the interest if there is none, a
   submission unless it is pending or approved, a registration if it is approved. *)
FindRequest(r) ==
  /\ req[r].at = "request"
  /\ LET n == req[r].whatsapp  op == req[r].op
     IN \E status \in FoundStatuses(n) :
          /\ req' = [req EXCEPT ![r] = IF AfterRequest(op, status) = "end" THEN Idle
                                       ELSE [@ EXCEPT !.at = AfterRequest(op, status)]]
          /\ stale' = IF op = "submit" /\ AfterRequest(op, status) = "manada"
                         /\ request[n].status \notin {status, "absent"}
                      THEN stale \union {r} ELSE stale
  /\ UNCHANGED <<manadas, call, access, letIn>>

(* The interest is recorded; a row inserted meanwhile stays as it is. *)
UpsertInterested(r) ==
  /\ req[r].at = "write" /\ req[r].op = "check"
  /\ LET row == request[req[r].whatsapp]
     IN WritesRequest(r, IF row.status # "absent" THEN row
                         ELSE [row EXCEPT !.status = "INTERESTED"])
  /\ UNCHANGED <<manadas, call, allowed, lastId, users, letIn>>

(* resolveManada: an active manada by its id (any other id ends the request), findOrCreate
   by location, or, in a submission only, a name that is no manada. *)
ResolveManada(r) ==
  /\ req[r].at = "manada" /\ call[r] = Free
  /\ \/ /\ \/ req[r].op = "submit" /\ req' = [req EXCEPT ![r].at = "write"]
           \/ \E m \in ActiveManadas :
                req[r].op = "register" /\ req' = [req EXCEPT ![r].at = "write", ![r].manada = m]
        /\ UNCHANGED <<manadas, call>>
     \/ /\ \E s \in Spellings : FindOrCreate(r, s, FALSE)
        /\ UNCHANGED req
  /\ UNCHANGED <<access, history>>

(* findOrCreate returned a manada. *)
TakeManada(r) ==
  /\ req[r].at = "manada" /\ call[r].at = "found"
  /\ req' = [req EXCEPT ![r].at = "write",
                         ![r].manada = IF req[r].op = "register" THEN call[r].row ELSE @]
  /\ Return(r)
  /\ UNCHANGED <<manadas, access, history>>

(* Mutant: the verdict of an earlier request stays on the row. *)
SubmitRequest_KeepsVerdict(r) ==
  /\ req[r].at = "write" /\ req[r].op = "submit"
  /\ WritesRequest(r, [request[req[r].whatsapp] EXCEPT !.status = "PENDING"])
  /\ UNCHANGED <<manadas, call, allowed, lastId, users, letIn>>

(* The submission inserts the row or overwrites the one there, whatever it says by now. *)
SubmitRequest(r) ==
  /\ req[r].at = "write" /\ req[r].op = "submit"
  /\ WritesRequest(r, [status |-> "PENDING", reviewed |-> "none"])
  /\ UNCHANGED <<manadas, call, allowed, lastId, users, letIn>>

(* Mutant: the request is marked approved even where the account could not be created. *)
CreateStudent_MarksAnyway(r) ==
  /\ req[r].at = "write" /\ req[r].op = "register"
  /\ users' = IF Unique(req[r].whatsapp, req[r].email)
              THEN users \union {[whatsapp |-> req[r].whatsapp, email |-> req[r].email,
                                  manada |-> req[r].manada]}
              ELSE users
  /\ req' = [req EXCEPT ![r].at = "mark"]
  /\ UNCHANGED <<manadas, call, allowed, lastId, request, history>>

(* The account is created, unless the unique indexes on email and number refuse it: then
   another registration came first and this one ends. *)
CreateStudent(r) ==
  /\ req[r].at = "write" /\ req[r].op = "register"
  /\ IF Unique(req[r].whatsapp, req[r].email)
     THEN /\ users' = users \union {[whatsapp |-> req[r].whatsapp, email |-> req[r].email,
                                     manada |-> req[r].manada]}
          /\ req' = [req EXCEPT ![r].at = "mark"]
     ELSE /\ req' = [req EXCEPT ![r] = Idle]
          /\ UNCHANGED users
  /\ UNCHANGED <<manadas, call, allowed, lastId, request, history>>

(* markRegistered: the requests of the number and its aliases become approved; who reviewed
   them and when stays as it was. *)
MarkRegistered(r) ==
  /\ req[r].at = "mark"
  /\ LET found == {a \in Aliases[req[r].whatsapp] : request[a].status \notin {"absent", "APPROVED"}}
     IN /\ request' = [n \in Numbers |-> IF n \in found THEN [request[n] EXCEPT !.status = "APPROVED"]
                                         ELSE request[n]]
        /\ stale' = (stale \union UNION {Readers(a) : a \in found}) \ {r}
        /\ req' = [req EXCEPT ![r] = Idle]
  /\ UNCHANGED <<manadas, call, allowed, lastId, users, letIn>>

(* POST of an allowed number: a conflict where it is on the list.  The seed upserts its own
   numbers at every boot, those removed since among them. *)
AddAllowed(n) ==
  /\ allowed[n] = 0
  /\ Allow(n)
  /\ UNCHANGED <<manadas, call, request, users, req, stale>>

SeedAllowed(n) ==
  /\ n \in Seeded
  /\ Allow(n)
  /\ UNCHANGED <<manadas, call, request, users, req, stale>>

(* DELETE of an allowed number: the row is read, then deleted by its id. *)
RemoveRead(r, n) ==
  /\ allowed[n] # 0
  /\ Starts(r, "remove", "write", n, NoEmail, allowed[n])

RemoveAllowed(r) ==
  /\ req[r].at = "write" /\ req[r].op = "remove"
  /\ allowed' = [n \in Numbers |-> IF allowed[n] = req[r].row THEN 0 ELSE allowed[n]]
  /\ req' = [req EXCEPT ![r] = Idle]
  /\ UNCHANGED <<manadas, call, lastId, request, users, history>>

(* Mutant: a request already analysed may be analysed again. *)
ReviewRead_AnyStatus(r, n, op) ==
  /\ request[n].status # "absent"
  /\ Starts(r, op, "write", n, NoEmail, 0)

(* POST of an approval or a rejection: the request must be pending... *)
ReviewRead(r, n, op) ==
  /\ request[n].status = "PENDING"
  /\ Starts(r, op, "write", n, NoEmail, 0)

(* ...an approval puts the number on the list and updates the request in one transaction... *)
Approve(r) ==
  /\ req[r].at = "write" /\ req[r].op = "approve"
  /\ Allow(req[r].whatsapp)
  /\ WritesRequest(r, [request[req[r].whatsapp] EXCEPT !.status = "APPROVED",
                                                       !.reviewed = "APPROVED"])
  /\ UNCHANGED <<manadas, call, users>>

(* ...and a rejection updates the request: both whatever it says by now. *)
Reject(r) ==
  /\ req[r].at = "write" /\ req[r].op = "reject"
  /\ WritesRequest(r, [request[req[r].whatsapp] EXCEPT !.status = "REJECTED",
                                                       !.reviewed = "REJECTED"])
  /\ UNCHANGED <<manadas, call, allowed, lastId, users, letIn>>

(* A handler with nothing left to do ends, and any of them may: the process stops, a
   statement fails. *)
Ends(r) ==
  /\ req[r] # Idle \/ call[r] # Free
  /\ req' = [req EXCEPT ![r] = Idle]
  /\ stale' = stale \ {r}
  /\ Return(r)
  /\ UNCHANGED <<manadas, access, letIn>>

(* The public route and the seed call findOrCreate on their own. *)
CreatePublic(r, s, isSeed) ==
  /\ req[r] = Idle
  /\ FindOrCreate(r, s, isSeed)
  /\ UNCHANGED <<access, req, history>>

Handler(r) ==
  \/ \E n \in Numbers :
       \/ CheckWhatsapp(r, n) \/ RequestAccess(r, n) \/ \E e \in Emails : Register(r, n, e)
       \/ RemoveRead(r, n) \/ \E op \in {"approve", "reject"} : ReviewRead(r, n, op)
  \/ \E s \in Spellings, isSeed \in BOOLEAN : CreatePublic(r, s, isSeed)
  \/ FindUser(r) \/ FindAllowed(r) \/ FindRequest(r)
  \/ UpsertInterested(r) \/ SubmitRequest(r) \/ CreateStudent(r) \/ MarkRegistered(r)
  \/ ResolveManada(r) \/ TakeManada(r)
  \/ RemoveAllowed(r) \/ Approve(r) \/ Reject(r)
  \/ ManadasStep(r) /\ UNCHANGED <<access, req, history>>
  \/ Ends(r)

Next ==
  \/ \E r \in Requests : Handler(r)
  \/ \E n \in Numbers : AddAllowed(n) \/ SeedAllowed(n)

Spec == Init /\ [][Next]_vars
-----------------------------------------------------------------------------
(* Nobody has an account unless the number, or one with an alias in common, was released
   before, by the list, by a reviewer or by the seed: a landline that only asked registers
   once the mobile number whose alias it is has, whose registration approves its request. *)
RegisteredWasLetIn == \A u \in users : \E n \in letIn : Alike(u.whatsapp, n)

(* A request is approved because a reviewer approved it or because there is an account for
   it: markRegistered never runs ahead of an account, whichever step fails. *)
Serves(u, n) == n \in Aliases[u.whatsapp]
ApprovedHasCause ==
  \A n \in Numbers : request[n].status = "APPROVED" =>
    request[n].reviewed = "APPROVED" \/ \E u \in users : Serves(u, n)

(* A request waiting for a verdict shows no reviewer, and a rejected one the verdict that
   rejected it, however submissions and reviews of the number overlap. *)
ReviewMatchesStatus ==
  \A n \in Numbers :
    /\ request[n].status \in {"absent", "INTERESTED", "PENDING"} => request[n].reviewed = "none"
    /\ request[n].status = "REJECTED" => request[n].reviewed = "REJECTED"

(* An account points to an active manada, one found soft-deleted included. *)
ReferencesActive == \A u \in users : u.manada \in ActiveManadas

(* A verdict is replaced only by a new submission after a rejection, by a registration, or
   by a handler that went by another row, or by the same before it was written. *)
VerdictStands ==
  [][\A n \in Numbers :
       request[n].reviewed # "none" /\ request'[n] # request[n] =>
         \/ request[n].status = "REJECTED" /\ request'[n].status = "PENDING"
         \/ /\ request'[n] = [request[n] EXCEPT !.status = "APPROVED"]
            /\ \E u \in users : Serves(u, n)
         \/ \E r \in stale : req[r].whatsapp = n /\ req'[r] = Idle]_vars

(* What the refusal of a registration says, "Este WhatsApp não está liberado para cadastro.",
   and the comment of canonicalWhatsapp, "sem tocar em fixo": nobody registers a number that
   was not itself released.  A mobile number does on the release of the landline among its
   aliases, and, once it has, the landline that only asked. *)
OwnNumberReleased == \A u \in users : u.whatsapp \in letIn
===============================================================================
