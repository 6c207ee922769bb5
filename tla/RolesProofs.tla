----------------------------- MODULE RolesProofs -----------------------------
(***************************************************************************)
(* Proofs about Roles, for any people and number of concurrent requests.   *)
(* What a request or the seed read of a row is still true of it, unless    *)
(* another changed it since: that is what stale stands for (ReqInv,        *)
(* SeedInv), and what the decisions made on it rest on.                    *)
(***************************************************************************)
EXTENDS Roles, TLAPS

(* A request keeps whom it is about, and has decided by the rows it read. *)
ReqInv(r) ==
  /\ req[r].at \in {"target", "change", "link"} =>
       req[r].actor \in People /\ req[r].target \in People
  /\ req[r].at = "target" =>
       /\ req[r].actorRole \in Roles
       /\ r \in stale \/ role[req[r].actor] = req[r].actorRole
  /\ req[r].at = "change" =>
       /\ req[r].from \in Roles \ {"SUPER_ADMIN"} /\ req[r].to \in Roles \ {"SUPER_ADMIN"}
       /\ req[r].from # req[r].to /\ req[r].target # req[r].actor
       /\ \/ r \in stale
          \/ /\ role[req[r].actor] \in Roles /\ role[req[r].target] = req[r].from
             /\ CanManageRole(role[req[r].actor], req[r].from)
             /\ CanManageRole(role[req[r].actor], req[r].to)
  /\ req[r].at = "link" =>
       r \in stale \/ CanManageRole(role[req[r].actor], role[req[r].target])

(* So has the seed, and nobody but the seed makes a SUPER_ADMIN. *)
SeedInv ==
  seed.at \in {"raise", "create"} =>
    /\ seed.user \in People
    /\ \/ seed.to = "ADMIN" /\ (seed.at = "raise" => role[seed.user] # "SUPER_ADMIN")
       \/ seed.to = "SUPER_ADMIN" /\ seed.user = SuperEmail
    /\ seed.at = "raise" =>
         /\ role[seed.user] # "none"
         /\ "seed" \in stale \/ Level[role[seed.user]] < Level[seed.to]

IInv ==
  /\ TypeOK
  /\ \A r \in Requests : ReqInv(r)
  /\ SeedInv

-----------------------------------------------------------------------------
(* The types of the rows and slots do not depend on what is decided. *)
LEMMA TypeStep == IInv /\ [Next]_vars => TypeOK'
<1> SUFFICES ASSUME IInv, [Next]_vars PROVE TypeOK'
  OBVIOUS
<1> USE DEF IInv
<1>1. CASE UNCHANGED vars
  BY <1>1 DEF vars, TypeOK
<1>2. ASSUME NEW r \in Requests, Handler(r) PROVE TypeOK'
  <2>1. ASSUME NEW a \in People, NEW t \in People,
               NEW event \in {"ROLE_CHANGED", "PASSWORD_RESET_ISSUED"}, Authorize(r, a, t, event)
        PROVE  TypeOK'
    BY <2>1 DEF Authorize, TypeOK, Idle
  <2>2. CASE ReadTarget(r)
    BY <2>2 DEF ReadTarget, ReqInv, TypeOK, Idle
  <2>3. CASE UpdateRole(r)
    BY <2>3, RolesAssumption DEF UpdateRole, SetRole, Readers, Log, ReqInv, TypeOK, Idle
  <2>4. CASE ReadResetTarget(r)
    BY <2>4 DEF ReadResetTarget, ReqInv, TypeOK, Idle
  <2>5. CASE IssueLink(r)
    BY <2>5, RolesAssumption DEF IssueLink, Log, ReqInv, TypeOK, Idle
  <2>6. CASE Ends(r)
    BY <2>6 DEF Ends, TypeOK
  <2> QED BY <1>2, <2>1, <2>2, <2>3, <2>4, <2>5, <2>6 DEF Handler
<1>3. ASSUME NEW p \in People, Register(p) PROVE TypeOK'
  BY <1>3 DEF Register, SetRole, Readers, TypeOK, Roles
<1>4. CASE Seed
  <2>1. CASE Boot
    BY <2>1 DEF Boot, TypeOK
  <2>2. CASE SeedReads
    BY <2>2 DEF SeedReads, After, Off, TypeOK
  <2>3. CASE SeedSkips
    BY <2>3 DEF SeedSkips, After, Off, TypeOK
  <2>4. CASE SeedRaises
    BY <2>4 DEF SeedRaises, SetRole, Readers, After, Off, SeedInv, TypeOK, Roles
  <2>5. CASE SeedCreates
    BY <2>5 DEF SeedCreates, SetRole, Readers, After, Off, SeedInv, TypeOK, Roles
  <2>6. CASE SeedStops
    BY <2>6 DEF SeedStops, Off, TypeOK
  <2> QED BY <1>4, <2>1, <2>2, <2>3, <2>4, <2>5, <2>6 DEF Seed
<1> QED BY <1>1, <1>2, <1>3, <1>4 DEF Next

-----------------------------------------------------------------------------
(* A change of a role makes stale whoever decides by it: the others keep what they know. *)
LEMMA OthersKeep ==
  ASSUME IInv, NEW who, NEW p \in People, NEW new, SetRole(who, p, new),
         NEW r \in Requests, r # who, req'[r] = req[r]
  PROVE  ReqInv(r)'
<1>1. TypeOK /\ ReqInv(r)
  BY DEF IInv
<1>2. r \in stale => r \in stale'
  BY DEF SetRole
<1>3. \A q \in People : q # p => role'[q] = role[q]
  BY <1>1 DEF SetRole, TypeOK
<1>4. \/ role'[p] = role[p]
      \/ r \in stale'
      \/ req[r] = Idle
      \/ /\ p # req[r].actor
         /\ req[r].at = "target" \/ p # req[r].target
  BY <1>1 DEF SetRole, Readers, TypeOK
<1>5. req[r] = Idle => req[r].at = "idle"
  BY DEF Idle
<1> QED BY <1>1, <1>2, <1>3, <1>4, <1>5 DEF ReqInv

LEMMA SeedKeeps ==
  ASSUME IInv, NEW who, NEW p \in People, NEW new \in {"STUDENT", "ADMIN", "ADMIN_SENIOR"},
         SetRole(who, p, new), who # "seed", seed' = seed
  PROVE  SeedInv'
<1>1. TypeOK /\ SeedInv
  BY DEF IInv
<1>2. "seed" \in stale => "seed" \in stale'
  BY DEF SetRole
<1>3. role' = [role EXCEPT ![p] = new]
  BY DEF SetRole
<1>4. role' = role \/ seed.at \notin {"raise", "create"} \/ seed.user # p \/ "seed" \in stale'
  BY <1>1 DEF SetRole, Readers, TypeOK
<1> QED BY <1>1, <1>2, <1>3, <1>4 DEF SeedInv, TypeOK

LEMMA SlotStep ==
  ASSUME IInv, NEW r \in Requests, Handler(r)
  PROVE  ReqInv(r)' /\ \A p \in Requests : p # r => req'[p] = req[p]
<1>1. TypeOK /\ ReqInv(r) /\ DOMAIN req = Requests
  BY DEF IInv, TypeOK
<1>2. \A p \in People : role[p] # "none" => role[p] \in Roles
  BY <1>1 DEF TypeOK
<1>3. ASSUME NEW a \in People, NEW t \in People,
             NEW event \in {"ROLE_CHANGED", "PASSWORD_RESET_ISSUED"}, Authorize(r, a, t, event)
      PROVE  ReqInv(r)' /\ \A p \in Requests : p # r => req'[p] = req[p]
  BY <1>1, <1>2, <1>3 DEF Authorize, ReqInv
<1>4. CASE ReadTarget(r)
  <2>1. PICK next \in Roles \ {role[req[r].target]} :
          /\ CanAssignRole(req[r].actorRole, next)
          /\ req' = [req EXCEPT ![r] = [at |-> "change", actor |-> req[r].actor,
                                       target |-> req[r].target,
                                       from |-> role[req[r].target], to |-> next]]
    BY <1>4 DEF ReadTarget
  <2>2. /\ req[r].actor \in People /\ req[r].target \in People /\ req[r].actorRole \in Roles
        /\ r \in stale \/ role[req[r].actor] = req[r].actorRole
        /\ role[req[r].target] \in Roles
        /\ CanManageRole(req[r].actorRole, role[req[r].target]) /\ req[r].target # req[r].actor
        /\ UNCHANGED <<role, stale>>
    BY <1>1, <1>2, <1>4 DEF ReadTarget, ReqInv
  <2>3. role[req[r].target] # "SUPER_ADMIN" /\ next # "SUPER_ADMIN"
        /\ CanManageRole(req[r].actorRole, next)
    BY <2>1, <2>2 DEF CanAssignRole, CanManageRole, IsAssignableRole, Roles, Level
  <2> QED BY <1>1, <2>1, <2>2, <2>3 DEF ReqInv
<1>5. CASE ReadResetTarget(r)
  BY <1>1, <1>5 DEF ReadResetTarget, ReqInv
<1>6. CASE UpdateRole(r) \/ IssueLink(r) \/ Ends(r)
  BY <1>1, <1>6 DEF UpdateRole, IssueLink, Ends, Idle, ReqInv
<1> QED BY <1>3, <1>4, <1>5, <1>6 DEF Handler

LEMMA SeedStep ==
  ASSUME IInv, Seed
  PROVE  SeedInv'
<1>1. TypeOK /\ SeedInv
  BY DEF IInv
<1>2. CASE SeedReads
  BY <1>1, <1>2, RolesAssumption
     DEF SeedReads, SeedRole, SeedUser, After, Off, SeedInv, TypeOK, Level, Roles
<1>3. CASE Boot \/ SeedSkips \/ SeedRaises \/ SeedCreates \/ SeedStops
  BY <1>1, <1>3 DEF Boot, SeedSkips, SeedRaises, SeedCreates, SeedStops, After, Off, SeedInv
<1> QED BY <1>2, <1>3 DEF Seed

LEMMA Inductive == IInv /\ [Next]_vars => IInv'
<1> SUFFICES ASSUME IInv, [Next]_vars PROVE IInv'
  OBVIOUS
<1>1. TypeOK'
  BY TypeStep
<1>2. ASSUME NEW r \in Requests, ReqInv(r), req'[r] = req[r], role' = role,
             r \in stale => r \in stale'
      PROVE  ReqInv(r)'
  BY <1>2 DEF ReqInv
<1>3. SeedInv /\ seed' = seed /\ role' = role /\ ("seed" \in stale => "seed" \in stale') => SeedInv'
  BY DEF SeedInv
<1>4. CASE UNCHANGED vars
  BY <1>1, <1>2, <1>3, <1>4 DEF vars, IInv
<1>5. ASSUME NEW r \in Requests, Handler(r) PROVE IInv'
  <2>1. ReqInv(r)' /\ \A p \in Requests : p # r => req'[p] = req[p]
    BY <1>5, SlotStep
  <2>2. seed' = seed
    BY <1>5 DEF Handler, Authorize, ReadTarget, UpdateRole, ReadResetTarget, IssueLink, Ends
  <2>3. CASE UpdateRole(r)
    <3>1. req[r].target \in People /\ req[r].to \in {"STUDENT", "ADMIN", "ADMIN_SENIOR"}
      BY <2>3 DEF UpdateRole, IInv, ReqInv, Roles
    <3>2. SetRole(r, req[r].target, req[r].to)
      BY <2>3 DEF UpdateRole
    <3>3. SeedInv'
      BY <2>2, <3>1, <3>2, SeedKeeps, RolesAssumption
    <3>4. \A p \in Requests : ReqInv(p)'
      BY <2>1, <3>1, <3>2, OthersKeep
    <3> QED BY <1>1, <3>3, <3>4 DEF IInv
  <2>4. CASE ~UpdateRole(r)
    <3>1. role' = role /\ \A s \in stale : s # r => s \in stale'
      BY <1>5, <2>4 DEF Handler, Authorize, ReadTarget, ReadResetTarget, IssueLink, Ends
    <3> QED BY <1>1, <1>2, <1>3, <2>1, <2>2, <3>1, RolesAssumption DEF IInv
  <2> QED BY <2>3, <2>4
<1>6. ASSUME NEW p \in People, Register(p) PROVE IInv'
  <2>1. SetRole("none", p, "STUDENT") /\ req' = req /\ seed' = seed
    BY <1>6 DEF Register
  <2>2. SeedInv'
    BY <2>1, SeedKeeps
  <2>3. \A r \in Requests : ReqInv(r)'
    BY <2>1, OthersKeep, RolesAssumption
  <2> QED BY <1>1, <2>2, <2>3 DEF IInv
<1>7. CASE Seed
  <2>1. SeedInv' /\ req' = req
    BY <1>7, SeedStep DEF Seed, Boot, SeedReads, SeedSkips, SeedRaises, SeedCreates, SeedStops
  <2>2. CASE \E p \in People, new \in Roles : SetRole("seed", p, new)
    BY <1>1, <2>1, <2>2, OthersKeep, RolesAssumption DEF IInv
  <2>3. CASE role' = role /\ \A r \in stale : r # "seed" => r \in stale'
    BY <1>1, <1>2, <2>1, <2>3, RolesAssumption DEF IInv
  <2>4. SeedRaises => \E p \in People, new \in Roles : SetRole("seed", p, new)
    BY DEF SeedRaises, IInv, SeedInv, Roles
  <2>5. SeedCreates => \/ \E p \in People, new \in Roles : SetRole("seed", p, new)
                       \/ role' = role /\ \A r \in stale : r # "seed" => r \in stale'
    BY DEF SeedCreates, IInv, SeedInv, Roles
  <2>6. Boot \/ SeedReads \/ SeedSkips \/ SeedStops
          => role' = role /\ \A r \in stale : r # "seed" => r \in stale'
    BY DEF Boot, SeedReads, SeedSkips, SeedStops
  <2> QED BY <1>7, <2>2, <2>3, <2>4, <2>5, <2>6 DEF Seed
<1> QED BY <1>4, <1>5, <1>6, <1>7 DEF Next

LEMMA Always == Spec => []IInv
<1>1. Init => IInv
  BY RolesAssumption DEF Init, IInv, TypeOK, ReqInv, SeedInv, Idle, Off
<1> QED BY <1>1, Inductive, PTL DEF Spec

-----------------------------------------------------------------------------
(* What writes a role or the trail, and who. *)
LEMMA Writes ==
  ASSUME IInv, [Next]_vars
  PROVE  \/ role' = role /\ ~Logged
         \/ \E r \in Requests : (UpdateRole(r) \/ IssueLink(r)) /\ Writer = r /\ Logged
         \/ ~Logged /\ \E p \in People : Register(p)
         \/ ~Logged /\ (SeedRaises \/ SeedCreates)
<1>0. TypeOK /\ trail.rows \in Int
  BY DEF IInv, TypeOK
<1>1. CASE UNCHANGED vars
  BY <1>0, <1>1 DEF vars, Logged
<1>2. ASSUME NEW r \in Requests, UpdateRole(r) \/ IssueLink(r)
      PROVE  Writer = r /\ Logged
  <2>1. Logged
    BY <1>0, <1>2 DEF UpdateRole, IssueLink, Log, Logged
  <2>2. req' = [req EXCEPT ![r] = Idle] /\ req[r] # Idle /\ DOMAIN req = Requests
    BY <1>0, <1>2 DEF UpdateRole, IssueLink, Idle, TypeOK
  <2>3. \A p \in Requests : (req[p] # Idle /\ req'[p] = Idle) <=> p = r
    BY <2>2
  <2> QED BY <2>1, <2>3 DEF Writer
<1>3. ASSUME NEW r \in Requests, Handler(r), ~UpdateRole(r), ~IssueLink(r)
      PROVE  role' = role /\ ~Logged
  BY <1>0, <1>3 DEF Handler, Authorize, ReadTarget, ReadResetTarget, Ends, Logged
<1>4. ASSUME NEW p \in People, Register(p) PROVE ~Logged
  BY <1>0, <1>4 DEF Register, Logged
<1>5. CASE Seed
  BY <1>0, <1>5
     DEF Seed, Boot, SeedReads, SeedSkips, SeedRaises, SeedCreates, SeedStops, Logged
<1> QED BY <1>1, <1>2, <1>3, <1>4, <1>5 DEF Next

(* Every role, every row of the trail and every local variable keeps its type. *)
THEOREM TypeCorrect == Spec => []TypeOK
<1>1. IInv => TypeOK
  BY DEF IInv
<1> QED BY <1>1, Always, PTL

(* However many administrators, registrations and boots overlap, SUPER_ADMIN is given by the
   seed alone, to the user of the settings, and taken only by a request that read an older
   role. *)
THEOREM TopByDeploy == Spec => TopOnlyByDeploy
<1>1. ASSUME IInv, [Next]_vars, NEW p \in People,
             (role[p] = "SUPER_ADMIN") # (role'[p] = "SUPER_ADMIN")
      PROVE  \/ p = SuperEmail /\ role'[p] = "SUPER_ADMIN" /\ seed.at \in {"raise", "create"}
             \/ Logged /\ Writer \in stale
  <2>1. TypeOK /\ SeedInv
    BY <1>1 DEF IInv
  <2>2. CASE \E r \in Requests : (UpdateRole(r) \/ IssueLink(r)) /\ Writer = r /\ Logged
    <3>1. PICK r \in Requests : (UpdateRole(r) \/ IssueLink(r)) /\ Writer = r /\ Logged
      BY <2>2
    <3>2. UpdateRole(r) /\ ReqInv(r)
      BY <1>1, <3>1 DEF IInv, IssueLink
    <3>3. /\ req[r].from # "SUPER_ADMIN" /\ req[r].to # "SUPER_ADMIN"
          /\ r \in stale \/ role[req[r].target] = req[r].from
      BY <3>2 DEF UpdateRole, ReqInv
    <3>4. p = req[r].target /\ role'[p] = req[r].to
      BY <1>1, <2>1, <3>2 DEF UpdateRole, SetRole, TypeOK
    <3>5. r \in stale
      BY <1>1, <3>3, <3>4
    <3> QED BY <3>1, <3>5
  <2>3. CASE \E q \in People : Register(q)
    BY <1>1, <2>1, <2>3 DEF Register, SetRole, TypeOK
  <2>4. CASE SeedRaises
    BY <1>1, <2>1, <2>4 DEF SeedRaises, SetRole, SeedInv, TypeOK
  <2>5. CASE SeedCreates
    BY <1>1, <2>1, <2>5 DEF SeedCreates, SetRole, SeedInv, TypeOK
  <2> QED BY <1>1, <2>2, <2>3, <2>4, <2>5, Writes
<1>2. IInv /\ [Next]_vars =>
        [\A p \in People : (role[p] = "SUPER_ADMIN") # (role'[p] = "SUPER_ADMIN") =>
           \/ p = SuperEmail /\ role'[p] = "SUPER_ADMIN" /\ seed.at \in {"raise", "create"}
           \/ Logged /\ Writer \in stale]_vars
  BY <1>1
<1> QED BY <1>2, Always, PTL DEF Spec, TopOnlyByDeploy

(* No boot takes a role from anybody that nobody changed meanwhile. *)
THEOREM SeedRaisesOnly == Spec => SeedOnlyRaises
<1>1. ASSUME IInv, [Next]_vars, NEW p \in People,
             role'[p] # role[p], ~Logged, role[p] # "none"
      PROVE  Level[role[p]] < Level[role'[p]] \/ "seed" \in stale
  <2>1. TypeOK /\ SeedInv
    BY <1>1 DEF IInv
  <2>2. CASE \E q \in People : Register(q)
    BY <1>1, <2>1, <2>2 DEF Register, SetRole, TypeOK
  <2>3. CASE SeedRaises
    BY <1>1, <2>1, <2>3 DEF SeedRaises, SetRole, SeedInv, TypeOK
  <2>4. CASE SeedCreates
    BY <1>1, <2>1, <2>4 DEF SeedCreates, SetRole, SeedInv, TypeOK
  <2> QED BY <1>1, <2>2, <2>3, <2>4, Writes
<1>2. IInv /\ [Next]_vars =>
        [\A p \in People :
           role'[p] # role[p] /\ ~Logged /\ role[p] # "none" =>
             Level[role[p]] < Level[role'[p]] \/ "seed" \in stale]_vars
  BY <1>1
<1> QED BY <1>2, Always, PTL DEF Spec, SeedOnlyRaises

(* The actor of a row of the trail outranks its target, before and after what it tells of. *)
THEOREM ActorsOutrankTargets == Spec => ActorsOutrank
<1>1. ASSUME IInv, [Next]_vars, Logged, Writer \notin stale
      PROVE  /\ CanManageRole(role[Entry.actor], role[Entry.target])
             /\ CanManageRole(role'[Entry.actor], role'[Entry.target])
  <2>1. PICK r \in Requests : (UpdateRole(r) \/ IssueLink(r)) /\ Writer = r
    BY <1>1, Writes
  <2>2. TypeOK /\ ReqInv(r) /\ r \notin stale
    BY <1>1, <2>1 DEF IInv
  <2>3. CASE UpdateRole(r)
    <3>1. Entry.actor = req[r].actor /\ Entry.target = req[r].target
      BY <2>3 DEF UpdateRole, Log, Entry
    <3> QED BY <2>2, <2>3, <3>1 DEF UpdateRole, SetRole, ReqInv, TypeOK
  <2>4. CASE IssueLink(r)
    <3>1. Entry.actor = req[r].actor /\ Entry.target = req[r].target
      BY <2>4 DEF IssueLink, Log, Entry
    <3> QED BY <2>2, <2>4, <3>1 DEF IssueLink, ReqInv
  <2> QED BY <2>1, <2>3, <2>4
<1>2. IInv /\ [Next]_vars =>
        [Logged /\ Writer \notin stale =>
           /\ CanManageRole(role[Entry.actor], role[Entry.target])
           /\ CanManageRole(role'[Entry.actor], role'[Entry.target])]_vars
  BY <1>1
<1> QED BY <1>2, Always, PTL DEF Spec, ActorsOutrank

(* The trail tells the role a user was given, and the one it had. *)
THEOREM TrailTellsTruth == Spec => TrailTells
<1>1. ASSUME IInv, [Next]_vars, Logged, Entry.event = "ROLE_CHANGED"
      PROVE  /\ role'[Entry.target] = Entry.to
             /\ Writer \in stale \/ (role[Entry.target] = Entry.from /\ Entry.from # Entry.to)
  <2>1. PICK r \in Requests : (UpdateRole(r) \/ IssueLink(r)) /\ Writer = r
    BY <1>1, Writes
  <2>2. UpdateRole(r) /\ TypeOK /\ ReqInv(r)
    BY <1>1, <2>1 DEF IInv, IssueLink, Log, Entry
  <2>3. Entry.target = req[r].target /\ Entry.from = req[r].from /\ Entry.to = req[r].to
    BY <2>2 DEF UpdateRole, Log, Entry
  <2> QED BY <2>1, <2>2, <2>3 DEF UpdateRole, SetRole, ReqInv, TypeOK
<1>2. IInv /\ [Next]_vars =>
        [Logged /\ Entry.event = "ROLE_CHANGED" =>
           /\ role'[Entry.target] = Entry.to
           /\ Writer \in stale \/ (role[Entry.target] = Entry.from /\ Entry.from # Entry.to)]_vars
  BY <1>1
<1> QED BY <1>2, Always, PTL DEF Spec, TrailTells
=============================================================================
