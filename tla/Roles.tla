-------------------------------- MODULE Roles --------------------------------
(***************************************************************************)
(* Who holds which role, who may change it and the trail it leaves: the    *)
(* role change and the administrator's reset link                          *)
(* (src/src/modules/users, auth), the hierarchy (src/src/common/authz),    *)
(* and the seed (src/prisma/seed), which a new container runs at boot      *)
(* while the old one still serves.                                         *)
(*                                                                         *)
(* A request reads its actor (JwtStrategy.validate), then its target, then *)
(* writes in one transaction that looks at neither again.                  *)
(***************************************************************************)
EXTENDS Integers

CONSTANTS
  People,      \* users of the tenant
  Requests,    \* request slots: bounds how many handlers run at once
  AdminEmail,  \* the user of ADMIN_EMAIL
  SuperEmail,  \* the user of SUPER_ADMIN_EMAIL
  MaxTrail     \* bounds the rows ever inserted in audit_logs

(* Beside the slots, "seed" and "none", a registration, write roles. *)
ASSUME RolesAssumption ==
  /\ AdminEmail \in People /\ SuperEmail \in People /\ MaxTrail \in Nat
  /\ "seed" \notin Requests /\ "none" \notin Requests

VARIABLES
  role,   \* the role of each user, "none" without an account
  trail,  \* audit_logs: how many rows, and the last one
  req,    \* the handler each request slot runs and its local variables
  seed,   \* the seed: the user it is about, what it read and where it is
  stale   \* history: slots, and the seed, whose rows another changed since they read them

vars == <<role, trail, req, seed, stale>>

Roles   == {"STUDENT", "ADMIN", "ADMIN_SENIOR", "SUPER_ADMIN"}
Level   == [STUDENT |-> 0, ADMIN |-> 10, ADMIN_SENIOR |-> 20, SUPER_ADMIN |-> 30]
Idle    == [at |-> "idle"]
Off     == [at |-> "off"]

TypeOK ==
  /\ role \in [People -> Roles \union {"none"}]
  /\ trail.rows \in 0..MaxTrail
  /\ trail.rows > 0 =>
       trail.last \in [event : {"ROLE_CHANGED"}, actor : People, target : People,
                      from : Roles, to : Roles]
                       \union [event : {"PASSWORD_RESET_ISSUED"}, actor : People, target : People]
  /\ DOMAIN req = Requests
  /\ \A r \in Requests :
       req[r] = Idle \/ (req[r].at \in {"target", "change", "link"} /\ req[r].actor \in People)
  /\ seed.at \in {"off", "admin", "super", "raise", "create"}
  /\ stale \subseteq Requests \union {"seed"}

(* An earlier deploy may have named others in its settings: any roles may be there. *)
Init ==
  /\ role \in [People -> Roles \union {"none"}]
  /\ trail = [rows |-> 0, last |-> "none"]
  /\ req = [r \in Requests |-> Idle]
  /\ seed = Off
  /\ stale = {}

-----------------------------------------------------------------------------
HasAtLeast(r, min)       == Level[r] >= Level[min]
IsAssignableRole(r)      == r # "SUPER_ADMIN"

(* Mutant: not strict, so that the top manages the top. *)
CanManageRole_OrEqual(actorRole, targetRole) == Level[actorRole] >= Level[targetRole]

CanManageRole(actorRole, targetRole) == Level[actorRole] > Level[targetRole]
CanAssignRole(actorRole, next) == IsAssignableRole(next) /\ Level[actorRole] > Level[next]

(* Those with a decision pending on what they read of the row of p. *)
Readers(p) ==
  {r \in Requests : req[r] # Idle /\ (p = req[r].actor \/ (req[r].at # "target" /\ p = req[r].target))}
    \union {s \in {"seed"} : seed.at \in {"raise", "create"} /\ seed.user = p}

(* who writes the role of p. *)
SetRole(who, p, new) ==
  /\ role' = [role EXCEPT ![p] = new]
  /\ stale' = (stale \union (IF role[p] = new THEN {} ELSE Readers(p))) \ {who}

(* The guards of an administrator's route: the actor is read from the database, whatever
   role the token says. *)
Authorize(r, actor, target, event) ==
  /\ req[r] = Idle
  /\ role[actor] # "none" /\ HasAtLeast(role[actor], "ADMIN_SENIOR")
  /\ req' = [req EXCEPT ![r] = [at |-> "target", actor |-> actor, target |-> target,
                               actorRole |-> role[actor], event |-> event]]
  /\ UNCHANGED <<role, trail, seed, stale>>

(* changeUserRole: another user, below the actor, and a new role below the actor's; a role
   already held changes nothing and leaves no trail. *)
ReadTarget(r) ==
  /\ req[r].at = "target" /\ req[r].event = "ROLE_CHANGED"
  /\ LET target == req[r].target
     IN /\ target # req[r].actor /\ role[target] # "none"
        /\ CanManageRole(req[r].actorRole, role[target])
        /\ \E next \in Roles \ {role[target]} :
             /\ CanAssignRole(req[r].actorRole, next)
             /\ req' = [req EXCEPT ![r] = [at |-> "change", actor |-> req[r].actor,
                                          target |-> target, from |-> role[target], to |-> next]]
  /\ UNCHANGED <<role, trail, seed, stale>>

(* A row of audit_logs is inserted. *)
Log(row) ==
  /\ trail.rows < MaxTrail
  /\ trail' = [rows |-> trail.rows + 1, last |-> row]

(* Mutant: the update looks for the role that was read, the trail is written all the same. *)
UpdateRole_IfUnchanged(r) ==
  /\ req[r].at = "change"
  /\ SetRole(r, req[r].target,
             IF role[req[r].target] = req[r].from THEN req[r].to ELSE role[req[r].target])
  /\ Log([event |-> "ROLE_CHANGED", actor |-> req[r].actor,
          target |-> req[r].target, from |-> req[r].from, to |-> req[r].to])
  /\ req' = [req EXCEPT ![r] = Idle]
  /\ UNCHANGED seed

(* updateRoleWithAudit: the role, whatever it is by now, and the trail in one transaction. *)
UpdateRole(r) ==
  /\ req[r].at = "change"
  /\ SetRole(r, req[r].target, req[r].to)
  /\ Log([event |-> "ROLE_CHANGED", actor |-> req[r].actor,
          target |-> req[r].target, from |-> req[r].from, to |-> req[r].to])
  /\ req' = [req EXCEPT ![r] = Idle]
  /\ UNCHANGED seed

(* Mutant: a link is issued for anyone. *)
ReadResetTarget_Anyone(r) ==
  /\ req[r].at = "target" /\ req[r].event = "PASSWORD_RESET_ISSUED"
  /\ role[req[r].target] # "none"
  /\ req' = [req EXCEPT ![r] = [at |-> "link", actor |-> req[r].actor, target |-> req[r].target]]
  /\ UNCHANGED <<role, trail, seed, stale>>

(* issueAdminPasswordReset: the target is below the actor... *)
ReadResetTarget(r) ==
  /\ req[r].at = "target" /\ req[r].event = "PASSWORD_RESET_ISSUED"
  /\ role[req[r].target] # "none" /\ CanManageRole(req[r].actorRole, role[req[r].target])
  /\ req' = [req EXCEPT ![r] = [at |-> "link", actor |-> req[r].actor, target |-> req[r].target]]
  /\ UNCHANGED <<role, trail, seed, stale>>

(* ...and the link is issued (Sessions has its row) and appended to the trail. *)
IssueLink(r) ==
  /\ req[r].at = "link"
  /\ Log([event |-> "PASSWORD_RESET_ISSUED", actor |-> req[r].actor,
          target |-> req[r].target])
  /\ req' = [req EXCEPT ![r] = Idle]
  /\ stale' = stale \ {r}
  /\ UNCHANGED <<role, seed>>

(* Refused, or the process stops. *)
Ends(r) ==
  /\ req[r] # Idle
  /\ req' = [req EXCEPT ![r] = Idle]
  /\ stale' = stale \ {r}
  /\ UNCHANGED <<role, trail, seed>>

(* A registration creates a student. *)
Register(p) ==
  /\ role[p] = "none"
  /\ SetRole("none", p, "STUDENT")
  /\ UNCHANGED <<trail, req, seed>>

(* A container boots and its seed begins with seedAdmin. *)
Boot ==
  /\ seed = Off
  /\ seed' = [at |-> "admin"]
  /\ UNCHANGED <<role, trail, req, stale>>

SeedRole(at) == IF at = "admin" THEN "ADMIN" ELSE "SUPER_ADMIN"
SeedUser(at) == IF at = "admin" THEN AdminEmail ELSE SuperEmail
After(to)    == IF to = "ADMIN" THEN [at |-> "super"] ELSE Off

(* Mutant: whoever has another role is given the one of the settings. *)
SeedReads_OtherRole ==
  /\ seed.at \in {"admin", "super"}
  /\ LET to == SeedRole(seed.at)  user == SeedUser(seed.at)
     IN seed' = IF role[user] = "none" THEN [at |-> "create", user |-> user, to |-> to]
                ELSE IF role[user] # to THEN [at |-> "raise", user |-> user, to |-> to]
                ELSE After(to)
  /\ UNCHANGED <<role, trail, req, stale>>

(* seedAdmin, then seedSuperAdmin: the user is read, to be raised if below the role of the
   settings, or created... *)
SeedReads ==
  /\ seed.at \in {"admin", "super"}
  /\ LET to == SeedRole(seed.at)  user == SeedUser(seed.at)
     IN seed' = IF role[user] = "none" THEN [at |-> "create", user |-> user, to |-> to]
                ELSE IF Level[role[user]] < Level[to] THEN [at |-> "raise", user |-> user, to |-> to]
                ELSE After(to)
  /\ UNCHANGED <<role, trail, req, stale>>

(* ...without a password in the settings no one is created, and without an email or a
   password nobody becomes SUPER_ADMIN. *)
SeedSkips ==
  /\ \/ seed.at = "super" /\ seed' = Off
     \/ seed.at = "create" /\ seed' = After(seed.to)
  /\ stale' = stale \ {"seed"}
  /\ UNCHANGED <<role, trail, req>>

(* ...the role is written whatever it is by now, and no trail is left... *)
SeedRaises ==
  /\ seed.at = "raise"
  /\ SetRole("seed", seed.user, seed.to)
  /\ seed' = After(seed.to)
  /\ UNCHANGED <<trail, req>>

(* ...and where the user registered meanwhile the insert fails, and the seed with it. *)
SeedCreates ==
  /\ seed.at = "create"
  /\ IF role[seed.user] = "none"
     THEN /\ SetRole("seed", seed.user, seed.to)
          /\ seed' = After(seed.to)
     ELSE /\ seed' = Off
          /\ stale' = stale \ {"seed"}
          /\ UNCHANGED role
  /\ UNCHANGED <<trail, req>>

SeedStops ==
  /\ seed # Off
  /\ seed' = Off
  /\ stale' = stale \ {"seed"}
  /\ UNCHANGED <<role, trail, req>>

Handler(r) ==
  \/ \E a, t \in People, event \in {"ROLE_CHANGED", "PASSWORD_RESET_ISSUED"} :
       Authorize(r, a, t, event)
  \/ ReadTarget(r) \/ UpdateRole(r) \/ ReadResetTarget(r) \/ IssueLink(r) \/ Ends(r)

Seed == Boot \/ SeedReads \/ SeedSkips \/ SeedRaises \/ SeedCreates \/ SeedStops

Next == (\E r \in Requests : Handler(r)) \/ (\E p \in People : Register(p)) \/ Seed

Spec == Init /\ [][Next]_vars
-----------------------------------------------------------------------------
Logged == trail'.rows > trail.rows
Entry  == trail'.last
Writer == CHOOSE r \in Requests : req[r] # Idle /\ req'[r] = Idle

(* The top only changes by deploy: SUPER_ADMIN is given by the seed to the user of the
   settings and taken from nobody, except by a request that read an older role. *)
TopOnlyByDeploy ==
  [][\A p \in People : (role[p] = "SUPER_ADMIN") # (role'[p] = "SUPER_ADMIN") =>
       \/ p = SuperEmail /\ role'[p] = "SUPER_ADMIN" /\ seed.at \in {"raise", "create"}
       \/ Logged /\ Writer \in stale]_vars

(* The comment of seedAdmin, "promove quem esta ABAIXO de ADMIN": no boot takes a role from
   anybody, unless it was changed between the read and the write of the seed, which undoes
   a promotion that came between them. *)
SeedOnlyRaises ==
  [][\A p \in People :
       role'[p] # role[p] /\ ~Logged /\ role[p] # "none" =>
         Level[role[p]] < Level[role'[p]] \/ "seed" \in stale]_vars

(* Whoever is in the trail as an actor outranked the target when it was written, before
   and after, unless either row changed since it was read. *)
ActorsOutrank ==
  [][Logged /\ Writer \notin stale =>
       /\ CanManageRole(role[Entry.actor], role[Entry.target])
       /\ CanManageRole(role'[Entry.actor], role'[Entry.target])]_vars

(* The trail tells what happened: the role it says a user was given is the one it has, and
   the one it says it had, another, is true unless the row changed since it was read. *)
TrailTells ==
  [][Logged /\ Entry.event = "ROLE_CHANGED" =>
       /\ role'[Entry.target] = Entry.to
       /\ Writer \in stale \/ (role[Entry.target] = Entry.from /\ Entry.from # Entry.to)]_vars
=============================================================================
