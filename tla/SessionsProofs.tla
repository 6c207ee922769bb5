--------------------------- MODULE SessionsProofs ---------------------------
(***************************************************************************)
(* Proofs about Sessions, for any bounds and any number of concurrent      *)
(* requests; the last section is about one request at a time.              *)
(***************************************************************************)
EXTENDS Sessions, SequenceTheorems, FiniteSetTheorems, TLAPS

RefreshRow == [revoked : BOOLEAN, next : Nat]
LinkRow    == [used : BOOLEAN]
Origin     == [login : Nat, password : Nat]

(* The tokens a handler keeps are rows of their tables, which nothing deletes; a login that
   is past its check is of a verified user, and a reset verifies the address or found it
   verified. *)
SlotInv(r) ==
  /\ req[r].at \in {"verify", "issue"} => req[r] \in [at : {"verify", "issue"}, password : Nat]
  /\ req[r].at = "issue" => user.verified
  /\ req[r].at \in {"rotate", "reuse", "revoke"} =>
       req[r] \in [at : {"rotate", "reuse", "revoke"}, token : DOMAIN refresh]
  /\ req[r].at = "sweep" => req[r].token \in DOMAIN refresh
  /\ req[r].at \in {"claim", "change"} =>
       /\ req[r].token \in DOMAIN reset /\ req[r].verify \in BOOLEAN
       /\ user.verified \/ req[r].verify
  /\ req[r].at = "mark" => req[r].token \in DOMAIN verification

(* The first ancestor of a token is not younger than the token, so that the place of a new
   login is nobody's ancestor. *)
ChainInv ==
  /\ origin \in Seq(Origin)
  /\ \A t \in DOMAIN refresh : origin[t].login \in 1..t

(* The links issued and not yet in the trail are those of handlers about to write it, or of
   handlers that were lost. *)
Auditing == {r \in Requests : req[r].at = "audit"}
TrailInv == IsFiniteSet(Auditing) /\ audit + Cardinality(Auditing) <= issued

IInv ==
  /\ TypeOK
  /\ \A r \in Requests : SlotInv(r)
  /\ SessionsAreVerified /\ UsedMeansVerified
  /\ ChainInv /\ OneLivePerLogin
  /\ TrailInv

-----------------------------------------------------------------------------
(* The shape of a slot after a step. *)
LEMMA Slots ==
  ASSUME TypeOK, NEW r \in Requests, NEW local, Becomes(r, local)
  PROVE  /\ DOMAIN req' = Requests /\ req'[r] = local
         /\ \A p \in Requests : p # r => req'[p] = req[p]
BY DEF Becomes, TypeOK

(* An update of revokedAt changes nothing else. *)
LEMMA RevokeRows ==
  ASSUME TypeOK, NEW tokens
  PROVE  /\ Revoke(tokens) \in Seq(RefreshRow) /\ Len(Revoke(tokens)) = Len(refresh)
         /\ DOMAIN Revoke(tokens) = DOMAIN refresh
         /\ \A t \in DOMAIN refresh :
              /\ Revoke(tokens)[t].next = refresh[t].next
              /\ Revoke(tokens)[t].revoked <=> (refresh[t].revoked \/ t \in tokens)
<1>1. refresh \in Seq(RefreshRow) /\ DOMAIN refresh = 1..Len(refresh) /\ Len(refresh) \in Nat
  BY DEF TypeOK, RefreshRow
<1>2. \A t \in DOMAIN refresh : refresh[t] \in RefreshRow
  BY <1>1
<1>3. DOMAIN Revoke(tokens) = DOMAIN refresh
  BY DEF Revoke
<1>4. \A t \in DOMAIN refresh :
        /\ Revoke(tokens)[t] \in RefreshRow
        /\ Revoke(tokens)[t].next = refresh[t].next
        /\ Revoke(tokens)[t].revoked <=> (refresh[t].revoked \/ t \in tokens)
  BY <1>2 DEF Revoke, RefreshRow
<1>5. Revoke(tokens) \in [1..Len(refresh) -> RefreshRow]
  BY <1>1, <1>4 DEF Revoke
<1>6. Revoke(tokens) \in Seq(RefreshRow)
  BY <1>1, <1>5
<1>7. Len(Revoke(tokens)) = Len(refresh)
  BY <1>1, <1>3, <1>6
<1> QED BY <1>3, <1>4, <1>6, <1>7

(* A rotation, where it is still allowed: the token is revoked and points to its successor. *)
LEMMA RotateRows ==
  ASSUME TypeOK, NEW t \in DOMAIN refresh,
         refresh' = Append([Revoke({t}) EXCEPT ![t].next = Len(refresh) + 1],
                           [revoked |-> FALSE, next |-> 0])
  PROVE  /\ refresh' \in Seq(RefreshRow) /\ Len(refresh') = Len(refresh) + 1
         /\ refresh'[Len(refresh) + 1] = [revoked |-> FALSE, next |-> 0]
         /\ \A u \in DOMAIN refresh :
              /\ refresh'[u].next = IF u = t THEN Len(refresh) + 1 ELSE refresh[u].next
              /\ refresh'[u].revoked <=> (refresh[u].revoked \/ u = t)
<1> DEFINE R == Revoke({t})
           N == Len(refresh) + 1
           X == [R EXCEPT ![t].next = N]
           fresh == [revoked |-> FALSE, next |-> 0]
<1>1. /\ R \in Seq(RefreshRow) /\ Len(R) = Len(refresh)
      /\ \A u \in DOMAIN refresh :
           /\ R[u].next = refresh[u].next
           /\ R[u].revoked <=> (refresh[u].revoked \/ u \in {t})
  BY RevokeRows
<1>2. Len(refresh) \in Nat /\ DOMAIN refresh = 1..Len(refresh) /\ N \in Nat
  BY DEF TypeOK
<1> HIDE DEF R, N
<1>3. t \in 1..Len(R) /\ R[t] \in RefreshRow /\ [R[t] EXCEPT !.next = N] \in RefreshRow
  <2>1. t \in 1..Len(R) /\ R[t] \in RefreshRow
    BY <1>1, <1>2, ElementOfSeq
  <2> QED BY <2>1, <1>2 DEF RefreshRow
<1>4. X = [R EXCEPT ![t] = [R[t] EXCEPT !.next = N]]
  OBVIOUS
<1>5. /\ X \in Seq(RefreshRow) /\ Len(X) = Len(R)
      /\ \A u \in 1..Len(R) : X[u] = IF u = t THEN [R[t] EXCEPT !.next = N] ELSE R[u]
  <2> DEFINE e == [R[t] EXCEPT !.next = N]
  <2>1. e \in RefreshRow
    BY <1>3
  <2> HIDE DEF e
  <2>2. /\ [R EXCEPT ![t] = e] \in Seq(RefreshRow) /\ Len([R EXCEPT ![t] = e]) = Len(R)
        /\ \A u \in 1..Len(R) : [R EXCEPT ![t] = e][u] = IF u = t THEN e ELSE R[u]
    BY <2>1, <1>1, <1>3, ExceptSeq
  <2> QED BY <2>2, <1>4 DEF e
<1>6. fresh \in RefreshRow /\ refresh' = Append(X, fresh)
  BY DEF RefreshRow, R, N
<1> HIDE DEF X, fresh
<1>7. Append(X, fresh) \in Seq(RefreshRow) /\ Len(Append(X, fresh)) = Len(X) + 1
      /\ (\A u \in 1..Len(X) : Append(X, fresh)[u] = X[u]) /\ Append(X, fresh)[Len(X) + 1] = fresh
  BY <1>5, <1>6, AppendProperties
<1>8. /\ refresh' \in Seq(RefreshRow) /\ Len(refresh') = Len(X) + 1
      /\ \A u \in 1..Len(X) : refresh'[u] = X[u]
      /\ refresh'[Len(X) + 1] = fresh
  BY <1>6, <1>7
<1>9. \A u \in DOMAIN refresh : R[u] \in RefreshRow
  BY <1>1, <1>2
<1>10. \A u \in DOMAIN refresh :
          /\ X[u].next = IF u = t THEN N ELSE R[u].next
          /\ X[u].revoked = R[u].revoked
  BY <1>1, <1>2, <1>5, <1>9 DEF RefreshRow
<1>11. \A u \in DOMAIN refresh : refresh'[u] = X[u]
  BY <1>1, <1>2, <1>5, <1>8
<1>12. \A u \in DOMAIN refresh : refresh'[u].revoked <=> (refresh[u].revoked \/ u = t)
  BY <1>1, <1>10, <1>11
<1>13. \A u \in DOMAIN refresh :
         refresh'[u].next = IF u = t THEN Len(refresh) + 1 ELSE refresh[u].next
  BY <1>1, <1>10, <1>11 DEF N
<1> QED BY <1>1, <1>5, <1>8, <1>12, <1>13 DEF fresh

(* A login's token. *)
LEMMA IssueRows ==
  ASSUME TypeOK, refresh' = Append(refresh, [revoked |-> FALSE, next |-> 0])
  PROVE  /\ refresh' \in Seq(RefreshRow) /\ Len(refresh') = Len(refresh) + 1
         /\ refresh'[Len(refresh) + 1] = [revoked |-> FALSE, next |-> 0]
         /\ \A u \in DOMAIN refresh : refresh'[u] = refresh[u]
<1>1. refresh \in Seq(RefreshRow) /\ [revoked |-> FALSE, next |-> 0] \in RefreshRow
  BY DEF TypeOK, RefreshRow
<1>2. DOMAIN refresh = 1..Len(refresh)
  BY DEF TypeOK
<1> QED BY <1>1, <1>2, AppendProperties

(* A new reset link, and those it supersedes. *)
LEMMA ResetRows ==
  ASSUME TypeOK, NEW seen,
         reset' = Append([t \in DOMAIN reset |-> [used |-> reset[t].used \/ t \in seen]],
                         [used |-> FALSE])
  PROVE  /\ reset' \in Seq(LinkRow) /\ Len(reset') = Len(reset) + 1
         /\ ~reset'[Len(reset) + 1].used
         /\ \A t \in DOMAIN reset : reset'[t].used <=> (reset[t].used \/ t \in seen)
<1> DEFINE X == [t \in DOMAIN reset |-> [used |-> reset[t].used \/ t \in seen]]
<1>1. reset \in Seq(LinkRow) /\ DOMAIN reset = 1..Len(reset) /\ Len(reset) \in Nat
  BY DEF TypeOK, LinkRow
<1>2. \A t \in DOMAIN reset : [used |-> reset[t].used \/ t \in seen] \in LinkRow
  BY DEF LinkRow
<1>3. X \in [1..Len(reset) -> LinkRow]
  BY <1>1, <1>2
<1>4. X \in Seq(LinkRow) /\ Len(X) = Len(reset)
  BY <1>1, <1>3
<1>5. \A t \in DOMAIN reset : X[t].used <=> (reset[t].used \/ t \in seen)
  OBVIOUS
<1>6. [used |-> FALSE] \in LinkRow
  BY DEF LinkRow
<1> HIDE DEF X
<1>7. /\ Append(X, [used |-> FALSE]) \in Seq(LinkRow)
      /\ Len(Append(X, [used |-> FALSE])) = Len(X) + 1
      /\ \A t \in 1..Len(X) : Append(X, [used |-> FALSE])[t] = X[t]
      /\ Append(X, [used |-> FALSE])[Len(X) + 1] = [used |-> FALSE]
  BY <1>4, <1>6, AppendProperties
<1>8. reset' = Append(X, [used |-> FALSE])
  BY DEF X
<1> QED BY <1>1, <1>4, <1>5, <1>7, <1>8

-----------------------------------------------------------------------------
(* What the invariant says of the tables, as the proofs use it. *)
LEMMA Tables ==
  ASSUME IInv
  PROVE  /\ TypeOK /\ \A r \in Requests : SlotInv(r)
         /\ MaxRefresh \in Nat /\ MaxResets \in Nat /\ MaxVerifications \in Nat
         /\ refresh \in Seq(RefreshRow) /\ Len(refresh) \in Nat /\ DOMAIN refresh = 1..Len(refresh)
         /\ \A t \in DOMAIN refresh : refresh[t] \in RefreshRow
         /\ origin \in Seq(Origin) /\ Len(origin) = Len(refresh) /\ DOMAIN origin = 1..Len(refresh)
         /\ \A t \in DOMAIN refresh : origin[t] \in Origin
         /\ reset \in Seq(LinkRow) /\ Len(reset) \in Nat /\ DOMAIN reset = 1..Len(reset)
         /\ \A t \in DOMAIN reset : reset[t] \in LinkRow
         /\ verification \in Seq(LinkRow) /\ Len(verification) \in Nat
         /\ DOMAIN verification = 1..Len(verification)
         /\ \A t \in DOMAIN verification : verification[t] \in LinkRow
<1>1. /\ refresh \in Seq(RefreshRow) /\ origin \in Seq(Origin) /\ Len(origin) = Len(refresh)
      /\ reset \in Seq(LinkRow) /\ verification \in Seq(LinkRow)
  BY DEF IInv, TypeOK, ChainInv, RefreshRow, LinkRow
<1>2. /\ Len(refresh) \in Nat /\ DOMAIN refresh = 1..Len(refresh)
      /\ Len(reset) \in Nat /\ DOMAIN reset = 1..Len(reset) /\ DOMAIN origin = 1..Len(origin)
      /\ Len(verification) \in Nat /\ DOMAIN verification = 1..Len(verification)
  BY <1>1, LenProperties
<1>3. /\ \A t \in DOMAIN refresh : refresh[t] \in RefreshRow
      /\ \A t \in DOMAIN origin : origin[t] \in Origin
      /\ \A t \in DOMAIN reset : reset[t] \in LinkRow
      /\ \A t \in DOMAIN verification : verification[t] \in LinkRow
  BY <1>1, <1>2, ElementOfSeq
<1> QED BY <1>1, <1>2, <1>3, SessionsAssumption DEF IInv

(* The columns of every row keep their types, and successors are younger. *)
LEMMA RefreshTyped ==
  ASSUME IInv, [Next]_vars
  PROVE  /\ refresh' \in Seq(RefreshRow) /\ Len(refresh') <= MaxRefresh
         /\ \A t \in DOMAIN refresh' :
              refresh'[t].next = 0 \/ refresh'[t].next \in (t + 1)..Len(refresh')
         /\ Len(origin') = Len(refresh')
         /\ Len(refresh) <= Len(refresh')
         /\ \A t \in DOMAIN refresh : refresh[t].revoked => refresh'[t].revoked
<1> DEFINE Typed == /\ refresh' \in Seq(RefreshRow) /\ Len(refresh') <= MaxRefresh
                    /\ \A t \in DOMAIN refresh' :
                         refresh'[t].next = 0 \/ refresh'[t].next \in (t + 1)..Len(refresh')
                    /\ Len(origin') = Len(refresh')
                    /\ Len(refresh) <= Len(refresh')
                    /\ \A t \in DOMAIN refresh : refresh[t].revoked => refresh'[t].revoked
<1> SUFFICES Typed
  OBVIOUS
<1>1. TypeOK /\ (\A r \in Requests : SlotInv(r)) /\ Len(refresh) <= MaxRefresh
      /\ \A t \in DOMAIN refresh : refresh[t].next = 0 \/ refresh[t].next \in (t + 1)..Len(refresh)
  BY Tables DEF TypeOK
<1> USE Tables
<1>2. ASSUME refresh' = refresh, origin' = origin PROVE Typed
  BY <1>1, <1>2
<1>3. ASSUME NEW tokens, refresh' = Revoke(tokens), origin' = origin PROVE Typed
  <2>1. refresh' \in Seq(RefreshRow) /\ Len(refresh') = Len(refresh) /\ DOMAIN refresh' = DOMAIN refresh
    BY <1>1, <1>3, RevokeRows
  <2>2. \A t \in DOMAIN refresh : /\ refresh'[t].next = refresh[t].next
                                  /\ refresh[t].revoked => refresh'[t].revoked
    BY <1>1, <1>3, RevokeRows
  <2> QED BY <1>1, <1>3, <2>1, <2>2
<1>4. ASSUME NEW r \in Requests, LoginIssue(r) PROVE Typed
  <2> DEFINE o == [login |-> Len(refresh) + 1, password |-> req[r].password]
  <2>1. o \in Origin /\ origin' = Append(origin, o)
    BY <1>1, <1>4 DEF LoginIssue, SlotInv, Origin
  <2> HIDE DEF o
  <2>2. Len(origin') = Len(origin) + 1
    BY <1>1, <2>1, AppendProperties
  <2> QED BY <1>1, <1>4, <2>2, IssueRows DEF LoginIssue
<1>5. ASSUME NEW r \in Requests, Rotate(r), Live(req[r].token) PROVE Typed
  <2> DEFINE t == req[r].token
  <2>1. /\ t \in DOMAIN refresh /\ Len(refresh) < MaxRefresh
        /\ refresh' = Append([Revoke({t}) EXCEPT ![t].next = Len(refresh) + 1],
                             [revoked |-> FALSE, next |-> 0])
        /\ origin' = Append(origin, origin[t])
    BY <1>1, <1>5 DEF Rotate, SlotInv
  <2> HIDE DEF t
  <2>2. origin[t] \in Origin
    BY <1>1, <2>1
  <2>3. Len(origin') = Len(origin) + 1
    BY <1>1, <2>1, <2>2, AppendProperties
  <2>4. /\ refresh' \in Seq(RefreshRow) /\ Len(refresh') = Len(refresh) + 1
        /\ refresh'[Len(refresh) + 1] = [revoked |-> FALSE, next |-> 0]
        /\ \A u \in DOMAIN refresh :
             /\ refresh'[u].next = IF u = t THEN Len(refresh) + 1 ELSE refresh[u].next
             /\ refresh'[u].revoked <=> (refresh[u].revoked \/ u = t)
    BY <1>1, <2>1, RotateRows
    <2>5. DOMAIN refresh' = DOMAIN refresh \cup {Len(refresh) + 1}
    <3>1. DOMAIN refresh' = 1..Len(refresh')
      BY <2>4, LenProperties
    <3> QED BY <2>4, <3>1
  <2>6. \A u \in DOMAIN refresh' :
          refresh'[u].next = 0 \/ refresh'[u].next \in (u + 1)..Len(refresh')
    <3>1. ASSUME NEW u \in DOMAIN refresh
          PROVE  refresh'[u].next = 0 \/ refresh'[u].next \in (u + 1)..(Len(refresh) + 1)
      BY <1>1, <2>4
    <3> QED BY <2>4, <2>5, <3>1
  <2>7. \A u \in DOMAIN refresh : refresh[u].revoked => refresh'[u].revoked
    BY <2>4
  <2>8. Len(refresh') <= MaxRefresh /\ Len(origin') = Len(refresh') /\ Len(refresh) <= Len(refresh')
    <3>1. Len(refresh) + 1 <= MaxRefresh
      BY <1>1, <2>1
    <3> QED BY <1>1, <2>3, <2>4, <3>1
  <2> QED BY <2>4, <2>6, <2>7, <2>8
<1>6. ASSUME NEW r \in Requests, Call(r) PROVE Typed
  BY <1>2, <1>6 DEF Call, LoginRead, ForgotRead, AdminRead, ResendRead, RefreshRead, LogoutRead,
     ResetRead, VerifyRead, rows, history
<1>7. ASSUME NEW r \in Requests, Step(r) PROVE Typed
  <2>1. CASE LoginVerify(r) \/ ReuseSees(r) \/ ResetSees(r) \/ ResetIssue(r) \/ AdminAudit(r)
             \/ ResetSeesSessions(r) \/ VerifyMark(r) \/ ResendIssue(r) \/ Abandon(r)
    BY <1>2, <2>1 DEF LoginVerify, ReuseSees, ResetSees, ResetIssue, AdminAudit,
       ResetSeesSessions, VerifyMark, ResendIssue, Abandon, rows, history
  <2>2. CASE Rotate(r)
    BY <1>2, <1>5, <2>2 DEF Rotate
  <2>3. CASE Sweep(r)
    BY <1>3, <2>3 DEF Sweep, history
  <2>4. CASE RevokeOne(r)
    BY <1>3, <2>4 DEF RevokeOne, history
  <2>5. CASE ResetChange(r)
    BY <1>2, <1>3, <2>5 DEF ResetChange
  <2> QED BY <1>4, <1>7, <2>1, <2>2, <2>3, <2>4, <2>5 DEF Step
<1> QED BY <1>2, <1>6, <1>7 DEF Next, Elapse, vars, history, rows

LEMMA LinksTyped ==
  ASSUME IInv, [Next]_vars
  PROVE  /\ reset' \in Seq(LinkRow) /\ Len(reset') <= MaxResets /\ Len(reset) <= Len(reset')
         /\ verification' \in Seq(LinkRow) /\ Len(verification') <= MaxVerifications
         /\ Len(verification) <= Len(verification')
<1> DEFINE Resets == reset' \in Seq(LinkRow) /\ Len(reset') <= MaxResets /\ Len(reset) <= Len(reset')
           Marks  == /\ verification' \in Seq(LinkRow) /\ Len(verification') <= MaxVerifications
                     /\ Len(verification) <= Len(verification')
<1> SUFFICES Resets /\ Marks
  OBVIOUS
<1>1. /\ TypeOK /\ \A r \in Requests : SlotInv(r)
      /\ Len(reset) <= MaxResets /\ Len(verification) <= MaxVerifications
      /\ [used |-> TRUE] \in LinkRow /\ [used |-> FALSE] \in LinkRow
  BY Tables DEF TypeOK, LinkRow
<1> USE Tables
<1>2. reset' = reset => Resets
  BY <1>1
<1>3. verification' = verification => Marks
  BY <1>1
<1>4. ASSUME NEW t \in DOMAIN reset, reset' = [reset EXCEPT ![t].used = TRUE] PROVE Resets
  <2>1. reset[t] \in LinkRow /\ [reset[t] EXCEPT !.used = TRUE] \in LinkRow
    <3>1. reset[t] \in LinkRow
      BY <1>1
    <3> QED BY <3>1 DEF LinkRow
  <2>2. reset' = [reset EXCEPT ![t] = [reset[t] EXCEPT !.used = TRUE]]
    BY <2>1, <1>4
  <2> QED BY <1>1, <2>1, <2>2, ExceptSeq
<1>5. ASSUME NEW t \in DOMAIN verification, verification' = [verification EXCEPT ![t].used = TRUE]
      PROVE  Marks
  <2>1. verification[t] \in LinkRow /\ [verification[t] EXCEPT !.used = TRUE] \in LinkRow
    <3>1. verification[t] \in LinkRow
      BY <1>1
    <3> QED BY <3>1 DEF LinkRow
  <2>2. verification' = [verification EXCEPT ![t] = [verification[t] EXCEPT !.used = TRUE]]
    BY <2>1, <1>5
  <2> QED BY <1>1, <2>1, <2>2, ExceptSeq
<1>6. ASSUME NEW r \in Requests, Step(r) PROVE Resets /\ Marks
  <2>1. CASE ResetIssue(r)
    <3>1. reset' \in Seq(LinkRow) /\ Len(reset') = Len(reset) + 1
      BY <1>1, <2>1, ResetRows DEF ResetIssue
    <3>2. Len(reset) + 1 <= MaxResets
      BY <2>1 DEF ResetIssue
    <3> QED BY <1>3, <2>1, <3>1, <3>2 DEF ResetIssue
  <2>2. CASE ResetChange(r)
    BY <1>1, <1>2, <1>3, <1>4, <2>2 DEF ResetChange, SlotInv
  <2>3. CASE VerifyMark(r)
    BY <1>1, <1>2, <1>5, <2>3 DEF VerifyMark, SlotInv
  <2>4. CASE ResendIssue(r)
    BY <1>1, <1>2, <2>4, AppendProperties DEF ResendIssue
  <2>5. CASE LoginVerify(r) \/ LoginIssue(r) \/ Rotate(r) \/ ReuseSees(r) \/ Sweep(r)
             \/ RevokeOne(r) \/ ResetSees(r) \/ AdminAudit(r) \/ ResetSeesSessions(r) \/ Abandon(r)
    BY <1>2, <1>3, <2>5 DEF LoginVerify, LoginIssue, Rotate, ReuseSees, Sweep, RevokeOne,
       ResetSees, AdminAudit, ResetSeesSessions, Abandon, rows
  <2> QED BY <1>6, <2>1, <2>2, <2>3, <2>4, <2>5 DEF Step
<1>7. ASSUME NEW r \in Requests, Call(r) PROVE rows' = rows
  BY <1>7 DEF Call, LoginRead, ForgotRead, AdminRead, ResendRead, RefreshRead, LogoutRead,
     ResetRead, VerifyRead, rows
<1> QED BY <1>2, <1>3, <1>6, <1>7 DEF Next, Elapse, vars, rows

(* The other columns, the slots and the histories. *)
LEMMA RestTyped ==
  ASSUME IInv, [Next]_vars
  PROVE  /\ user' \in [password : Nat, verified : BOOLEAN] /\ (user.verified => user'.verified)
         /\ clock' \in [Clocks -> Nat] /\ audit' \in Nat /\ issued' \in Nat
         /\ spent' \in Seq(1..MaxResets)
         /\ DOMAIN req' = Requests /\ \A r \in Requests : req'[r].at \in Steps
<1> DEFINE Typed == /\ user' \in [password : Nat, verified : BOOLEAN]
                    /\ user.verified => user'.verified
                    /\ clock' \in [Clocks -> Nat] /\ audit' \in Nat /\ issued' \in Nat
                    /\ spent' \in Seq(1..MaxResets)
           Moved == /\ DOMAIN req' = Requests
                    /\ \A p \in Requests : req'[p].at \in Steps
<1> SUFFICES Typed /\ Moved
  OBVIOUS
<1>1. /\ user \in [password : Nat, verified : BOOLEAN] /\ clock \in [Clocks -> Nat]
      /\ audit \in Nat /\ issued \in Nat /\ spent \in Seq(1..MaxResets)
      /\ DOMAIN req = Requests /\ \A r \in Requests : req[r].at \in Steps
      /\ TypeOK /\ (\A r \in Requests : SlotInv(r))
      /\ DOMAIN reset = 1..Len(reset) /\ Len(reset) <= MaxResets /\ Len(reset) \in Nat
      /\ MaxResets \in Nat
  BY Tables DEF IInv, TypeOK
<1>2. ASSUME user' = user, clock' = clock, audit' = audit, issued' = issued, spent' = spent
      PROVE  Typed
  BY <1>1, <1>2
<1>3. ASSUME NEW r \in Requests, NEW local, Becomes(r, local), local.at \in Steps PROVE Moved
  BY <1>1, <1>3, Slots
<1>4. ASSUME NEW r \in Requests, Done(r) PROVE Moved
  BY <1>1, <1>4 DEF Done, Idle, Steps
<1>5. ASSUME NEW r \in Requests, Call(r) PROVE Typed /\ Moved
  BY <1>1, <1>2, <1>3, <1>5 DEF Call, LoginRead, ForgotRead, AdminRead, ResendRead, RefreshRead,
     LogoutRead, ResetRead, VerifyRead, rows, history, Steps
<1>6. ASSUME NEW r \in Requests, Step(r) PROVE Typed /\ Moved
  <2>1. CASE LoginVerify(r)
    <3>1. [req[r] EXCEPT !.at = "issue"].at = "issue"
      BY <1>1, <2>1 DEF LoginVerify, SlotInv
    <3>2. Moved
      BY <1>3, <2>1, <3>1 DEF LoginVerify, Steps
    <3> QED BY <1>1, <2>1, <3>2 DEF LoginVerify, history
  <2>2. CASE Rotate(r)
    <3>1. [req[r] EXCEPT !.at = "reuse"].at = "reuse"
      BY <1>1, <2>2 DEF Rotate, SlotInv
    <3>2. Moved
      BY <1>3, <1>4, <2>2, <3>1 DEF Rotate, Steps
    <3> QED BY <1>1, <2>2, <3>2 DEF Rotate
  <2>3. CASE LoginIssue(r) \/ Sweep(r) \/ RevokeOne(r) \/ ResendIssue(r) \/ Abandon(r)
    BY <1>2, <1>4, <2>3 DEF LoginIssue, Sweep, RevokeOne, ResendIssue, Abandon, rows, history
  <2>4. CASE ReuseSees(r) \/ ResetSees(r) \/ ResetSeesSessions(r)
    BY <1>2, <1>3, <2>4 DEF ReuseSees, ResetSees, ResetSeesSessions, rows, history, Steps
  <2>5. CASE ResetIssue(r)
    BY <1>1, <1>3, <1>4, <2>5 DEF ResetIssue, Steps
  <2>6. CASE AdminAudit(r)
    BY <1>1, <1>4, <2>6 DEF AdminAudit, history
  <2>7. CASE ResetChange(r)
    <3>1. CASE reset[req[r].token].used
      BY <1>2, <1>4, <2>7, <3>1 DEF ResetChange
    <3>2. CASE ~reset[req[r].token].used
      <4>1. req[r].token \in 1..MaxResets /\ req[r].verify \in BOOLEAN
        BY <1>1, <2>7 DEF ResetChange, SlotInv
      <4>2. spent' \in Seq(1..MaxResets)
        <5>1. spent' = Append(spent, req[r].token)
          BY <2>7, <3>2 DEF ResetChange
        <5> QED BY <1>1, <4>1, <5>1, AppendProperties
      <4>3. user' = [password |-> user.password + 1, verified |-> user.verified \/ req[r].verify]
        BY <2>7, <3>2 DEF ResetChange
      <4>4. user' \in [password : Nat, verified : BOOLEAN] /\ (user.verified => user'.verified)
        BY <1>1, <4>1, <4>3
      <4> QED BY <1>1, <1>4, <2>7, <4>2, <4>4 DEF ResetChange
    <3> QED BY <3>1, <3>2
  <2>8. CASE VerifyMark(r)
    BY <1>1, <1>4, <2>8 DEF VerifyMark, history
  <2> QED BY <1>6, <2>1, <2>2, <2>3, <2>4, <2>5, <2>6, <2>7, <2>8 DEF Step
<1>7. ASSUME NEW c \in Clocks, Elapse(c) PROVE Typed /\ Moved
  BY <1>1, <1>7 DEF Elapse, history
<1>8. CASE UNCHANGED vars
  BY <1>1, <1>8 DEF vars, rows, history
<1> QED BY <1>5, <1>6, <1>7, <1>8 DEF Next

LEMMA TypeStep == IInv /\ [Next]_vars => TypeOK'
BY RefreshTyped, LinksTyped, RestTyped DEF TypeOK, RefreshRow, LinkRow

-----------------------------------------------------------------------------
(* No table loses a row, and an address verified stays so: what a slot keeps of them stands
   whatever the others do. *)
LEMMA TablesGrow ==
  ASSUME IInv, [Next]_vars
  PROVE  /\ DOMAIN refresh \subseteq DOMAIN refresh' /\ DOMAIN reset \subseteq DOMAIN reset'
         /\ DOMAIN verification \subseteq DOMAIN verification'
         /\ user.verified \in BOOLEAN /\ user'.verified \in BOOLEAN
         /\ user.verified => user'.verified
<1>1. /\ DOMAIN refresh' = 1..Len(refresh') /\ DOMAIN reset' = 1..Len(reset')
      /\ DOMAIN verification' = 1..Len(verification')
      /\ Len(refresh') \in Nat /\ Len(reset') \in Nat /\ Len(verification') \in Nat
  BY RefreshTyped, LinksTyped, LenProperties
<1>2. user \in [password : Nat, verified : BOOLEAN]
  BY Tables DEF TypeOK
<1> QED BY <1>1, <1>2, Tables, RefreshTyped, LinksTyped, RestTyped

LEMMA OthersKeep ==
  ASSUME IInv, [Next]_vars, NEW p \in Requests, req'[p] = req[p]
  PROVE  SlotInv(p)'
BY Tables, TablesGrow DEF SlotInv

LEMMA OwnSlot ==
  ASSUME IInv, [Next]_vars, NEW r \in Requests, Call(r) \/ Step(r)
  PROVE  SlotInv(r)' /\ \A p \in Requests : p # r => req'[p] = req[p]
<1> DEFINE Mine == SlotInv(r)' /\ \A p \in Requests : p # r => req'[p] = req[p]
<1> SUFFICES Mine
  OBVIOUS
<1>1. TypeOK /\ SlotInv(r) /\ user.verified \in BOOLEAN
  BY Tables, TablesGrow
<1>2. ASSUME Done(r) PROVE Mine
  BY <1>1, <1>2 DEF Done, Idle, SlotInv, TypeOK
<1>3. ASSUME NEW local, Becomes(r, local),
             local.at \in {"supersede", "reissue", "audit", "resend"}
      PROVE  Mine
  BY <1>1, <1>3, Slots DEF SlotInv
<1>4. CASE LoginRead(r)
  <2> DEFINE local == [at |-> IF user.verified THEN "issue" ELSE "verify",
                       password |-> user.password]
  <2>1. /\ local \in [at : {"verify", "issue"}, password : Nat]
        /\ local.at \in {"verify", "issue"} /\ (local.at = "issue" => user.verified)
    BY <1>1 DEF TypeOK
  <2>2. Becomes(r, local) /\ user' = user
    BY <1>4 DEF LoginRead, rows
  <2> HIDE DEF local
  <2> QED BY <1>1, <2>1, <2>2, Slots DEF SlotInv
<1>5. CASE \E t \in DOMAIN refresh : RefreshRead(r, t) \/ LogoutRead(r, t)
  BY <1>1, <1>5, Slots DEF RefreshRead, LogoutRead, SlotInv, rows
<1>6. CASE \E t \in DOMAIN reset : ResetRead(r, t)
  <2> DEFINE v == ~user.verified
  <2>1. PICK t \in DOMAIN reset : ResetRead(r, t)
    BY <1>6
  <2>2. Becomes(r, [at |-> "claim", token |-> t, verify |-> v]) /\ user' = user /\ reset' = reset
    BY <2>1 DEF ResetRead, rows
  <2>3. v \in BOOLEAN /\ (user.verified \/ v)
    OBVIOUS
  <2> HIDE DEF v
  <2>4. req'[r] = [at |-> "claim", token |-> t, verify |-> v]
        /\ \A p \in Requests : p # r => req'[p] = req[p]
    BY <1>1, <2>2, Slots
  <2> QED BY <2>1, <2>2, <2>3, <2>4 DEF SlotInv
<1>7. CASE \E t \in DOMAIN verification : VerifyRead(r, t)
  BY <1>1, <1>7, Slots DEF VerifyRead, SlotInv, rows
<1>8. CASE ForgotRead(r) \/ AdminRead(r) \/ ResendRead(r) \/ ResetSees(r)
  BY <1>3, <1>8 DEF ForgotRead, AdminRead, ResendRead, ResetSees
<1>9. CASE ResetIssue(r)
  BY <1>2, <1>3, <1>9 DEF ResetIssue
<1>10. CASE LoginIssue(r) \/ Sweep(r) \/ RevokeOne(r) \/ AdminAudit(r) \/ ResetChange(r)
            \/ VerifyMark(r) \/ ResendIssue(r) \/ Abandon(r)
  BY <1>2, <1>10 DEF LoginIssue, Sweep, RevokeOne, AdminAudit, ResetChange, VerifyMark,
     ResendIssue, Abandon
<1>11. CASE LoginVerify(r)
  <2> DEFINE local == [req[r] EXCEPT !.at = "issue"]
  <2>1. local \in [at : {"verify", "issue"}, password : Nat] /\ local.at = "issue"
    BY <1>1, <1>11 DEF LoginVerify, SlotInv
  <2>2. user'.verified
    BY <1>1, <1>11 DEF LoginVerify, TypeOK
  <2>3. Becomes(r, local)
    BY <1>11 DEF LoginVerify
  <2> HIDE DEF local
  <2> QED BY <1>1, <2>1, <2>2, <2>3, Slots DEF SlotInv
<1>12. CASE Rotate(r)
  <2>1. CASE Done(r)
    BY <1>2, <2>1
  <2>2. CASE ~Done(r)
    <3> DEFINE local == [req[r] EXCEPT !.at = "reuse"]
    <3>1. local \in [at : {"rotate", "reuse", "revoke"}, token : DOMAIN refresh] /\ local.at = "reuse"
      BY <1>1, <1>12 DEF Rotate, SlotInv
    <3>2. Becomes(r, local) /\ refresh' = refresh
      BY <1>12, <2>2 DEF Rotate
    <3> HIDE DEF local
    <3> QED BY <1>1, <3>1, <3>2, Slots DEF SlotInv
  <2> QED BY <2>1, <2>2
<1>13. CASE ReuseSees(r)
  BY <1>1, <1>13, Slots DEF ReuseSees, SlotInv, rows
<1>14. CASE ResetSeesSessions(r)
  BY <1>1, <1>14, Slots DEF ResetSeesSessions, SlotInv, rows
<1> QED BY <1>4, <1>5, <1>6, <1>7, <1>8, <1>9, <1>10, <1>11, <1>12, <1>13, <1>14 DEF Call, Step

LEMMA SlotsStep == IInv /\ [Next]_vars => \A r \in Requests : SlotInv(r)'
<1> SUFFICES ASSUME IInv, [Next]_vars, NEW p \in Requests PROVE SlotInv(p)'
  OBVIOUS
<1>1. CASE \E r \in Requests : Call(r) \/ Step(r)
  BY <1>1, OthersKeep, OwnSlot
<1>2. CASE \E c \in Clocks : Elapse(c)
  BY <1>2, OthersKeep DEF Elapse
<1>3. CASE UNCHANGED vars
  BY <1>3, OthersKeep DEF vars
<1> QED BY <1>1, <1>2, <1>3 DEF Next

-----------------------------------------------------------------------------
(* A session needs a verified user, and so does a used link: whoever writes one of them has
   seen the other, or writes it too. *)
LEMMA VerificationStep == IInv /\ [Next]_vars => SessionsAreVerified' /\ UsedMeansVerified'
<1> SUFFICES ASSUME IInv, [Next]_vars PROVE SessionsAreVerified' /\ UsedMeansVerified'
  OBVIOUS
<1>1. /\ user.verified => user'.verified
      /\ SessionsAreVerified /\ UsedMeansVerified /\ \A r \in Requests : SlotInv(r)
  BY Tables, TablesGrow DEF IInv
<1>2. ASSUME refresh # <<>> \/ refresh' = refresh PROVE SessionsAreVerified'
  BY <1>1, <1>2 DEF SessionsAreVerified
<1>3. ASSUME verification' = verification PROVE UsedMeansVerified'
  BY <1>1, <1>3 DEF UsedMeansVerified
<1>4. refresh = <<>> => DOMAIN refresh = {}
  OBVIOUS
<1>5. ASSUME NEW r \in Requests, Step(r) PROVE SessionsAreVerified' /\ UsedMeansVerified'
  <2>1. CASE LoginIssue(r)
    BY <1>1, <1>3, <2>1 DEF LoginIssue, SlotInv, SessionsAreVerified
  <2>2. CASE Rotate(r)
    BY <1>1, <1>2, <1>3, <1>4, <2>2 DEF Rotate, SlotInv
  <2>3. CASE Sweep(r)
    <3>1. refresh = <<>> => refresh' = <<>>
      BY <1>4, <2>3 DEF Sweep, Revoke
    <3> QED BY <1>2, <1>3, <2>3, <3>1 DEF Sweep
  <2>4. CASE RevokeOne(r)
    BY <1>1, <1>2, <1>3, <1>4, <2>4 DEF RevokeOne, SlotInv
  <2>5. CASE ResetChange(r)
    <3>1. refresh = <<>> => refresh' = <<>>
      BY <1>4, <2>5 DEF ResetChange, Revoke
    <3> QED BY <1>2, <1>3, <2>5, <3>1 DEF ResetChange
  <2>6. CASE VerifyMark(r)
    <3>1. user'.verified
      BY <2>6, Tables DEF VerifyMark, TypeOK
    <3> QED BY <1>2, <2>6, <3>1 DEF VerifyMark, UsedMeansVerified
  <2>7. CASE ResendIssue(r)
    <3>1. [used |-> FALSE] \in LinkRow
      BY DEF LinkRow
    <3>2. /\ Len(verification') = Len(verification) + 1 /\ verification' \in Seq(LinkRow)
          /\ verification'[Len(verification) + 1] = [used |-> FALSE]
          /\ \A t \in DOMAIN verification : verification'[t] = verification[t]
      BY <2>7, <3>1, Tables, AppendProperties DEF ResendIssue
    <3>3. DOMAIN verification' = DOMAIN verification \cup {Len(verification) + 1}
      BY <3>2, Tables, LenProperties
    <3> QED BY <1>1, <1>2, <2>7, <3>2, <3>3 DEF ResendIssue, UsedMeansVerified
  <2>8. CASE LoginVerify(r) \/ ReuseSees(r) \/ ResetSees(r) \/ ResetIssue(r) \/ AdminAudit(r)
             \/ ResetSeesSessions(r) \/ Abandon(r)
    BY <1>2, <1>3, <2>8 DEF LoginVerify, ReuseSees, ResetSees, ResetIssue, AdminAudit,
       ResetSeesSessions, Abandon, rows
  <2> QED BY <1>5, <2>1, <2>2, <2>3, <2>4, <2>5, <2>6, <2>7, <2>8 DEF Step
<1>6. ASSUME NEW r \in Requests, Call(r) PROVE rows' = rows
  BY <1>6 DEF Call, LoginRead, ForgotRead, AdminRead, ResendRead, RefreshRead, LogoutRead,
     ResetRead, VerifyRead, rows
<1> QED BY <1>2, <1>3, <1>5, <1>6 DEF Next, Elapse, vars, rows

-----------------------------------------------------------------------------
(* How a step may change the sessions: it revokes some, adds that of a login, or replaces a
   live one by its successor. *)
LEMMA SessionsStep ==
  ASSUME IInv, [Next]_vars
  PROVE  \/ refresh' = refresh /\ origin' = origin
         \/ \E tokens : refresh' = Revoke(tokens) /\ origin' = origin
         \/ \E r \in Requests : LoginIssue(r)
         \/ \E r \in Requests : Rotate(r) /\ Live(req[r].token)
<1>1. ASSUME NEW r \in Requests, Call(r) PROVE refresh' = refresh /\ origin' = origin
  BY <1>1 DEF Call, LoginRead, ForgotRead, AdminRead, ResendRead, RefreshRead, LogoutRead,
     ResetRead, VerifyRead, rows, history
<1>2. ASSUME NEW r \in Requests, Step(r), ~LoginIssue(r), ~(Rotate(r) /\ Live(req[r].token))
      PROVE  origin' = origin /\ (refresh' = refresh \/ \E tokens : refresh' = Revoke(tokens))
  <2>1. CASE Rotate(r)
    BY <1>2, <2>1 DEF Rotate
  <2>2. CASE Sweep(r) \/ RevokeOne(r) \/ ResetChange(r)
    BY <2>2 DEF Sweep, RevokeOne, ResetChange, history
  <2>3. CASE LoginVerify(r) \/ ReuseSees(r) \/ ResetSees(r) \/ ResetIssue(r) \/ AdminAudit(r)
             \/ ResetSeesSessions(r) \/ VerifyMark(r) \/ ResendIssue(r) \/ Abandon(r)
    BY <2>3 DEF LoginVerify, ReuseSees, ResetSees, ResetIssue, AdminAudit,
       ResetSeesSessions, VerifyMark, ResendIssue, Abandon, rows, history
  <2> QED BY <1>2, <2>1, <2>2, <2>3 DEF Step
<1> QED BY <1>1, <1>2 DEF Next, Elapse, vars, rows, history

(* A login starts a chain, whose first and only live token is its own; a rotation carries
   the chain on, and the token it takes the place of, the only live one, is no longer. *)
LEMMA ChainStep == IInv /\ [Next]_vars => ChainInv' /\ OneLivePerLogin'
<1> SUFFICES ASSUME IInv, [Next]_vars PROVE ChainInv' /\ OneLivePerLogin'
  OBVIOUS
<1> DEFINE N == Len(refresh) + 1
<1>1. /\ ChainInv /\ OneLivePerLogin /\ TypeOK /\ \A r \in Requests : SlotInv(r)
      /\ N \in Nat /\ N \notin DOMAIN refresh
      /\ \A t \in DOMAIN refresh : t \in Nat /\ t < N /\ origin[t].login \in 1..t
  BY Tables DEF IInv, ChainInv
<1>2. ASSUME refresh' = refresh, origin' = origin PROVE ChainInv' /\ OneLivePerLogin'
  BY <1>1, <1>2 DEF ChainInv, OneLivePerLogin, LiveSet, Live
<1>3. ASSUME NEW tokens, refresh' = Revoke(tokens), origin' = origin
      PROVE  ChainInv' /\ OneLivePerLogin'
  <2>1. DOMAIN refresh' = DOMAIN refresh
        /\ \A t \in DOMAIN refresh : refresh[t].revoked => refresh'[t].revoked
    BY <1>1, <1>3, RevokeRows
  <2> QED BY <1>1, <1>3, <2>1 DEF ChainInv, OneLivePerLogin, LiveSet, Live
<1>4. ASSUME NEW o \in Origin, origin' = Append(origin, o),
             Len(refresh') = N, refresh' \in Seq(RefreshRow), o.login \in 1..N
      PROVE  /\ DOMAIN refresh' = DOMAIN refresh \cup {N}
             /\ origin'[N] = o /\ \A t \in DOMAIN refresh : origin'[t] = origin[t]
             /\ ChainInv'
  <2>1. DOMAIN refresh' = 1..Len(refresh')
    BY <1>4, LenProperties
  <2>2. DOMAIN refresh' = DOMAIN refresh \cup {N}
    BY <1>4, <2>1, Tables
  <2>3. origin' \in Seq(Origin) /\ origin'[N] = o /\ \A t \in DOMAIN refresh : origin'[t] = origin[t]
    BY <1>4, Tables, AppendProperties
  <2> QED BY <1>1, <1>4, <2>2, <2>3 DEF ChainInv
<1>5. ASSUME NEW r \in Requests, LoginIssue(r) PROVE ChainInv' /\ OneLivePerLogin'
  <2> DEFINE o == [login |-> N, password |-> req[r].password]
  <2>1. o \in Origin /\ origin' = Append(origin, o) /\ o.login = N
    BY <1>1, <1>5 DEF LoginIssue, SlotInv, Origin
  <2>2. /\ Len(refresh') = N /\ refresh' \in Seq(RefreshRow)
        /\ \A t \in DOMAIN refresh : refresh'[t] = refresh[t]
    BY <1>1, <1>5, IssueRows DEF LoginIssue
  <2> HIDE DEF o
  <2>3. /\ DOMAIN refresh' = DOMAIN refresh \cup {N}
        /\ origin'[N] = o /\ \A t \in DOMAIN refresh : origin'[t] = origin[t]
        /\ ChainInv'
    BY <1>1, <1>4, <2>1, <2>2
  <2>4. ASSUME NEW t \in DOMAIN refresh PROVE origin'[t].login # origin'[N].login
    <3>1. origin'[t] = origin[t] /\ origin'[N] = o /\ o.login = N
      BY <2>1, <2>3
    <3>2. origin[t].login \in 1..t /\ t \in Nat /\ t < N
      BY <1>1
    <3>3. origin[t].login # N
      BY <1>1, <3>2
    <3> QED BY <3>1, <3>3
  <2> QED BY <1>1, <2>2, <2>3, <2>4 DEF OneLivePerLogin, LiveSet, Live
<1>6. ASSUME NEW r \in Requests, Rotate(r), Live(req[r].token) PROVE ChainInv' /\ OneLivePerLogin'
  <2> DEFINE t == req[r].token
  <2>1. /\ t \in DOMAIN refresh /\ Live(t) /\ origin' = Append(origin, origin[t])
        /\ refresh' = Append([Revoke({t}) EXCEPT ![t].next = Len(refresh) + 1],
                             [revoked |-> FALSE, next |-> 0])
    BY <1>1, <1>6 DEF Rotate, SlotInv
  <2> HIDE DEF t
  <2>2. /\ refresh' \in Seq(RefreshRow) /\ Len(refresh') = N
        /\ \A u \in DOMAIN refresh : refresh'[u].revoked <=> (refresh[u].revoked \/ u = t)
    BY <1>1, <2>1, RotateRows
  <2>3. origin[t] \in Origin /\ origin[t].login \in 1..N
    BY <1>1, <2>1, Tables
  <2>4. /\ DOMAIN refresh' = DOMAIN refresh \cup {N}
        /\ origin'[N] = origin[t] /\ \A u \in DOMAIN refresh : origin'[u] = origin[u]
        /\ ChainInv'
    BY <1>4, <2>1, <2>2, <2>3
  <2>5. ASSUME NEW u \in DOMAIN refresh, ~refresh'[u].revoked
        PROVE  origin'[u].login # origin'[N].login
    <3>1. u # t /\ u \in LiveSet /\ t \in LiveSet
      BY <2>1, <2>2, <2>5 DEF LiveSet, Live
    <3>2. origin[u].login # origin[t].login
      BY <1>1, <3>1 DEF OneLivePerLogin
    <3> QED BY <2>4, <3>2
  <2> QED BY <1>1, <2>2, <2>4, <2>5 DEF OneLivePerLogin, LiveSet, Live
<1> QED BY <1>2, <1>3, <1>5, <1>6, SessionsStep

-----------------------------------------------------------------------------
(* A link issued by an administrator waits for its row of the trail, which is written once. *)
LEMMA TrailStep == IInv /\ [Next]_vars => TrailInv'
<1> SUFFICES ASSUME IInv, [Next]_vars PROVE TrailInv'
  OBVIOUS
<1>1. /\ TrailInv /\ audit \in Nat /\ issued \in Nat /\ IsFiniteSet(Auditing)
      /\ Cardinality(Auditing) \in Nat /\ audit + Cardinality(Auditing) <= issued
  BY FS_CardinalityType DEF IInv, TypeOK, TrailInv
<1>2. ASSUME Auditing' \subseteq Auditing, audit' = audit, issued' = issued PROVE TrailInv'
  <2>1. IsFiniteSet(Auditing') /\ Cardinality(Auditing') <= Cardinality(Auditing)
    BY <1>1, <1>2, FS_Subset
  <2>2. Cardinality(Auditing') \in Nat
    BY <2>1, FS_CardinalityType
  <2> QED BY <1>1, <1>2, <2>1, <2>2 DEF TrailInv
<1>3. ASSUME NEW r \in Requests, Call(r) \/ Step(r), req'[r].at # "audit"
      PROVE  Auditing' = Auditing \ {r}
  BY <1>3, OwnSlot DEF Auditing
<1>4. ASSUME NEW r \in Requests, Call(r) PROVE TrailInv'
  <2>1. audit' = audit /\ issued' = issued
    BY <1>4 DEF Call, LoginRead, ForgotRead, AdminRead, ResendRead, RefreshRead,
       LogoutRead, ResetRead, VerifyRead, rows, history
  <2>2. ASSUME NEW local, Becomes(r, local), local.at # "audit" PROVE req'[r].at # "audit"
    BY <2>2, Slots, Tables
  <2>3. req'[r].at # "audit"
    BY <1>4, <2>2 DEF Call, LoginRead, ForgotRead, AdminRead, ResendRead, RefreshRead,
       LogoutRead, ResetRead, VerifyRead
  <2> QED BY <1>2, <1>3, <1>4, <2>1, <2>3
<1>5. ASSUME NEW r \in Requests, Step(r) PROVE TrailInv'
  <2>1. \A p \in Requests : p # r => req'[p] = req[p]
    BY <1>5, OwnSlot
  <2>2. Done(r) => req'[r].at = "idle"
    BY Tables DEF Done, Idle, TypeOK
  <2>3. CASE ResetIssue(r)
    <3>1. CASE Done(r) /\ issued' = issued
      BY <1>2, <1>3, <1>5, <2>2, <2>3, <3>1 DEF ResetIssue
    <3>2. CASE Becomes(r, [at |-> "audit"]) /\ issued' = issued + 1
      <4>1. req'[r].at = "audit"
        BY <3>2, Slots, Tables
      <4>2. Auditing' = Auditing \cup {r} /\ r \notin Auditing /\ audit' = audit
        BY <2>1, <2>3, <4>1 DEF Auditing, ResetIssue
      <4>3. IsFiniteSet(Auditing') /\ Cardinality(Auditing') = Cardinality(Auditing) + 1
        BY <1>1, <4>2, FS_AddElement
      <4> QED BY <1>1, <3>2, <4>2, <4>3 DEF TrailInv
    <3> QED BY <2>3, <3>1, <3>2 DEF ResetIssue
  <2>4. CASE AdminAudit(r)
    <3>1. Auditing' = Auditing \ {r} /\ r \in Auditing /\ audit' = audit + 1 /\ issued' = issued
      BY <1>3, <1>5, <2>2, <2>4 DEF AdminAudit, Auditing, history
    <3>2. IsFiniteSet(Auditing') /\ Cardinality(Auditing') = Cardinality(Auditing) - 1
      BY <1>1, <3>1, FS_RemoveElement
    <3> QED BY <1>1, <3>1, <3>2 DEF TrailInv
  <2>5. CASE LoginVerify(r)
    <3>1. [req[r] EXCEPT !.at = "issue"].at = "issue"
      BY <2>5, Tables DEF LoginVerify, SlotInv
    <3>2. req'[r].at # "audit" /\ audit' = audit /\ issued' = issued
      BY <2>5, <3>1, Slots, Tables DEF LoginVerify, history
    <3> QED BY <1>2, <1>3, <1>5, <3>2
  <2>6. CASE Rotate(r)
    <3>1. [req[r] EXCEPT !.at = "reuse"].at = "reuse"
      BY <2>6, Tables DEF Rotate, SlotInv
    <3>2. req'[r].at # "audit" /\ audit' = audit /\ issued' = issued
      BY <2>2, <2>6, <3>1, Slots, Tables DEF Rotate
    <3> QED BY <1>2, <1>3, <1>5, <3>2
  <2>7. CASE ReuseSees(r) \/ ResetSees(r) \/ ResetSeesSessions(r)
    <3>1. req'[r].at # "audit" /\ audit' = audit /\ issued' = issued
      BY <2>7, Slots, Tables DEF ReuseSees, ResetSees, ResetSeesSessions, rows, history
    <3> QED BY <1>2, <1>3, <1>5, <3>1
  <2>8. CASE LoginIssue(r) \/ Sweep(r) \/ RevokeOne(r) \/ ResetChange(r) \/ VerifyMark(r)
             \/ ResendIssue(r) \/ Abandon(r)
    <3>1. Done(r) /\ audit' = audit /\ issued' = issued
      BY <2>8 DEF LoginIssue, Sweep, RevokeOne, ResetChange, VerifyMark, ResendIssue, Abandon,
         rows, history
    <3> QED BY <1>2, <1>3, <1>5, <2>2, <3>1
  <2> QED BY <1>5, <2>3, <2>4, <2>5, <2>6, <2>7, <2>8 DEF Step
<1>6. CASE (\E c \in Clocks : Elapse(c)) \/ UNCHANGED vars
  BY <1>2, <1>6 DEF Elapse, vars, rows, history, Auditing
<1> QED BY <1>4, <1>5, <1>6 DEF Next

-----------------------------------------------------------------------------
LEMMA InitHolds == Init => IInv
<1> SUFFICES ASSUME Init PROVE IInv
  OBVIOUS
<1>1. /\ refresh = <<>> /\ reset = <<>> /\ origin = <<>> /\ spent = <<>>
      /\ audit = 0 /\ issued = 0 /\ req = [r \in Requests |-> Idle]
      /\ user \in [password : {0}, verified : BOOLEAN] /\ clock = [c \in Clocks |-> 0]
  BY DEF Init
<1>2. /\ verification \in Seq(LinkRow) /\ Len(verification) <= MaxVerifications
      /\ \A t \in DOMAIN verification : ~verification[t].used
  <2>1. CASE verification = <<>>
    BY <2>1, SessionsAssumption
  <2>2. CASE verification = <<[used |-> FALSE]>> /\ Len(verification) <= MaxVerifications
    <3>1. [used |-> FALSE] \in LinkRow
      BY DEF LinkRow
    <3>2. <<[used |-> FALSE]>> \in Seq(LinkRow)
      BY <3>1
    <3>3. \A t \in DOMAIN verification : t = 1
      BY <2>2
    <3> QED BY <2>2, <3>2, <3>3
  <2> QED BY <2>1, <2>2 DEF Init
<1>3. TypeOK
  BY <1>1, <1>2, SessionsAssumption DEF TypeOK, LinkRow, Idle, Steps
<1>4. \A r \in Requests : req[r].at = "idle"
  BY <1>1 DEF Idle
<1>5. Auditing = {}
  BY <1>4 DEF Auditing
<1>6. TrailInv
  BY <1>1, <1>5, FS_EmptySet DEF TrailInv
<1>7. \A r \in Requests : SlotInv(r)
  BY <1>4 DEF SlotInv
<1>8. DOMAIN refresh = {}
  BY <1>1
<1> QED BY <1>1, <1>2, <1>3, <1>6, <1>7, <1>8 DEF IInv, SessionsAreVerified, UsedMeansVerified,
    ChainInv, OneLivePerLogin, LiveSet

LEMMA StepKeeps == IInv /\ [Next]_vars => IInv'
BY TypeStep, SlotsStep, VerificationStep, ChainStep, TrailStep DEF IInv

(* The inductive invariant holds in every reachable state, for any number of requests. *)
THEOREM Always == Spec => []IInv
BY InitHolds, StepKeeps, PTL DEF Spec

(* The tables, the columns and the slots keep their types, and the successor of a token is a
   younger one. *)
THEOREM TypeCorrect == Spec => []TypeOK
<1>1. IInv => TypeOK
  BY DEF IInv
<1> QED BY <1>1, Always, PTL

(* However many refreshes of one token run at once, a login keeps one live token at most. *)
THEOREM OneLive == Spec => []OneLivePerLogin
<1>1. IInv => OneLivePerLogin
  BY DEF IInv
<1> QED BY <1>1, Always, PTL

(* No session and no used verification link of an address that was never verified. *)
THEOREM Verified == Spec => []VerificationHolds
<1>1. IInv => VerificationHolds
  BY DEF IInv, VerificationHolds
<1> QED BY <1>1, Always, PTL

(* The trail of the administrator's links has no row without a link. *)
THEOREM TrailTrue == Spec => []TrailIsTrue
<1>1. IInv => TrailIsTrue
  <2> SUFFICES ASSUME IInv PROVE TrailIsTrue
    OBVIOUS
  <2>1. TypeOK /\ TrailInv
    BY DEF IInv
  <2>2. Cardinality(Auditing) \in Nat
    BY <2>1, FS_CardinalityType DEF TrailInv
  <2> QED BY <2>1, <2>2 DEF TypeOK, TrailInv, TrailIsTrue
<1> QED BY <1>1, Always, PTL

(* Every change of the password uses up a link that nobody had used or superseded. *)
THEOREM UnusedLinkSpent == Spec => SpendsUnusedLink
<1>1. ASSUME IInv, [Next]_vars, spent' # spent
      PROVE  LET t == Last(spent') IN ~reset[t].used /\ reset'[t].used
  <2>1. PICK r \in Requests : ResetChange(r)
    BY <1>1 DEF Next, Call, Step, LoginRead, ForgotRead, AdminRead, ResendRead, RefreshRead,
       LogoutRead, ResetRead, VerifyRead, LoginVerify, LoginIssue, Rotate, ReuseSees, Sweep,
       RevokeOne, ResetSees, ResetIssue, AdminAudit, ResetSeesSessions, VerifyMark, ResendIssue,
       Abandon, Elapse, vars, rows, history
  <2> DEFINE t == req[r].token
  <2>2. t \in DOMAIN reset /\ t \in 1..MaxResets /\ spent \in Seq(1..MaxResets)
    BY <1>1, <2>1, Tables DEF ResetChange, SlotInv, TypeOK
  <2>3. /\ ~reset[t].used /\ spent' = Append(spent, t)
        /\ reset' = [reset EXCEPT ![t].used = TRUE]
    BY <1>1, <2>1 DEF ResetChange
  <2> HIDE DEF t
  <2>4. Last(spent') = t
    BY <2>2, <2>3, AppendProperties DEF Last
  <2>5. reset[t] \in LinkRow
    BY <1>1, <2>2, Tables
  <2>6. reset'[t].used
    BY <2>2, <2>3, <2>5 DEF LinkRow
  <2> QED BY <2>3, <2>4, <2>6
<1>2. IInv /\ [Next]_vars =>
        [spent' # spent => LET t == Last(spent') IN ~reset[t].used /\ reset'[t].used]_vars
  BY <1>1
<1> QED BY <1>2, Always, PTL DEF Spec, SpendsUnusedLink

-----------------------------------------------------------------------------
(* One request at a time.  What an update saw is then still all there is when it commits, and
   a login is of the password of its user: the three properties below rest on it, and each of
   them fails with two requests. *)
OneAtATime == \A p, q \in Requests : p = q

UsableSet == {t \in DOMAIN reset : Usable(t)}

SerialSlot(r) ==
  /\ req[r].at \in {"verify", "issue"} => req[r].password = user.password
  /\ req[r].at \in {"sweep", "change"} => LiveSet \subseteq req[r].seen
  /\ req[r].at = "reissue" => UsableSet \subseteq req[r].seen

SerialInv ==
  /\ IInv
  /\ \A r \in Requests : SerialSlot(r)
  /\ NoSessionOutlivesReset /\ OneUsableReset

LEMMA SerialSlots ==
  ASSUME OneAtATime, SerialInv, [Next]_vars, NEW p \in Requests
  PROVE  SerialSlot(p)'
<1>1. /\ IInv /\ TypeOK /\ SlotInv(p) /\ SerialSlot(p)
      /\ user \in [password : Nat, verified : BOOLEAN] /\ clock \in [Clocks -> Nat]
      /\ DOMAIN reset = 1..Len(reset)
  BY Tables DEF SerialInv, TypeOK
<1>2. ASSUME Done(p) PROVE SerialSlot(p)'
  BY <1>1, <1>2 DEF Done, Idle, SerialSlot, TypeOK
<1>3. ASSUME NEW local, Becomes(p, local), rows' = rows,
             /\ local.at \in {"verify", "issue"} => local.password = user.password
             /\ local.at \in {"sweep", "change"} => LiveSet \subseteq local.seen
             /\ local.at = "reissue" => UsableSet \subseteq local.seen
      PROVE  SerialSlot(p)'
  BY <1>1, <1>3, Slots DEF SerialSlot, LiveSet, UsableSet, Live, Usable, rows
<1>4. CASE Call(p)
  <2>1. CASE LoginRead(p)
    <3> DEFINE local == [at |-> IF user.verified THEN "issue" ELSE "verify",
                         password |-> user.password]
    <3>1. local.at \in {"verify", "issue"} /\ local.password = user.password
      OBVIOUS
    <3>2. Becomes(p, local) /\ rows' = rows
      BY <2>1 DEF LoginRead
    <3> HIDE DEF local
    <3> QED BY <1>3, <3>1, <3>2
  <2>2. CASE \E t \in DOMAIN refresh : RefreshRead(p, t)
    <3>1. PICK t \in DOMAIN refresh : RefreshRead(p, t)
      BY <2>2
    <3> DEFINE local == [at |-> IF refresh[t].revoked THEN "reuse"
                                ELSE IF t <= clock["refresh"] THEN "revoke" ELSE "rotate",
                         token |-> t]
    <3>2. local.at \in {"reuse", "revoke", "rotate"}
      OBVIOUS
    <3>3. Becomes(p, local) /\ rows' = rows
      BY <3>1 DEF RefreshRead
    <3> HIDE DEF local
    <3> QED BY <1>3, <3>2, <3>3
  <2>3. CASE ~LoginRead(p) /\ ~\E t \in DOMAIN refresh : RefreshRead(p, t)
    BY <1>3, <1>4, <2>3 DEF Call, ForgotRead, AdminRead, ResendRead, LogoutRead, ResetRead,
       VerifyRead
  <2> QED BY <2>1, <2>2, <2>3
<1>5. CASE Step(p)
  <2>1. CASE LoginVerify(p)
    <3> DEFINE local == [req[p] EXCEPT !.at = "issue"]
    <3>1. local.at = "issue" /\ local.password = user.password
      BY <1>1, <2>1 DEF LoginVerify, SlotInv, SerialSlot
    <3>2. Becomes(p, local) /\ user'.password = user.password
      BY <1>1, <2>1 DEF LoginVerify
    <3> HIDE DEF local
    <3> QED BY <1>1, <3>1, <3>2, Slots DEF SerialSlot
  <2>2. CASE Rotate(p)
    <3>1. [req[p] EXCEPT !.at = "reuse"].at = "reuse"
      BY <1>1, <2>2 DEF Rotate, SlotInv
    <3>2. CASE Done(p)
      BY <1>2, <3>2
    <3>3. CASE Becomes(p, [req[p] EXCEPT !.at = "reuse"])
      BY <1>1, <3>1, <3>3, Slots DEF SerialSlot
    <3> QED BY <2>2, <3>2, <3>3 DEF Rotate
  <2>3. CASE ReuseSees(p) \/ ResetSees(p) \/ ResetSeesSessions(p)
    BY <1>3, <2>3 DEF ReuseSees, ResetSees, ResetSeesSessions, UsableSet
  <2>4. CASE ResetIssue(p)
    <3>1. CASE Becomes(p, [at |-> "audit"])
      BY <1>1, <3>1, Slots DEF SerialSlot
    <3> QED BY <1>2, <2>4, <3>1 DEF ResetIssue
  <2>5. CASE LoginIssue(p) \/ Sweep(p) \/ RevokeOne(p) \/ AdminAudit(p) \/ ResetChange(p)
             \/ VerifyMark(p) \/ ResendIssue(p) \/ Abandon(p)
    BY <1>2, <2>5 DEF LoginIssue, Sweep, RevokeOne, AdminAudit, ResetChange, VerifyMark,
       ResendIssue, Abandon
  <2> QED BY <1>5, <2>1, <2>2, <2>3, <2>4, <2>5 DEF Step
<1>6. ASSUME req' = req, user' = user, refresh' = refresh, reset' = reset,
             clock'["reset"] \in Nat, clock["reset"] <= clock'["reset"]
      PROVE  SerialSlot(p)'
  <2>1. LiveSet' = LiveSet
    BY <1>6 DEF LiveSet, Live
  <2>2. UsableSet' \subseteq UsableSet
    <3>1. clock["reset"] \in Nat /\ \A t \in DOMAIN reset : t \in Nat
      BY <1>1 DEF Clocks
    <3> QED BY <1>6, <3>1 DEF UsableSet, Usable
  <2> QED BY <1>1, <1>6, <2>1, <2>2 DEF SerialSlot
<1>7. ASSUME NEW c \in Clocks, Elapse(c) PROVE SerialSlot(p)'
  <2>1. clock["reset"] \in Nat /\ clock'["reset"] \in Nat /\ clock["reset"] <= clock'["reset"]
    BY <1>1, <1>7 DEF Elapse, Clocks
  <2> QED BY <1>6, <1>7, <2>1 DEF Elapse
<1>8. CASE UNCHANGED vars
  BY <1>1, <1>6, <1>8 DEF vars, rows, Clocks
<1>9. CASE \E r \in Requests : Call(r) \/ Step(r)
  BY <1>4, <1>5, <1>9 DEF OneAtATime
<1> QED BY <1>7, <1>8, <1>9 DEF Next

(* A reset ends every session that it could leave behind. *)
LEMMA SerialSessions ==
  ASSUME OneAtATime, SerialInv, [Next]_vars
  PROVE  NoSessionOutlivesReset'
<1>1. /\ IInv /\ TypeOK /\ (\A r \in Requests : SlotInv(r) /\ SerialSlot(r))
      /\ user \in [password : Nat, verified : BOOLEAN] /\ NoSessionOutlivesReset
      /\ DOMAIN refresh = 1..Len(refresh) /\ Len(refresh) \in Nat
  BY Tables DEF SerialInv, TypeOK
<1>2. CASE \E r \in Requests : ResetChange(r) /\ ~reset[req[r].token].used
  <2>1. PICK r \in Requests : ResetChange(r) /\ ~reset[req[r].token].used
    BY <1>2
  <2>2. refresh' = Revoke(req[r].seen) /\ LiveSet \subseteq req[r].seen
    BY <1>1, <2>1 DEF ResetChange, SerialSlot
  <2>3. LiveSet' = {}
    BY <1>1, <2>2, RevokeRows DEF LiveSet, Live
  <2> QED BY <2>3 DEF NoSessionOutlivesReset
<1>3. CASE ~\E r \in Requests : ResetChange(r) /\ ~reset[req[r].token].used
  <2>1. user'.password = user.password
    BY <1>1, <1>3 DEF Next, Call, Step, LoginRead, ForgotRead, AdminRead, ResendRead, RefreshRead,
       LogoutRead, ResetRead, VerifyRead, LoginVerify, LoginIssue, Rotate, ReuseSees, Sweep,
       RevokeOne, ResetSees, ResetIssue, AdminAudit, ResetSeesSessions, ResetChange, VerifyMark,
       ResendIssue, Abandon, Elapse, vars, rows
  <2>2. CASE refresh' = refresh /\ origin' = origin
    BY <1>1, <2>1, <2>2 DEF NoSessionOutlivesReset, LiveSet, Live
  <2>3. CASE \E tokens : refresh' = Revoke(tokens) /\ origin' = origin
    <3>1. LiveSet' \subseteq LiveSet
      BY <1>1, <2>3, RevokeRows DEF LiveSet, Live
    <3> QED BY <1>1, <2>1, <2>3, <3>1 DEF NoSessionOutlivesReset
  <2>4. ASSUME NEW o \in Origin, origin' = Append(origin, o), o.password = user.password,
               refresh' \in Seq(RefreshRow), Len(refresh') = Len(refresh) + 1,
               \A u \in DOMAIN refresh : refresh[u].revoked => refresh'[u].revoked
        PROVE  NoSessionOutlivesReset'
    <3>1. DOMAIN refresh' = DOMAIN refresh \cup {Len(refresh) + 1}
      BY <1>1, <2>4, LenProperties
    <3>2. /\ origin'[Len(refresh) + 1] = o
          /\ \A u \in DOMAIN refresh : origin'[u] = origin[u]
      BY <1>1, <2>4, Tables, AppendProperties
    <3> QED BY <1>1, <2>1, <2>4, <3>1, <3>2 DEF NoSessionOutlivesReset, LiveSet, Live
  <2>5. ASSUME NEW r \in Requests, LoginIssue(r) PROVE NoSessionOutlivesReset'
    <3> DEFINE o == [login |-> Len(refresh) + 1, password |-> req[r].password]
    <3>1. o \in Origin /\ origin' = Append(origin, o) /\ o.password = user.password
      BY <1>1, <2>5 DEF LoginIssue, SlotInv, SerialSlot, Origin
    <3>2. /\ refresh' \in Seq(RefreshRow) /\ Len(refresh') = Len(refresh) + 1
          /\ \A u \in DOMAIN refresh : refresh'[u] = refresh[u]
      BY <1>1, <2>5, IssueRows DEF LoginIssue
    <3> HIDE DEF o
    <3> QED BY <2>4, <3>1, <3>2
  <2>6. ASSUME NEW r \in Requests, Rotate(r), Live(req[r].token) PROVE NoSessionOutlivesReset'
    <3> DEFINE t == req[r].token
    <3>1. /\ t \in DOMAIN refresh /\ Live(t) /\ origin' = Append(origin, origin[t])
          /\ refresh' = Append([Revoke({t}) EXCEPT ![t].next = Len(refresh) + 1],
                               [revoked |-> FALSE, next |-> 0])
      BY <1>1, <2>6 DEF Rotate, SlotInv
    <3> HIDE DEF t
    <3>2. origin[t] \in Origin /\ origin[t].password = user.password
      BY <1>1, <3>1, Tables DEF NoSessionOutlivesReset, LiveSet
    <3>3. /\ refresh' \in Seq(RefreshRow) /\ Len(refresh') = Len(refresh) + 1
          /\ \A u \in DOMAIN refresh : refresh[u].revoked => refresh'[u].revoked
      BY <1>1, <3>1, RotateRows
    <3> QED BY <2>4, <3>1, <3>2, <3>3
  <2> QED BY <1>1, <2>2, <2>3, <2>5, <2>6, SessionsStep
<1> QED BY <1>2, <1>3

(* A link is issued when every one that still works is about to be superseded with it. *)
LEMMA SerialResets ==
  ASSUME OneAtATime, SerialInv, [Next]_vars
  PROVE  OneUsableReset'
<1>1. /\ IInv /\ TypeOK /\ (\A r \in Requests : SlotInv(r) /\ SerialSlot(r)) /\ OneUsableReset
      /\ clock \in [Clocks -> Nat] /\ clock["reset"] \in Nat
      /\ DOMAIN reset = 1..Len(reset) /\ Len(reset) \in Nat
  BY Tables DEF SerialInv, TypeOK, Clocks
<1>2. ASSUME DOMAIN reset' = DOMAIN reset, clock'["reset"] \in Nat,
             clock["reset"] <= clock'["reset"],
             \A t \in DOMAIN reset : reset[t].used => reset'[t].used
      PROVE  OneUsableReset'
  <2>1. \A t \in DOMAIN reset' : t \in DOMAIN reset /\ t \in Nat
    BY <1>1, <1>2
  <2>2. \A t \in DOMAIN reset' : Usable(t)' => Usable(t)
    BY <1>1, <1>2, <2>1 DEF Usable
  <2> QED BY <1>1, <2>1, <2>2 DEF OneUsableReset
<1>3. ASSUME NEW r \in Requests, ResetIssue(r) PROVE OneUsableReset'
  <2> DEFINE N == Len(reset) + 1
  <2>1. /\ reset' \in Seq(LinkRow) /\ Len(reset') = N
        /\ \A t \in DOMAIN reset : reset'[t].used <=> (reset[t].used \/ t \in req[r].seen)
    BY <1>1, <1>3, ResetRows DEF ResetIssue
  <2>2. DOMAIN reset' = DOMAIN reset \cup {N}
    <3>1. DOMAIN reset' = 1..Len(reset')
      BY <2>1, LenProperties
    <3> QED BY <1>1, <2>1, <3>1
  <2>3. clock' = clock /\ UsableSet \subseteq req[r].seen
    BY <1>1, <1>3 DEF ResetIssue, SerialSlot
  <2>4. \A t \in DOMAIN reset : ~Usable(t)'
    BY <2>1, <2>3 DEF Usable, UsableSet
  <2> QED BY <2>2, <2>4 DEF OneUsableReset
<1>4. ASSUME NEW r \in Requests, ResetChange(r) PROVE OneUsableReset'
  <2>1. clock' = clock /\ (reset' = reset \/ reset' = [reset EXCEPT ![req[r].token].used = TRUE])
    BY <1>4 DEF ResetChange
  <2>2. /\ DOMAIN reset' = DOMAIN reset
        /\ \A t \in DOMAIN reset : reset[t].used => reset'[t].used
    <3>1. CASE reset' = reset
      BY <3>1
    <3>2. CASE reset' = [reset EXCEPT ![req[r].token].used = TRUE]
      <4>1. \A t \in DOMAIN reset : reset[t] \in LinkRow
        BY <1>1, Tables
      <4> QED BY <3>2, <4>1 DEF LinkRow
    <3> QED BY <2>1, <3>1, <3>2
  <2> QED BY <1>1, <1>2, <2>1, <2>2
<1>5. ASSUME NEW r \in Requests, Step(r), ~ResetIssue(r), ~ResetChange(r)
      PROVE  reset' = reset /\ clock' = clock
  BY <1>5 DEF Step, LoginVerify, LoginIssue, Rotate, ReuseSees, Sweep, RevokeOne, ResetSees,
     AdminAudit, ResetSeesSessions, VerifyMark, ResendIssue, Abandon, rows
<1>6. ASSUME NEW r \in Requests, Call(r) PROVE reset' = reset /\ clock' = clock
  BY <1>6 DEF Call, LoginRead, ForgotRead, AdminRead, ResendRead, RefreshRead, LogoutRead,
     ResetRead, VerifyRead, rows
<1>7. ASSUME NEW c \in Clocks, Elapse(c)
      PROVE  /\ reset' = reset /\ clock'["reset"] \in Nat /\ clock["reset"] <= clock'["reset"]
  BY <1>1, <1>7 DEF Elapse, Clocks
<1>8. reset' = reset /\ clock' = clock => OneUsableReset'
  BY <1>1, <1>2
<1> QED BY <1>2, <1>3, <1>4, <1>5, <1>6, <1>7, <1>8 DEF Next, vars, rows

LEMMA SerialAlways ==
  ASSUME OneAtATime
  PROVE  Spec => []SerialInv
<1>1. Init => SerialInv
  <2> SUFFICES ASSUME Init PROVE SerialInv
    OBVIOUS
  <2>1. refresh = <<>> /\ reset = <<>> /\ \A r \in Requests : req[r].at = "idle"
    BY DEF Init, Idle
  <2>2. DOMAIN refresh = {} /\ DOMAIN reset = {}
    BY <2>1
  <2> QED BY <2>1, <2>2, InitHolds DEF SerialInv, SerialSlot, NoSessionOutlivesReset,
      OneUsableReset, LiveSet
<1>2. SerialInv /\ [Next]_vars => SerialInv'
  BY StepKeeps, SerialSlots, SerialSessions, SerialResets DEF SerialInv
<1> QED BY <1>1, <1>2, PTL DEF Spec

(* A reset leaves no session that an earlier password opened. *)
THEOREM ResetEndsSessions ==
  ASSUME OneAtATime
  PROVE  Spec => []NoSessionOutlivesReset
<1>1. SerialInv => NoSessionOutlivesReset
  BY DEF SerialInv
<1> QED BY <1>1, SerialAlways, PTL

(* At most one link for a new password works, whether asked for or issued. *)
THEOREM OneLinkWorks ==
  ASSUME OneAtATime
  PROVE  Spec => []OneUsableReset
<1>1. SerialInv => OneUsableReset
  BY DEF SerialInv
<1> QED BY <1>1, SerialAlways, PTL

(* A reused token takes its whole chain with it. *)
THEOREM ReuseEndsChain ==
  ASSUME OneAtATime
  PROVE  Spec => ReuseDropsChain
<1>1. ASSUME SerialInv, NEW r \in Requests, Sweep(r), NEW t \in DOMAIN refresh'
      PROVE  refresh'[t].revoked
  <2>1. TypeOK /\ LiveSet \subseteq req[r].seen /\ refresh' = Revoke(req[r].seen)
    BY <1>1, Tables DEF SerialInv, SerialSlot, Sweep
  <2> QED BY <1>1, <2>1, RevokeRows DEF LiveSet, Live
<1>2. SerialInv /\ [Next]_vars =>
        [\A r \in Requests : Sweep(r) =>
           \A t \in DOMAIN refresh' :
             origin'[t].login = origin[req[r].token].login => refresh'[t].revoked]_vars
  BY <1>1
<1> QED BY <1>2, SerialAlways, PTL DEF Spec, ReuseDropsChain
=============================================================================
