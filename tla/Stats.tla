-------------------------------- MODULE Stats --------------------------------
(***************************************************************************)
(* What the portal tells of a student's work: the result and the history   *)
(* of a practice attempt (practice.mapper.ts), the profile, the list of a  *)
(* manada and the ranking (modules/stats).  All of it is computed from     *)
(* rows that practice, study and registration commit, by statements that   *)
(* filter, group and cut them differently: the actions are those commits,  *)
(* the views are operators, and each is read off one state.                *)
(*                                                                         *)
(* A user is the place of the name in alphabetical order, unique here.     *)
(***************************************************************************)
EXTENDS PriorityScore, Sequences, FiniteSets, FiniteSetsExt

CONSTANTS
  Members,       \* how many users there are
  Manadas,
  Modules,       \* course modules: [course, code]
  Cards,         \* for each card: the course of its deck, its origin module, the modules it cites
  NoManada, NoModule,
  HistoryLimit,  \* PRACTICE_HISTORY_LIMIT (8): the result shown and some before it
  MemberCap,     \* MEMBER_CAP (500)
  MinAttempts,   \* the floor of the ranking (3 or more)
  WindowTicks,   \* the 30 days of the activity, a day being two ticks
  Profiles,      \* the users there may be: for each, the role and the manada
  Pools,         \* the sets of cards a session may be over
  Busy,          \* the users who study and practise: bounds whose rows there are
  MaxTicks, MaxRows  \* bound the time and the rows of attempts and sessions

Users == 1..Members
Ids   == DOMAIN Cards

(* A card cites a question, and its questions are of the course of its deck: what the seed
   leaves (Catalogue!RowsMatchFiles). *)
ASSUME StatsAssumption ==
  /\ Profiles \subseteq [Users -> [admin : BOOLEAN, manada : Manadas \union {NoManada}]]
  /\ Pools \subseteq SUBSET Ids /\ Busy \subseteq Users
  /\ \A n \in {Members, MemberCap, MinAttempts, WindowTicks, MaxTicks} : n \in Nat \ {0}
  /\ HistoryLimit \in Nat /\ HistoryLimit > 1
  /\ NoManada \notin Manadas /\ NoModule \notin Modules /\ MaxRows \in Nat
  /\ \A c \in Ids :
       LET own == {m \in Modules : m.course = Cards[c].course}
       IN Cards[c].cites \in Seq(own) \ {<<>>} /\ Cards[c].origin \in own \union {NoModule}

VARIABLES
  profile,   \* for each user: the role (is it ADMIN or above?) and the manada
  attempts,  \* finished attempts in the order of finishedAt: user, card, correct, at
  sessions,  \* study sessions: user and start
  level,     \* card_states: for each user and card its level, "none" without a row
  now

vars == <<profile, attempts, sessions, level, now>>

TypeOK ==
  /\ profile \in Profiles
  /\ \A i \in DOMAIN attempts : /\ attempts[i].user \in Users /\ attempts[i].card \in Ids
                                /\ attempts[i].correct \in 0..Len(Cards[attempts[i].card].cites)
                                /\ attempts[i].at \in 1..now
  /\ sessions \subseteq Users \X (1..now)
  /\ level \in [Users -> [Ids -> {"none", "NEW", "HARD", "LEARNING", "EASY"}]]
  /\ now \in 1..MaxTicks

Init ==
  /\ profile \in Profiles
  /\ attempts = <<>> /\ sessions = {} /\ now = 1
  /\ level = [u \in Users |-> [c \in Ids |-> "none"]]

Rows == Len(attempts) + Cardinality(sessions)
Total(c) == Len(Cards[c].cites)

(* Practice: a finish stores its result. *)
Finish(u, c, correct) ==
  /\ Rows < MaxRows
  /\ attempts' = Append(attempts, [user |-> u, card |-> c, correct |-> correct, at |-> now])
  /\ UNCHANGED <<profile, sessions, level, now>>

(* Study: a session starts, with a state for each card of its pool, and one is rated (one
   session per tick bounds the ratings). *)
StartAndRate(u, pool, c, rating) ==
  /\ Rows < MaxRows /\ <<u, now>> \notin sessions
  /\ sessions' = sessions \union {<<u, now>>}
  /\ level' = [level EXCEPT ![u] = [d \in Ids |-> IF d = c THEN rating
                                                  ELSE IF d \in pool /\ @[d] = "none" THEN "NEW"
                                                  ELSE @[d]]]
  /\ UNCHANGED <<profile, attempts, now>>

Tick ==
  /\ now < MaxTicks
  /\ now' = now + 1
  /\ UNCHANGED <<profile, attempts, sessions, level>>

(* The routes of this module read, and change nothing. *)
Read == UNCHANGED vars

Next ==
  \/ \E u \in Busy, c \in Ids : \E correct \in 0..Total(c) : Finish(u, c, correct)
  \/ \E u \in Busy, pool \in Pools : \E c \in pool, rating \in {"HARD", "LEARNING", "EASY"} :
       StartAndRate(u, pool, c, rating)
  \/ Tick
  \/ Read

Spec == Init /\ [][Next]_vars
-----------------------------------------------------------------------------
(* The rows of a query in the order it asks for, of which each tells any two rows apart. *)
InOrder(S, before(_, _)) ==
  CHOOSE s \in [1..Cardinality(S) -> S] : \A i, j \in DOMAIN s : i < j => before(s[i], s[j])

Less(x, y) == x < y

(* Practice: the history of a card, newest last, and the view of a finished attempt. *)
FirstOf(s, n) == SubSeq(s, 1, AtMost(n, Len(s)))
LastOf(s, n)  == SubSeq(s, Len(s) - AtMost(n, Len(s)) + 1, Len(s))

ResultsOf(u, c) == {i \in DOMAIN attempts : attempts[i].user = u /\ attempts[i].card = c}

Percent(i) == Pct(attempts[i].correct, Total(attempts[i].card))

(* Mutant: the attempt is among its own predecessors. *)
Prior_Itself(i, take) == LastOf(InOrder(ResultsOf(attempts[i].user, attempts[i].card), Less), take)

(* findFinishedHistory: take rows, the one shown left out. *)
Prior(i, take) ==
  LastOf(InOrder(ResultsOf(attempts[i].user, attempts[i].card) \ {i}, Less), take)

History(u, c) == LastOf(InOrder(ResultsOf(u, c), Less), HistoryLimit)

FinishedView(i) ==
  LET prior == Prior(i, HistoryLimit - 1)
      last == Len(prior)
  IN [history  |-> Append(prior, i),
      previous |-> IF last = 0 THEN 0 ELSE prior[last],
      delta    |-> IF last = 0 THEN 0 ELSE Percent(i) - Percent(prior[last])]

-----------------------------------------------------------------------------
(* Mutant: the origin is not looked at. *)
ModuleOf_FirstCited(i) == Cards[attempts[i].card].cites[1]

(* The profile: each attempt counts for the module of the card's origin, else of the first
   question it cites (resolveAttemptModuleId). *)
ModuleOf(i) ==
  LET card == Cards[attempts[i].card]
  IN IF card.origin # NoModule THEN card.origin ELSE card.cites[1]

Course(m) == m.course
Every == "any"

(* findFinishedAttempts and aggregateByModule: the attempts behind one line of the profile. *)
ProfileLine(u, course, m) ==
  {i \in DOMAIN attempts : /\ attempts[i].user = u
                           /\ course # Every => Cards[attempts[i].card].course = course
                           /\ ModuleOf(i) = m}

ProfileModules(course) == {m \in Modules : course # Every => m.course = course}

-----------------------------------------------------------------------------
(* The scope of a ranking: a course, a module code, or both; of a list of members: neither. *)
NoScope == [course |-> Every, code |-> Every]

(* requireRankingScope: a ranking without a scope, or of no module, is refused. *)
Scopes == UNION {{[course |-> m.course, code |-> Every], [course |-> Every, code |-> m.code],
                  [course |-> m.course, code |-> m.code]} : m \in Modules}

ModuleFilter(scope) ==
  {m \in Modules : /\ scope.course # Every => m.course = scope.course
                   /\ scope.code # Every => m.code = scope.code}

CitesSome(c, ms) == \E n \in DOMAIN Cards[c].cites : Cards[c].cites[n] \in ms

(* attemptScopeWhere: the citations count only for a card without origin. *)
InAttemptScope(c, scope) ==
  LET ms == ModuleFilter(scope)
  IN \/ scope = NoScope
     \/ Cards[c].origin \in ms
     \/ Cards[c].origin = NoModule /\ CitesSome(c, ms)

(* cardCatalogWhere: here they count for any card, and without a code the deck decides. *)
InCatalogueScope(c, scope) ==
  IF scope.code # Every
  THEN Cards[c].origin \in ModuleFilter(scope) \/ CitesSome(c, ModuleFilter(scope))
  ELSE scope.course # Every => Cards[c].course = scope.course

CountActiveCards(scope) == Cardinality({c \in Ids : InCatalogueScope(c, scope)})

GroupAttempts(u, scope) ==
  {i \in DOMAIN attempts : attempts[i].user = u /\ InAttemptScope(attempts[i].card, scope)}

Right(is)    == SumFunction([i \in is |-> attempts[i].correct])
OutOf(is)    == SumFunction([i \in is |-> Total(attempts[i].card)])
Covered(u, scope) == {c \in Ids : InCatalogueScope(c, scope) /\ level[u][c] \in {"EASY", "LEARNING"}}

Day(tick) == tick \div 2

(* Starts in the last 30 days, counted by calendar day: they may fall on 31 of them. *)
ActiveDays(u) ==
  Cardinality({Day(s[2]) : s \in {s \in sessions : s[1] = u /\ s[2] >= now - WindowTicks}})

LastActive(u, is) ==
  Max({0} \union {attempts[i].at : i \in is} \union {s[2] : s \in {s \in sessions : s[1] = u}})

(* mergeMemberMetrics. *)
Metrics(u, scope) ==
  LET is == GroupAttempts(u, scope)
  IN [accuracy |-> Pct(Right(is), OutOf(is)),
      attempts |-> Cardinality(is),
      days     |-> ActiveDays(u),
      coverage |-> Pct(Cardinality(Covered(u, scope)), CountActiveCards(scope)),
      last     |-> LastActive(u, is)]

ItemScore(metrics) == Score(metrics.accuracy, metrics.days, metrics.attempts)

ByName(us) == InOrder(us, Less)
InManada(m) == {u \in Users : profile[u].manada = m}

(* findActiveUsersForRanking takes one more than the cap to know whether it cuts. *)
Take_Cap == MemberCap  \* mutant
Take == MemberCap + 1
Candidates(manada) ==
  LET found == FirstOf(ByName(IF manada = NoManada THEN Users ELSE InManada(manada)), Take)
  IN [users |-> FirstOf(found, MemberCap), truncated |-> Len(found) > MemberCap]

(* Mutant: the subtraction of the comparison the other way round. *)
RankKey_Ascending(metrics, sortBy) ==
  CASE sortBy = "accuracy"   -> 0 - metrics.accuracy
    [] sortBy = "activeDays" -> 0 - metrics.days
    [] OTHER                 -> 0 - ItemScore(metrics)

(* compareRankingItems: the key, downwards, then the name. *)
RankKey(metrics, sortBy) ==
  CASE sortBy = "accuracy"   -> metrics.accuracy
    [] sortBy = "activeDays" -> metrics.days
    [] OTHER                 -> ItemScore(metrics)

RanksAbove(x, y, sortBy) ==
  LET delta == RankKey(x.study, sortBy) - RankKey(y.study, sortBy)
  IN delta > 0 \/ (delta = 0 /\ x.user < y.user)

Ranking(manada, scope, sortBy) ==
  LET candidates == Candidates(manada)
      items == {[user |-> u, study |-> Metrics(u, scope)] : u \in Range(candidates.users)}
  IN [ranked       |-> InOrder({x \in items : x.study.attempts >= MinAttempts},
                               LAMBDA x, y : RanksAbove(x, y, sortBy)),
      insufficient |-> InOrder({x \in items : x.study.attempts < MinAttempts},
                               LAMBDA x, y : x.user < y.user),
      truncated    |-> candidates.truncated]

(* compareManadaMembers: who was active last comes first, who never was comes last. *)
MembersOf(viewer, sortBy) ==
  LET last == [u \in Users |-> Metrics(u, NoScope).last]
      before(u, v) == IF sortBy = "lastActiveAt" /\ last[u] # last[v] THEN last[u] > last[v] ELSE u < v
  IN IF profile[viewer].manada = NoManada THEN <<>>
     ELSE InOrder(Range(FirstOf(ByName(InManada(profile[viewer].manada)), MemberCap)), before)

(* Mutant: two users without a manada share it. *)
CanViewPeer_BothNull(viewer, target) ==
  \/ viewer = target
  \/ profile[viewer].admin
  \/ profile[viewer].manada = profile[target].manada

(* canViewPeer. *)
CanViewPeer(viewer, target) ==
  \/ viewer = target
  \/ profile[viewer].admin
  \/ profile[viewer].manada # NoManada /\ profile[viewer].manada = profile[target].manada
-----------------------------------------------------------------------------
Newest(i) == \A j \in DOMAIN attempts :
  attempts[j].user = attempts[i].user /\ attempts[j].card = attempts[i].card => j <= i

(* The view of a result and the history of its card, two queries with different cuts, agree:
   for the newest result the lists are the same and "previous" is the one before it, and the
   delta of any result is to the item before it in the list it comes with. *)
HistoriesAgree ==
  \A i \in DOMAIN attempts :
    LET view == FinishedView(i)
        n == Len(view.history)
    IN /\ Newest(i) => view.history = History(attempts[i].user, attempts[i].card)
       /\ n > 1 => /\ view.previous = view.history[n - 1]
                   /\ view.delta = Percent(i) - Percent(view.history[n - 1])
       /\ Newest(i) /\ n = 1 => Cardinality(ResultsOf(attempts[i].user, attempts[i].card)) = 1

(* Every result counts in exactly one line of the profile, of the whole catalogue and of the
   course of its card, and in none of another course. *)
EachResultCountsOnce ==
  \A u \in Users : \A i \in {i \in DOMAIN attempts : attempts[i].user = u} :
    \A course \in {Course(m) : m \in Modules} \union {Every} :
      Cardinality({m \in ProfileModules(course) : i \in ProfileLine(u, course, m)})
        = IF course \in {Every, Cards[attempts[i].card].course} THEN 1 ELSE 0

(* What a student sees of a module the ranking of that module counts too: the attempts of a
   line of the profile are among those of the ranking, though the one looks at the first
   citation of a card and the other at all of them. *)
ProfileWithinRanking ==
  \A u \in Users, m \in Modules :
    ProfileLine(u, Every, m) \subseteq GroupAttempts(u, [course |-> m.course, code |-> m.code])

(* Every result is counted, once where a student looks and also where the ranking does, by
   two definitions of the module of an attempt (and the rows are of their types). *)
ResultsCounted == TypeOK /\ EachResultCountsOnce /\ ProfileWithinRanking

(* The ranking accounts for every user asked for, once: among those with base, sorted, or
   those without; or it says that it leaves somebody out. *)
RankingAccounts ==
  \A manada \in Manadas \union {NoManada}, scope \in Scopes :
    LET ranking == Ranking(manada, scope, "priority")
        asked == IF manada = NoManada THEN Users ELSE InManada(manada)
        shown == {x.user : x \in Range(ranking.ranked) \union Range(ranking.insufficient)}
    IN /\ shown \subseteq asked
       /\ Len(ranking.ranked) + Len(ranking.insufficient) = Cardinality(shown)
       /\ ranking.truncated <=> shown # asked

(* Who has studied at least as much in every respect is never put behind for the score: only
   a tie, then broken by name, does that. *)
RankRespectsEffort ==
  \A scope \in Scopes :
    LET ranked == Ranking(NoManada, scope, "priority").ranked
        atLeast(m, n) == m.accuracy >= n.accuracy /\ m.days >= n.days /\ m.attempts >= n.attempts
    IN \A a, b \in DOMAIN ranked :
         a < b /\ atLeast(ranked[b].study, ranked[a].study)
           => /\ ItemScore(ranked[a].study) = ItemScore(ranked[b].study)
              /\ ranked[a].user < ranked[b].user

(* Whom a student finds in the list of the manada the student may open, and the other way
   round, as long as the list is not cut; without a manada there is neither. *)
MembersAreViewable ==
  \A viewer \in {u \in Users : ~profile[u].admin} :
    LET listed == Range(MembersOf(viewer, "lastActiveAt"))
        viewable == {u \in Users : CanViewPeer(viewer, u)}
    IN /\ listed \subseteq viewable
       /\ Cardinality(viewable) <= MemberCap => listed \union {viewer} = viewable
=============================================================================
