-------------------------------- MODULE Study --------------------------------
(***************************************************************************)
(* Study sessions of one user (src/src/modules/study): every statement     *)
(* filters by user and tenant, so the rows of two users never meet.        *)
(*                                                                         *)
(* A review is one interactive transaction at the default isolation level  *)
(* of the database (read committed): its reads see what is committed when  *)
(* each of them runs, it locks nothing before its updates, and the updates *)
(* set values computed from those reads.  Its two updates become visible   *)
(* together, at its commit; row locks only decide which of two commits is  *)
(* the later one.  Creating and finishing a session run outside of any     *)
(* transaction, one statement at a time.                                   *)
(***************************************************************************)
EXTENDS StudyAlgorithm

CONSTANTS
  Cards,
  Pools,        \* the card sets a deck selector may select
  Sessions,     \* identifiers of sessions: bounds how many are created
  Requests,     \* request slots: bounds how many handlers run at once
  Focuses,      \* the focus levels the client uses; "none" is no focus
  MaxReviews,   \* bound: reviews begun in a behaviour
  NoSession, NoCard

ASSUME StudyAssumption ==
  /\ IsFiniteSet(Cards) /\ IsFiniteSet(Sessions) /\ Pools \subseteq SUBSET Cards /\ {} \notin Pools
  /\ Focuses \subseteq Levels \cup {"none"}
  /\ MaxReviews \in Nat
  /\ NoSession \notin Sessions /\ NoCard \notin Cards

VARIABLES
  session,   \* study_sessions: whether inserted, endedAt set, queue, reviews, tally
  progress,  \* card_states: level, streak and seen, the defaults where there is no row
  known,     \* the cards that have a card_states row
  req,       \* the handler each request slot runs and its local variables
  committed  \* history: reviews committed in each session

vars == <<session, progress, known, req, committed>>

NoTally == [r \in Ratings |-> 0]
NoRow   == [open |-> FALSE, ended |-> FALSE, queue |-> <<>>, reviews |-> 0, tally |-> NoTally]
Idle    == [at |-> "idle"]

Reviewing == {"pick", "state", "commit"}
InFlight  == {r \in Requests : req[r].at \in Reviewing}

TypeOK ==
  /\ DOMAIN session = Sessions /\ DOMAIN progress = Cards /\ DOMAIN req = Requests
  /\ \A s \in Sessions :
       /\ session[s].open \in BOOLEAN /\ session[s].ended \in BOOLEAN
       /\ session[s].queue \in Seq(Cards) /\ session[s].reviews \in Nat
       /\ session[s].tally \in [Ratings -> Nat]
  /\ progress \in [Cards -> [level : Levels, streak : Nat, seen : Nat]]
  /\ known \subseteq Cards
  /\ \A r \in Requests : req[r].at \in {"idle", "ensure", "insert", "end"} \cup Reviewing

Init ==
  /\ session = [s \in Sessions |-> NoRow]
  /\ progress = [c \in Cards |-> NewProgress]
  /\ known = {}
  /\ req = [r \in Requests |-> Idle]
  /\ committed = [s \in Sessions |-> 0]

-----------------------------------------------------------------------------
Level   == [c \in Cards |-> progress[c].level]
Done(r) == req' = [req EXCEPT ![r] = Idle]
Becomes(r, local) == req' = [req EXCEPT ![r] = local]

(* Bound: every insert under way still finds an identifier in Sessions. *)
RoomForSession ==
  Cardinality({r \in Requests : req[r].at \in {"ensure", "insert"}})
    < Cardinality({s \in Sessions : ~session[s].open})

(* POST /study-sessions: the pool and its levels are read, filtered and ordered... *)
CreateRead(r, pool, hardOnly) ==
  /\ req[r] = Idle
  /\ RoomForSession
  /\ \E queue \in RankOrders(IF hardOnly THEN HardOnly(pool, Level) ELSE pool, Level) :
       Becomes(r, [at |-> "ensure", queue |-> queue])
  /\ UNCHANGED <<session, progress, known, committed>>

(* ...every card of the queue gets a card_states row if it has none... *)
CreateEnsure(r) ==
  /\ req[r].at = "ensure"
  /\ known' = known \cup ToSet(req[r].queue)
  /\ Becomes(r, [req[r] EXCEPT !.at = "insert"])
  /\ UNCHANGED <<session, progress, committed>>

(* ...and the session is inserted with that queue. *)
CreateInsert(r, s) ==
  /\ req[r].at = "insert"
  /\ ~session[s].open
  /\ session' = [session EXCEPT ![s] = [NoRow EXCEPT !.open = TRUE, !.queue = req[r].queue]]
  /\ Done(r)
  /\ UNCHANGED <<progress, known, committed>>

(* POST /study-sessions/:id/reviews: the session is read and must not be over... *)
ReviewRead(r, s, rating, focus) ==
  /\ req[r] = Idle
  /\ SumFunction(committed) + Cardinality(InFlight) < MaxReviews
  /\ session[s].open /\ ~session[s].ended /\ session[s].queue # <<>>
  /\ Becomes(r, [at |-> "pick", id |-> s, row |-> session[s], rating |-> rating, focus |-> focus])
  /\ UNCHANGED <<session, progress, known, committed>>

(* ...the levels of its queue are read and the focus picks a card (409 when none matches)... *)
ReviewPick(r) ==
  /\ req[r].at = "pick"
  /\ LET index == FocusIndex(req[r].row.queue, Level, req[r].focus)
     IN IF index = 0 THEN Done(r)
        ELSE Becomes(r, [at |-> "state", id |-> req[r].id, row |-> req[r].row,
                       rating |-> req[r].rating, index |-> index])
  /\ UNCHANGED <<session, progress, known, committed>>

(* ...the progress of that card is read (404 without a row)... *)
ReviewState(r) ==
  /\ req[r].at = "state"
  /\ LET card == req[r].row.queue[req[r].index]
     IN IF card \notin known THEN Done(r)
        ELSE Becomes(r, [at |-> "commit", id |-> req[r].id, row |-> req[r].row,
                       rating |-> req[r].rating, index |-> req[r].index,
                       old |-> progress[card]])
  /\ UNCHANGED <<session, progress, known, committed>>

(* Mutants: the counter is incremented in the database, the tally is not; endedAt is
   written null when the queue is not empty. *)
Reviewed_Increment(row, now, index, old, rating) ==
  LET queue == NextQueue(row.queue, index, old, rating)
  IN [open |-> TRUE, queue |-> queue, reviews |-> now.reviews + 1,
      tally |-> [row.tally EXCEPT ![rating] = @ + 1], ended |-> queue = <<>> \/ now.ended]
Reviewed_Null(row, now, index, old, rating) ==
  LET queue == NextQueue(row.queue, index, old, rating)
  IN [open |-> TRUE, queue |-> queue, reviews |-> row.reviews + 1,
      tally |-> [row.tally EXCEPT ![rating] = @ + 1], ended |-> queue = <<>>]

(* The session row a review computes from the row it read. *)
Reviewed(row, now, index, old, rating) ==
  LET queue == NextQueue(row.queue, index, old, rating)
  IN [open    |-> TRUE,
      queue   |-> queue,
      reviews |-> row.reviews + 1,
      tally   |-> [row.tally EXCEPT ![rating] = @ + 1],
      ended   |-> queue = <<>> \/ now.ended]

(* ...and the progress and the session are updated and committed.  endedAt is written
   only when the queue is empty; every other column is what this handler computed. *)
ReviewCommit(r) ==
  /\ req[r].at = "commit"
  /\ LET card == req[r].row.queue[req[r].index]
         s    == req[r].id
     IN /\ progress' = [progress EXCEPT ![card] = NextProgress(req[r].old, req[r].rating)]
        /\ session' = [session EXCEPT ![s] =
             Reviewed(req[r].row, session[s], req[r].index, req[r].old, req[r].rating)]
        /\ committed' = [committed EXCEPT ![s] = @ + 1]
  /\ Done(r)
  /\ UNCHANGED known

(* POST /study-sessions/:id/finish: the session is read, ended or not... *)
FinishRead(r, s) ==
  /\ req[r] = Idle
  /\ session[s].open
  /\ Becomes(r, [at |-> "end", id |-> s, row |-> session[s]])
  /\ UNCHANGED <<session, progress, known, committed>>

(* ...and endedAt is set unless it was set then; the reply repeats the row read then. *)
FinishUpdate(r) ==
  /\ req[r].at = "end"
  /\ session' = IF req[r].row.ended THEN session
                ELSE [session EXCEPT ![req[r].id].ended = TRUE]
  /\ Done(r)
  /\ UNCHANGED <<progress, known, committed>>

(* The process stops or the transaction times out: nothing uncommitted remains. *)
Abandon(r) ==
  /\ req[r] # Idle
  /\ Done(r)
  /\ UNCHANGED <<session, progress, known, committed>>

Step(r) ==
  \/ CreateEnsure(r) \/ (\E s \in Sessions : CreateInsert(r, s))
  \/ ReviewPick(r) \/ ReviewState(r) \/ ReviewCommit(r)
  \/ FinishUpdate(r)
  \/ Abandon(r)

Call(r) ==
  \/ \E pool \in Pools, hardOnly \in BOOLEAN : CreateRead(r, pool, hardOnly)
  \/ \E s \in Sessions :
       \/ \E rating \in Ratings, focus \in Focuses : ReviewRead(r, s, rating, focus)
       \/ FinishRead(r, s)

Next == \E r \in Requests : Call(r) \/ Step(r)

Spec == Init /\ [][Next]_vars
-----------------------------------------------------------------------------
Open(s)    == session[s].open
Queued(s)  == ToSet(session[s].queue)
SeenTotal  == SumFunction([c \in Cards |-> progress[c].seen])

(* No card is twice in a queue, and every queued card has a card_states row: a session a
   crash or a race left behind never answers a review with "Card state not found". *)
QueueSound ==
  \A s \in Sessions : IsInjective(session[s].queue) /\ Queued(s) \subseteq known

(* The review counter of a session is the sum of its tally, even when concurrent reviews
   overwrite one another: both come from the same read of the row. *)
TallyAddsUp == \A s \in Sessions : session[s].reviews = SumFunction(session[s].tally)

(* The progress of a card is coherent: a streak only at EASY, NEW only when never seen. *)
ProgressCoherent ==
  \A c \in Cards : /\ progress[c].streak > 0 <=> progress[c].level = "EASY"
                   /\ progress[c].seen = 0 <=> progress[c].level = "NEW"

(* A session whose queue ran out is ended, whichever request emptied it. *)
EmptyQueueEnded ==
  \A s \in Sessions : Open(s) /\ session[s].queue = <<>> => session[s].ended

(* Reviews that overwrite one another, and crashes between the statements of a create, leave
   a session's row that agrees with itself and with the cards' (and of its types). *)
RowsSound == TypeOK /\ QueueSound /\ TallyAddsUp /\ EmptyQueueEnded

(* An ended session is never reopened: a review that read it before the finish and commits
   after it leaves endedAt set. *)
EndedForGood ==
  [][\A s \in Sessions : session[s].ended => session'[s].ended]_vars

(* One request at a time: no review is lost.  The counters of the sessions and the seen
   counters of the cards both add up to the reviews that were committed ("progress in DB").
   With two requests at once the code does not keep it: a second review that read the rows
   before the first committed overwrites it. *)
ReviewsCounted ==
  /\ \A s \in Sessions : session[s].reviews = committed[s]
  /\ SeenTotal = SumFunction(committed)

(* One request at a time: a card leaves a queue by its second EASY in a row, in whichever
   of the sessions that share its progress the first one was given. *)
LeavesOnSecondEasy ==
  [][\A s \in Sessions, c \in Cards :
       c \in Queued(s) /\ c \notin Queued(s)' =>
         progress[c].level = "EASY" /\ progress'[c].streak = progress[c].streak + 1]_vars

(* One session of new cards: the cards out of the queue are those mastered in it. *)
OutIffMastered ==
  \A s \in Sessions, c \in Cards :
    Open(s) => (c \notin Queued(s) <=> progress[c].streak >= 2)

(* One session of new cards, no focus: however the other cards are rated, a card rated
   HARD is never more than GAP.HARD reviews from being shown again. *)
HardComesBack ==
  \A s \in Sessions, c \in Cards :
    Open(s) /\ progress[c].level = "HARD" =>
      \E i \in 1..(GAP.HARD + 1) : i <= Len(session[s].queue) /\ session[s].queue[i] = c
=============================================================================
