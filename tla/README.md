# TLA+ models of portal-defesa-civil-api

The repository is a NestJS API over one PostgreSQL database: a course portal with flash-card
study sessions, practice attempts over multiple-choice questions, and the accounts that use
them. It keeps no state in memory between requests. What makes it hard to test is therefore
not in a function but between two statements: each handler is a sequence of awaited database
statements, most of them outside a transaction, and between two of them any other request may
run, a new container may seed the database, or the process may stop.

The models of what writes share that shape. The variables are the rows of tables; a *request
slot* holds the handler it runs and the local variables that handler keeps across an `await`;
each action is one awaited statement (or several consecutive reads nothing can come between to
any effect). `Abandon`, `Ends` or `Crash` loses a handler with the process or the connection,
leaving the rows as the last commit left them. Early returns (404, 409, 400) are guards, or
steps back to idle where a statement had run before. PostgreSQL runs at its default isolation
level, read committed: nothing read is locked, and an update with a condition re-checks it when
the row's lock is won.

## Components of the system

| Component | State | Operations | What is hard, what makes it correct |
|---|---|---|---|
| practice (`modules/practice`) | `attempts`, `attempt_items` | create, answer, finish, getAttempt, answerKey; listings | answers racing finishes; a crash inside finish. Items answered once, results final, grades that match options, scores that are earned, the key only when it may be seen |
| study (`modules/study`) | `study_sessions` (queue, tally, counter), `card_states` | create, review, finish, view | lost updates between reviews; sessions that share cards; the Leitner queue's arithmetic. No card lost or doubled, tallies that add up, retirement exactly on two EASY in a row |
| auth (`modules/auth`) | password and verified flag of `users`, `refresh_tokens`, `password_reset_tokens`, `email_verification_tokens` | register, login, refresh, logout, forgot, reset, admin link, verify, resend | rotation races, reuse detection, resets racing logins and other resets. One live token per login, a link that works once, no session older than the password |
| access (`modules/access`) | `access_requests`, `allowed_whatsapps` | check, request, approve, reject, allow, remove | read-then-write decisions by two reviewers, decisions overwritten by a submission, numbers found under an alias. Only who was released registers, an approval has a cause, a verdict stands |
| users (`modules/users`, `common/authz`) | role of `users`, `audit_logs` | change role, list | a role compared before the update and not with it; a trail that must tell the truth |
| manadas | `manadas` | find or create, restore | two creators of one row under a unique index, soft-deleted rows |
| courses | `enrollments` | catalogue, enroll | one upsert |
| seed, entrypoint | the catalogue, administrators, allowed numbers, manadas | upserts and find-or-insert at every boot | cut short anywhere; two containers at once; must be idempotent and end whole |
| stats | none of its own | profile, members of a manada, ranking, peers | several definitions of one relation, caps, rounding. The views must agree with one another |
| decks, questions | none of their own | read-only views | nothing to interleave |
| mail, guards, filters, configuration, throttler | none | I/O and request plumbing | not modelled, but for the roles guard |

The components meet in the database only: auth asks access whether a number may register and
tells it that it did; registration, access requests, a public route and the seed find or create
manadas; the admin reset link writes the trail of users; the seed promotes administrators while
requests change roles; stats reads the rows of study and practice. The JWT guard re-reads the
user on every request, so roles take effect at once, but only for requests that begin then.

## Modules

- **`Practice`**: the life of an attempt. `attempt` and `item` are the two tables, `req` the
  handlers; `keyShown` is a history of the answer keys some payload carried. An option is told
  apart by its `isCorrect` flag, and the shuffled order of presentation is left out.
  `create` is `CreateRead`, `CreateInsert`; `answer` is `AnswerRead`, `AnswerRecord`; `finish`
  is `FinishRead`, `FinishMark`, `FinishScore`, `FinishWrite`, `FinishReply`, because it reads
  the attempt three times and writes twice. The ORM reads an attempt and then its items in two
  statements; an attempt only goes from running to finished and an item only from unanswered
  to answered, so reading both at the first statement gives the same behaviours.
- **`ExamSheet`**: what practice promises of an attempt, with no statements in it: opened once,
  every question answered at most once, closed once with a result its right answers bear out.
  `Practice!ImplementsExamSheet` is the refinement.
- **`StudyAlgorithm`**: the pure part of study: the hard-only filter, the order by rank, the
  focus, and what one review does to queue and progress. No recursion.
- **`Study`**: study sessions of one user. `review` runs in an interactive transaction; its
  three reads are three actions and its two updates become visible together in `ReviewCommit`,
  computed from what was read. `create` and `finish` run outside any transaction. `committed`
  is a history of the reviews committed.
- **`Sessions`**: the credentials of one user. Rows are sequences in order of insertion, so
  that what expires is a prefix, counted by `clock` (`Elapse` advances it: an hour, a day or a
  week has passed for the oldest row still in its term). A password is the number of resets
  before it. A multi-row `UPDATE` is two actions, the rows it sees and its commit (`ReuseSees`
  and `Sweep`, `ResetSees` and `ResetIssue`, `ResetSeesSessions` and `ResetChange`): read
  committed lets another transaction insert a row in between. A single-row conditional update
  inside a transaction is decided where the transaction commits, because a second one waits
  for the row. `ResetSeesSessions` waits for another reset because both lock the user row.
  Writing `lastLoginAt` is folded into `LoginIssue`: nothing here reads it.
- **`Whatsapp`**: the digits: the canonical form, the aliases of a lookup, plausible numbers.
- **`Manadas`**: `findOrCreate` as a procedure other handlers call: `call[r]` is where slot `r`
  is in it (`FindManada`, `CreateManada` under the unique index, `FindManada` again after a
  conflict, `RestoreManada`). The unique index tells spellings apart, the lookup does not.
- **`Access`** EXTENDS `Manadas` and composes access, registration and the manadas: the handlers
  of check, request, register, allow, remove, approve, reject, and the seed's allowed numbers.
  A number is its canonical digits; `Aliases` says which rows a lookup finds (`Whatsapp`), a
  write goes to the number's own row. `letIn` is a history of the numbers ever released, `stale`
  of the handlers that go by a row somebody else has changed.
- **`Roles`**: the roles guard, the role change, the administrator's reset link, the trail, and
  the part of the seed that creates and promotes administrators. The actor is read by the guard,
  the target by the service, and the write looks at neither again; `stale` says whose rows
  changed in between.
- **`Catalogue`**: the seed of courses, questions, options, decks, cards, citations and links.
  `Program` is the order of its statements, which the files fix; a boot is a place in it and the
  index of question rows it has built. Upserts are one action, find-then-insert is two. `Gate`
  is the count of `printValidation` that ends it.
- **`PriorityScore`**: the score of the ranking and the percentage of a result, with the
  rounding that IEEE doubles give them.
- **`Stats`**: the views. The actions are what practice and study commit (a result, a session
  started and a card rated) and the passing of time; the history of a card, the profile, the
  list of a manada, the ranking and `canViewPeer` are operators over those rows.
- **`PracticeProofs`, `AccessProofs`** (with the digits of `Whatsapp`), **`RolesProofs`,
  `SessionsProofs`, `StudyProofs`, `StatsProofs`** (with the score) **and `CatalogueProofs`**: the
  theorems. **`Lemmas`**: what they need of sums over a finite set, of putting a finite set in an
  order and of going through a list.
- **`MC_Practice`, `MC_Study`, `MC_Sessions`, `MC_Access`, `MC_Roles`, `MC_Catalogue`,
  `MC_Stats`**: the instances TLC checks.

Operators named `X_Y` after an action or helper `X` are plausible bugs of `X` (a dropped
condition, a missing update); no specification uses them. `PROJECT.json` says which property
each of them breaks.

## Runs

| Run (cfg) | Instance | Checks |
|---|---|---|
| `MC_Practice_races` | 1 user, 2 cards sharing a question, 2 attempts, 2 requests, one of which may be lost; fairness | types; grades match options; a finished attempt is fully graded; the score is earned; an answer right before a finish began is counted; refinement of `ExamSheet` (questions answered once, results final); a finish that began leads to a finished attempt |
| `MC_Study_races` | 2 cards, 2 sessions, 2 requests, 3 reviews | rows sound (queues without duplicates over existing states, counter = sum of tally, empty queue means ended); coherent progress; ended for good |
| `MC_Study_serial` | 2 cards, 2 sessions, 1 request, 4 reviews, every focus | no review lost; a card leaves a queue only by a second EASY in a row |
| `MC_Study_spacing` | 4 cards, 1 session, 1 request, 9 reviews | out of the queue iff mastered; a HARD card is never further than its gap |
| `MC_Sessions_races` | 3 refresh tokens, 1 reset, 1 verification token, 2 requests | one live token per login; sessions and used tokens belong to verified users; a password change spends an unused link; the trail records only links issued |
| `MC_Sessions_serial` | 3 refresh, 2 reset, 1 verification token, 1 request, `autoVerifyEmail` | no session outlives a reset; one usable link; a reuse drops its chain |
| `MC_Access_races` | a mobile number and the landline among its aliases, 2 emails, 1 manada, 2 rows of the list, 2 requests | who registers was let in; an approval has a cause; a row shows its own verdict; accounts point to active manadas; no caller but the seed sees a conflict; a verdict stands |
| `MC_Roles_races` | 3 users, 2 requests, 2 rows of the trail, the seed | the top only by deploy; the seed only raises; actors outrank; the trail tells the truth |
| `MC_Catalogue_boots` | 1 course of 2 questions, 2 decks, 2 links; 2 containers, 1 crash; fairness | rows match the files; the count means a whole catalogue; a rerun changes nothing; the catalogue is whole in the end |
| `MC_Stats_views` | 3 users, 3 modules in 2 courses, 3 cards, 3 rows, 2 days, caps of 2 | histories agree; each result counts once in the profile and within the ranking; the ranking accounts for everybody; effort is respected; listed members may be viewed |

**Bounds.** Two requests are the least in which a check and a write of another meet; but for
liveness, every property the runs check is proved for any number of them, and for any cards,
numbers, people, files and rows (see Proofs). Two sessions sharing a card are the least in which progress is shared; four cards with a gap of two the least queue in which
clamping and not clamping both happen. The instance of `Access` has only numbers that find one
another (others never meet) and one spelling of one manada; the theorems cover any. The course of
`Catalogue` is the least in which a question's place in the file and in its quiz differ, which is
what the index of questions could get wrong. The cards of `Stats` are one that comes from one
module and cites another, one without origin that cites two, and one of another course with a
module of the same code; its history holds two and its lists two, so that each is cut. Its numbers
are too small for a half that the doubles round down: that is left to the theorems on the score.
`Attempts`, `Sessions`, `MaxReviews`, `MaxRefresh`, `MaxResets`, `MaxVerifications`,
`MaxRows`, `MaxTrail`, `MaxTicks` and `MaxCrashes` bound, in the guards of the actions that add
them, how many rows are ever inserted, reviews begun, ticks passed or boots cut short. Deadlock is
checked in every run: some request, or at least another reading of the views, is always possible.
Symmetry is used only over slots, identifiers and interchangeable
questions, cards or emails, never in a run with fairness.

**Types.** `TypeOK` is proved for every module with state; in the runs it is a conjunct of the first invariant of a module (`RowsSound`,
`VerificationHolds`, `RowsMatchFiles`, `ResultsCounted`), or on its own (`MC_Practice_races`).

**Serial runs.** With one request slot the handlers do not interleave, and a crash may still
end any of them. `MC_Study_serial`, `MC_Study_spacing` and `MC_Sessions_serial` show what the
code guarantees then, and their properties are proved under the hypothesis that there is one
slot (`OneAtATime`); each is lost with two requests, as said below: they do not catch those races,
they say that nothing but an overlap does the harm. What the rows keep under an overlap is checked
in the runs with two requests (`RowsSound`, `ProgressCoherent`, `OneLivePerLogin`).

**Properties with an exception for stale reads.** Where the code checks a row and writes it in a
later statement that does not look again, the property that the check is for cannot hold
unconditionally. `VerdictStands`, `TopOnlyByDeploy`, `SeedOnlyRaises`, `ActorsOutrank` and
`TrailTells` say that it holds *except by a handler whose row another changed since it read it*
(`stale`), which is as narrow as the code allows: every exception takes a real overlap, and the
mutants show that nothing else passes through it.

**Runs that end in a counterexample** (what a comment or an error message says and the code does
not keep; `PROJECT.json` quotes each line):

| Run | What happens |
|---|---|
| `MC_Practice_x_NoKeyWhileRunning` | two attempts opened, one finished: its payload carries the key of the card |
| `MC_Access_x_OwnNumberReleased` | only the landline 55 DD [2-5]XXX-XXXX is released; the mobile 55 DD 9[2-5]XXX-XXXX, whose aliases contain it, registers |

Other behaviours of the kind, met while modelling and reachable in the models, for which no run
is kept:

- both of two attempts opened before either is finished get a result; an answer checked before a
  finish is recorded after it, and changes the items but not the stored score;
- of two concurrent reviews of a session the later commit overwrites the earlier
  (`ReviewsCounted` fails with two requests); a review that read the session before its finish
  commits after it, and when it empties the queue, or when two finishes overlap, `endedAt` gets
  the time of whichever writes last (`ended` is only whether it is set, and `EndedForGood` says that it stays set);
  the view of a session ended early still says `finished: false`, because it
  looks at the queue only;
- a login that matched the old password inserts its session after a reset; two concurrent
  requests for a reset link leave two usable ones; a rotation that commits while a chain is being
  revoked leaves its new token live (the three properties of `MC_Sessions_serial` fail with two
  requests). That a superseded link cannot be used is likewise checked only there: the instance
  with two requests has one reset token;
- two reviewers who both read a request as pending both analyse it, and the later one wins; a
  rejection may leave the number allowed;
- the registration of a mobile number approves the pending request of the landline among its
  aliases, which may then register;
- the seed of a new container undoes a promotion made between its read and its write;
- two seeds at once insert a question or a link twice, and no later boot removes it; a question
  that is there keeps the text of an older revision of the files;
- `getAttempt` of an older result gives as `previous` the newest other one, which finished later;
  `activeDays30d` counts the calendar days of thirty times 24 hours, up to 31; the ranking is cut
  by name before it is ranked, and says so, while the list of a manada is cut without a word.

## Fairness

`Practice!FairSpec` assumes weak fairness of `Continue(r)` for each slot: Node's event loop
resumes a handler whose statement has answered, and the database answers. Clients are not assumed
to send anything. A finish lost with its process is completed by nobody, the student has to send
it again, so `FinishCompletes` speaks of the slots outside `CanCrash`; the other slot may be
dropped at any point. `Catalogue!FairSpec` assumes weak fairness of each container's boot
(the platform starts containers again) and of each step of its seed; crashes are not fair and
bounded, since a container that always crashes never seeds. The other modules promise nothing
that must eventually happen.

## Proofs

The proofs hold for every value of the constants that the named assumptions allow:
`CardsAssumption` (finitely many questions per card), `ManadasAssumption`, `AccessAssumption`
(a number is among its aliases, and having one in common is transitive, which
`AccessProofs!AliasesSuitAccess` derives from the digits), `RolesAssumption`,
`SessionsAssumption` (bounds are numbers), `StudyAssumption` (finitely many cards and sessions;
a pool is a set of cards, and not empty, since `create` refuses an empty queue) and
`StatsAssumption` (a card cites questions of its own course, at least one, which is what the
seed leaves; the history holds more than one result) and `CatalogueAssumption` (cards cite, and
come from, questions of their own course; no two cards of a deck have one code; every course has
an ESSENTIAL deck, which `main` seeds without asking: so are the files of `prisma/seed/data`). No theorem bounds the number of request
slots; those of the serial runs say `OneAtATime` in their statement.

- **`PracticeProofs`**: the four invariants of `MC_Practice_races`, `ScoreKeepsEarlierAnswers`, and
  `Refinement`: `Spec => ImplementsExamSheet`; also that a recorded option and a result never
  change (`AnsweredOnce`, `ResultIsFinal`), which the refinement says in other words.
  `FinishedFullyGraded` is not inductive: the write of a finish relies on a marking two
  statements earlier, and in between answers are recorded by others. `IInv` adds what a handler
  still knows across its awaits (`HandlerInv`): that every item has been graded once it has
  marked them, that the score it computed is at most the score now, and at least the one it
  began with. Those facts survive because rows only grow (`AttemptRowsGrow`, `ItemsGrow`,
  `ScoreGrows`). `RowInv` and `GradedInSheet` tie the items to the card of the attempt, so that a
  score never exceeds its total.
- **`AccessProofs`**: all properties of `MC_Access_races` and the types. `RegisteredWasLetIn` is
  not inductive: a registration passes the list, then looks up users and a manada, then writes.
  `IInv` adds what the rows stand for (`ListInv`, `ApprovalInv`: a row of the list, or an
  approval, means a release of a number alike) and what each handler keeps of them
  (`RegistrationInv`: past its lookups a registration is of a released number, past its manada it
  has an active one; `CallInv`: after a refused insert there is a row to find). For `VerdictStands`
  `FreshInv` adds what `stale` means: a handler whose slot is not stale still sees the request as
  it read it, so that it cannot overwrite a verdict. The last section is about the digits: the
  canonical form is idempotent; a lookup finds every form of a number; the only other plausible
  number it finds is a landline, found by a mobile; aliases split any set of numbers into groups.
- **`RolesProofs`**: all properties of `MC_Roles_races` and the types. `IInv` adds that a handler
  whose slot is not `stale` still sees the roles it read, the actor's above the target's
  (`ReqInv`), and the same of the seed (`SeedInv`).
- **`SessionsProofs`**: all properties of `MC_Sessions_races` and `MC_Sessions_serial`.
  `OneLivePerLogin` needs that a token's first ancestor is not younger than it (`ChainInv`), so
  that the chain of a new login is empty, and that a rotation only inserts a successor where it
  revokes. `TrailIsTrue` needs the number of handlers between the link and its entry (`TrailInv`:
  entries and such handlers together are at most the links). The session of an unverified address
  is excluded by what a login, and a reset, keep across their statements (`SlotInv`). One request
  at a time, an update commits on all the rows it saw (`SerialInv`).
- **`StudyProofs`**: all properties of the three runs of `Study`. Under races `IInv` keeps to
  what a commit computes from one row it read, whichever that was: a queue without duplicates over
  existing states, a tally that adds up, a coherent progress; the lemmas say what `NextQueue`,
  `NextProgress`, the focus and the first queue do to any sequence. One request at a time, the row
  read is the row there is (`SerialInv`), so that the reviews committed, the counters of sessions
  and those of cards are the same number: the sums are counted as sets of units (`Lemmas`).
  `MasteryInv` and `SpacingInv` add that cards stay new until the session is there and that
  without a focus a review is one of the head; `HeadReviewed` is the arithmetic of the gap.
- **`StatsProofs`**: the five invariants of `MC_Stats_views`. `IInv` is only the types; the work
  is in the views. A finite set has one listing in the order of its rows (`Ascending`,
  `OneAscending`: a row's place is the number of rows before it), so that taking all but one row
  and the last seven, then adding it, is taking the last eight of all (`LastOfOneMore`). The two
  definitions of an attempt's module are compared case by case (`CountsOnce`, `WithinRanking`).
  The ranking's order is the key, then the name (`Keyed`); with `ScoreMonotone` (more accuracy,
  days or attempts never lower the score, although the doubles round some halves down) it gives
  `RankRespectsEffort`. Also: the score is within half a point of its exact sum and in 0..100, and
  the high band takes both accuracy and work.
- **`CatalogueProofs`**: the three safety properties of `MC_Catalogue_boots`. A boot trusts its
  index of question rows wherever it goes, so the proof starts with the order of the statements:
  each place of `Program` has a *mark*, the last question before it, and every statement finds at
  its mark what it looks up (`Follows`: an option comes right after its question, a card with an
  origin and a citation after the last question of their course, a citation and a link after
  their card). That is shown part by part (`QuestionPath`, `DeckPath`, `CoursePath`) and
  for parts in a row (`Joined`); `Flattened` does it for a list of parts, by the least place where
  the recursive function behind `FlattenSeq` would be undefined or go wrong. `IInv` is then
  `BootInv`, that a boot's index holds the rows of its mark and what it has passed is present, and
  `RowInv`, that rows come from statements. `RowsMatchFiles` follows; `GateMeansComplete` needs
  that as many rows as questions, each question having one, leave no room for a second
  (`OneRow`); `RerunChangesNothing` needs `FreshInv`, that without an overlap there is one seed at
  most and what it is about to insert is not there. From the same, `RetriesComplete`: as long as
  two seeds never run at once, each one that ends leaves the catalogue whole and no link twice,
  wherever those before it were cut short.

Only model-checked: liveness (`FinishCompletes`, `Recovers`), since fairness and `ENABLED` are out
of the prover's reach (of `Recovers`, `RetriesComplete` is the part that is safety); and the two
runs that end in a counterexample.

## Not modelled

Tenants other than the default one (every statement filters by the user's tenant, which never
changes); soft deletion of users, cards and questions (no route does it); the text of messages,
pagination, the Swagger decorators, mail delivery (its failure is logged and changes no state), the
throttler, access tokens (stateless, 15 minutes), bcrypt and token hashing (taken to be injective).
Courses and enrollment (one upsert of constants under a unique index), decks and questions
(read-only). Of stats: the stuck cards, the sessions list and the tallies inside it, each a single
query; the statistics' statements run in parallel and are no snapshot, while `Stats` reads each view
off one state. Its unscoped coverage counts cards of deleted decks in one part of the fraction only;
nothing deletes a deck. Two revisions of the catalogue's files.

## Plan

Done: `Practice` with `ExamSheet`, `StudyAlgorithm` and `Study`, `Sessions`, `Access` with
`Manadas` and `Whatsapp`, `Roles`, `Catalogue`, `PriorityScore` and `Stats`; proofs of every
safety property that the passing runs check.

Left: an abstract chain of sessions that `Sessions` implements, one live token per login, with
the proof that it does.
