------------------------------ MODULE Catalogue ------------------------------
(***************************************************************************)
(* The seed of the catalogue (src/prisma/seed), which entrypoint.sh runs   *)
(* at every boot: courses, modules, quizzes, questions with their options, *)
(* decks with their cards and pages, and the count that ends it.           *)
(*                                                                         *)
(* The files fix the order of the statements: Program is that order, and a *)
(* boot is a place in it.  Rows under a unique index are upserted;         *)
(* questions and card links are looked up and, if missing, inserted by a   *)
(* second statement that no index guards.  A question stands for its text. *)
(***************************************************************************)
EXTENDS Integers, Sequences, FiniteSets, SequencesExt

CONSTANTS
  Boots,       \* containers: bounds how many seeds run at once
  Courses,     \* the files of each course: questions, decks and pages
  Options,     \* options per question
  MaxCrashes   \* bounds how many boots are cut short

IsList(s) == s \in Seq(Range(s))

(* What the files hold (prisma/seed/data): cards cite and come from questions of their course,
   and no two of a deck have one code. *)
ASSUME CatalogueAssumption ==
  /\ Options \in Nat \ {0} /\ MaxCrashes \in Nat
  /\ IsList(Courses)
  /\ \A c \in DOMAIN Courses :
       LET course == Courses[c]
           n == Len(course.questions)
       IN /\ IsList(course.questions) /\ course.pages \in Nat
          /\ "ESSENTIAL" \in DOMAIN course.decks
          /\ \A kind \in DOMAIN course.decks :
               LET deck == course.decks[kind]
               IN /\ IsList(deck)
                  /\ \A k \in DOMAIN deck :
                       /\ deck[k].origin \in 0..n /\ deck[k].cites \in Seq(1..n)
                       /\ deck[k].links \in Nat
                  /\ \A j, k \in DOMAIN deck : deck[j].code = deck[k].code => j = k

VARIABLES
  keyed,      \* keys of the rows that have no more to them: courses, modules, quizzes, decks, pages
  questions,  \* questions in the order of insertion: course, quiz, ord and text
  options,    \* question_options: question row, ord, isCorrect
  cards,      \* cards: for each key there is, originQuestionId (0 is null)
  refs,       \* card_questions: card key, question row, rank
  links,      \* card_links in the order of insertion: card key, ord
  boot,       \* for each container: its seed's place in Program and its index of question rows
  crashes,    \* boots cut short so far
  overlap     \* history: two seeds ran at once

rows == <<keyed, questions, options, cards, refs, links>>
vars == <<rows, boot, crashes, overlap>>

Off == [at |-> "off", pc |-> 1, index |-> <<>>]

TypeOK ==
  /\ \A q \in DOMAIN questions : questions[q].course \in DOMAIN Courses
  /\ options \subseteq (DOMAIN questions) \X (1..Options) \X BOOLEAN
  /\ cards \in [DOMAIN cards -> {0} \union DOMAIN questions]
  /\ refs \subseteq (DOMAIN cards) \X (DOMAIN questions) \X Nat
  /\ \A l \in DOMAIN links : links[l][1] \in DOMAIN cards
  /\ boot \in [Boots -> [at : {"off", "run", "insert"}, pc : Nat, index : Seq(Nat)]]
  /\ crashes \in 0..MaxCrashes /\ overlap \in BOOLEAN

Init ==
  /\ keyed = {} /\ questions = <<>> /\ options = {} /\ cards = <<>> /\ refs = {} /\ links = <<>>
  /\ boot = [b \in Boots |-> Off]
  /\ crashes = 0 /\ overlap = FALSE

-----------------------------------------------------------------------------
(* The place of a question among those of its quiz, counted along the array of the file. *)
Ord(c, i) ==
  LET file == Courses[c].questions
  IN Cardinality({j \in 1..i : file[j].quiz = file[i].quiz})

Upsert(key) == <<[do |-> "upsert", key |-> key]>>

(* seedModulesAndQuestions: modules, then quizzes, then each question with its options. *)
QuestionsOf(c) ==
  LET file == Courses[c].questions
      quizzes == {file[i].quiz : i \in DOMAIN file}
  IN Upsert(<<"module", c>>)
       \o FlattenSeq([i \in 1..Cardinality(quizzes) |-> Upsert(<<"quiz", c, SetToSeq(quizzes)[i]>>)])
       \o FlattenSeq([i \in DOMAIN file |->
            <<[do |-> "question", course |-> c, i |-> i]>>
              \o [o \in 1..Options |-> [do |-> "option", course |-> c, i |-> i, ord |-> o]]])

(* seedDeck: each card, the questions it cites and its links. *)
DeckOf(c, kind) ==
  LET file == Courses[c].decks[kind]
      key(k) == <<c, kind, file[k].code>>
  IN Upsert(<<"deck", c, kind>>)
       \o FlattenSeq([k \in DOMAIN file |->
            <<[do |-> "card", key |-> key(k),
               origin |-> IF kind = "EXAM" THEN file[k].origin ELSE 0]>>
              \o [n \in DOMAIN file[k].cites |->
                    [do |-> "cite", key |-> key(k), i |-> file[k].cites[n], rank |-> n]]
              \o [n \in 1..file[k].links |-> [do |-> "link", key |-> key(k), ord |-> n]]])

(* seedContentPages. *)
PagesOf(c) == FlattenSeq([p \in 1..Courses[c].pages |-> Upsert(<<"page", c, p>>)])

(* main: the tenant, then each course; only the first has an EXAM deck. *)
Program ==
  Upsert(<<"tenant">>) \o FlattenSeq([c \in DOMAIN Courses |->
    Upsert(<<"course", c>>) \o QuestionsOf(c) \o DeckOf(c, "ESSENTIAL")
      \o (IF "EXAM" \in DOMAIN Courses[c].decks THEN DeckOf(c, "EXAM") ELSE <<>>)
      \o PagesOf(c)])

Running(b)  == boot[b].at \in {"run", "insert"} /\ boot[b].pc <= Len(Program)
Statement(b) == Program[boot[b].pc]
Advance(b)  == boot' = [boot EXCEPT ![b].at = "run", ![b].pc = @ + 1]

(* indexToQuestionId of the course at hand: a course starts a new one. *)
Index(b, i, row) ==
  boot' = [boot EXCEPT ![b].at = "run", ![b].pc = @ + 1,
                       ![b].index = Append(IF i = 1 THEN <<>> ELSE @, row)]

UpsertKey(b) ==
  /\ Running(b) /\ Statement(b).do = "upsert"
  /\ keyed' = keyed \union {Statement(b).key}
  /\ Advance(b)
  /\ UNCHANGED <<questions, options, cards, refs, links, crashes, overlap>>

SameQuestion(c, i) ==
  {q \in DOMAIN questions : /\ questions[q].course = c
                            /\ questions[q].quiz = Courses[c].questions[i].quiz
                            /\ questions[q].ord = Ord(c, i)}

(* Mutants: the quiz is left out of the lookup; the options of a question that is there are
   taken for granted. *)
FindQuestion_AnyQuiz(b) ==
  /\ Running(b) /\ boot[b].at = "run" /\ Statement(b).do = "question"
  /\ LET c == Statement(b).course  i == Statement(b).i
         found == {q \in DOMAIN questions : questions[q].course = c /\ questions[q].ord = Ord(c, i)}
     IN \/ \E q \in found : Index(b, i, q)
        \/ found = {} /\ boot' = [boot EXCEPT ![b].at = "insert"]
  /\ UNCHANGED <<rows, crashes, overlap>>
FindQuestion_SkipsOptions(b) ==
  /\ Running(b) /\ boot[b].at = "run" /\ Statement(b).do = "question"
  /\ LET c == Statement(b).course  i == Statement(b).i
     IN \/ \E q \in SameQuestion(c, i) :
             boot' = [boot EXCEPT ![b].pc = @ + 1 + Options,
                                  ![b].index = Append(IF i = 1 THEN <<>> ELSE @, q)]
        \/ SameQuestion(c, i) = {} /\ boot' = [boot EXCEPT ![b].at = "insert"]
  /\ UNCHANGED <<rows, crashes, overlap>>

(* The question is looked up by its place in the quiz; one that is there keeps its text... *)
FindQuestion(b) ==
  /\ Running(b) /\ boot[b].at = "run" /\ Statement(b).do = "question"
  /\ LET c == Statement(b).course  i == Statement(b).i
     IN \/ \E q \in SameQuestion(c, i) : Index(b, i, q)
        \/ SameQuestion(c, i) = {} /\ boot' = [boot EXCEPT ![b].at = "insert"]
  /\ UNCHANGED <<rows, crashes, overlap>>

(* ...and one that is not is inserted. *)
InsertQuestion(b) ==
  /\ Running(b) /\ boot[b].at = "insert" /\ Statement(b).do = "question"
  /\ LET c == Statement(b).course  i == Statement(b).i
     IN /\ questions' = Append(questions, [course |-> c, quiz |-> Courses[c].questions[i].quiz,
                                           ord |-> Ord(c, i), text |-> <<c, i>>])
        /\ Index(b, i, Len(questions) + 1)
  /\ UNCHANGED <<keyed, options, cards, refs, links, crashes, overlap>>

(* An option of the question just found or inserted: one that is there stays as it is. *)
UpsertOption(b) ==
  /\ Running(b) /\ Statement(b).do = "option"
  /\ LET s == Statement(b)  q == boot[b].index[s.i]
     IN options' = IF \E o \in options : o[1] = q /\ o[2] = s.ord THEN options
                   ELSE options \union {<<q, s.ord, s.ord = Courses[s.course].questions[s.i].correct>>}
  /\ Advance(b)
  /\ UNCHANGED <<keyed, questions, cards, refs, links, crashes, overlap>>

(* A card is written anew at every boot, its origin among the rest. *)
UpsertCard(b) ==
  /\ Running(b) /\ Statement(b).do = "card"
  /\ LET s == Statement(b)
     IN cards' = [k \in DOMAIN cards \union {s.key} |->
                    IF k # s.key THEN cards[k]
                    ELSE IF s.origin = 0 THEN 0 ELSE boot[b].index[s.origin]]
  /\ Advance(b)
  /\ UNCHANGED <<keyed, questions, options, refs, links, crashes, overlap>>

UpsertCite(b) ==
  /\ Running(b) /\ Statement(b).do = "cite"
  /\ LET s == Statement(b)  q == boot[b].index[s.i]
     IN refs' = IF \E ref \in refs : ref[1] = s.key /\ ref[2] = q THEN refs
                ELSE refs \union {<<s.key, q, s.rank>>}
  /\ Advance(b)
  /\ UNCHANGED <<keyed, questions, options, cards, links, crashes, overlap>>

(* Mutants: a link is inserted at every boot; any link of the card is taken for this one. *)
FindLink_Never(b) ==
  /\ Running(b) /\ boot[b].at = "run" /\ Statement(b).do = "link"
  /\ boot' = [boot EXCEPT ![b].at = "insert"]
  /\ UNCHANGED <<rows, crashes, overlap>>
FindLink_AnyOrd(b) ==
  /\ Running(b) /\ boot[b].at = "run" /\ Statement(b).do = "link"
  /\ IF \E l \in DOMAIN links : links[l][1] = Statement(b).key
     THEN Advance(b)
     ELSE boot' = [boot EXCEPT ![b].at = "insert"]
  /\ UNCHANGED <<rows, crashes, overlap>>

(* A link is looked up by its card and place, and inserted if missing. *)
FindLink(b) ==
  /\ Running(b) /\ boot[b].at = "run" /\ Statement(b).do = "link"
  /\ IF \E l \in DOMAIN links : links[l] = <<Statement(b).key, Statement(b).ord>>
     THEN Advance(b)
     ELSE boot' = [boot EXCEPT ![b].at = "insert"]
  /\ UNCHANGED <<rows, crashes, overlap>>

InsertLink(b) ==
  /\ Running(b) /\ boot[b].at = "insert" /\ Statement(b).do = "link"
  /\ links' = Append(links, <<Statement(b).key, Statement(b).ord>>)
  /\ Advance(b)
  /\ UNCHANGED <<keyed, questions, options, cards, refs, crashes, overlap>>

(* A container boots, and the seed with it... *)
Boot(b) ==
  /\ boot[b] = Off
  /\ boot' = [boot EXCEPT ![b].at = "run"]
  /\ overlap' = (overlap \/ \E p \in Boots : boot[p].at # "off")
  /\ UNCHANGED <<rows, crashes>>

(* ...which ends with the count of printValidation; the API serves whatever it says. *)
Serve(b) ==
  /\ boot[b].pc > Len(Program)
  /\ boot' = [boot EXCEPT ![b] = Off]
  /\ UNCHANGED <<rows, crashes, overlap>>

(* The container, a statement or the connection fails. *)
Crash(b) ==
  /\ boot[b].at # "off" /\ crashes < MaxCrashes
  /\ boot' = [boot EXCEPT ![b] = Off]
  /\ crashes' = crashes + 1
  /\ UNCHANGED <<rows, overlap>>

Step(b) ==
  \/ UpsertKey(b) \/ FindQuestion(b) \/ InsertQuestion(b) \/ UpsertOption(b)
  \/ UpsertCard(b) \/ UpsertCite(b) \/ FindLink(b) \/ InsertLink(b) \/ Serve(b)

Next == \E b \in Boots : Boot(b) \/ Step(b) \/ Crash(b)

Spec == Init /\ [][Next]_vars

(* Containers are started again, and a seed that runs goes on. *)
FairSpec == Spec /\ \A b \in Boots : WF_vars(Boot(b)) /\ WF_vars(Step(b))
-----------------------------------------------------------------------------
(* What the files say: the reference the rows are compared with. *)
Statements(do) == {s \in Range(Program) : s.do = do}
Upserts        == Statements("upsert")
QuestionsToBe  == Statements("question")
OptionsToBe    == Statements("option")
CardsToBe      == Statements("card")
CitesToBe      == Statements("cite")
LinksToBe      == Statements("link")
File(text)     == Courses[text[1]].questions[text[2]]
Text(q)        == questions[q].text
Correct(q)     == {o \in options : o[1] = q /\ o[3]}
IsExam(key)    == key[2] = "EXAM"

ExamOrigins    == Cardinality({s.origin : s \in {s \in CardsToBe : IsExam(s.key)}})
EssentialCites == Cardinality({<<s.key[1], s.i>> : s \in {s \in CitesToBe : ~IsExam(s.key)}})

(* printValidation: it counts rows, looks for cards that cite nothing and for questions
   without one correct option, and does not look at how many links there are. *)
Gate ==
  /\ Cardinality(keyed) = Cardinality(Upserts)
  /\ Len(questions) = Cardinality(QuestionsToBe)
  /\ Cardinality(options) = Cardinality(OptionsToBe)
  /\ Cardinality(DOMAIN cards) = Cardinality(CardsToBe)
  /\ \A k \in DOMAIN cards : \E ref \in refs : ref[1] = k
  /\ Cardinality({cards[k] : k \in {k \in DOMAIN cards : IsExam(k)}}) = ExamOrigins
  /\ Cardinality({ref[2] : ref \in {ref \in refs : ~IsExam(ref[1])}}) = EssentialCites
  /\ \A q \in DOMAIN questions : Cardinality(Correct(q)) = 1

LinkPlaces(s) == {l \in DOMAIN links : links[l] = <<s.key, s.ord>>}

Complete ==
  /\ keyed = {s.key : s \in Upserts}
  /\ \A s \in QuestionsToBe :
       \E q \in DOMAIN questions :
         /\ {p \in DOMAIN questions : Text(p) = <<s.course, s.i>>} = {q}
         /\ {o \in options : o[1] = q} = {<<q, n, n = File(Text(q)).correct>> : n \in 1..Options}
  /\ DOMAIN cards = {s.key : s \in CardsToBe}
  /\ \A s \in CitesToBe :
       \E ref \in refs : ref[1] = s.key /\ Text(ref[2]) = <<s.key[1], s.i>>
  /\ \A s \in LinksToBe : LinkPlaces(s) # {}

(* Whatever crashes and overlaps, no row contradicts the files: an option is the correct one
   just where the file of the question's text says so, and the question a card comes from,
   or cites, is the one at that place of the array of its own course (and the rows are of
   their types). *)
RowsMatchFiles ==
  /\ TypeOK
  /\ \A o \in options : o[3] = (o[2] = File(Text(o[1])).correct)
  /\ \A s \in CardsToBe : s.key \in DOMAIN cards =>
       IF s.origin = 0 THEN cards[s.key] = 0
       ELSE cards[s.key] # 0 /\ Text(cards[s.key]) = <<s.key[1], s.origin>>
  /\ \A ref \in refs : \E s \in CitesToBe :
       s.key = ref[1] /\ s.rank = ref[3] /\ Text(ref[2]) = <<s.key[1], s.i>>

(* A seed that passes its count leaves the whole catalogue: what the count does not look at,
   the texts, the correct options and the links, is there too. *)
GateMeansComplete ==
  \A b \in Boots : boot[b].pc > Len(Program) /\ Gate => Complete

(* The contract of entrypoint.sh, "idempotente por contrato": on a whole catalogue a boot
   changes no row; where two have overlapped, provided that neither has an insert left that
   it decided on before. *)
RerunChangesNothing ==
  [][ Complete /\ (overlap => \A b \in Boots : boot[b].at # "insert") => UNCHANGED rows ]_vars

(* However many boots are cut short, and wherever, the catalogue is whole in the end and
   stays so, provided two seeds never run at once. *)
Recovers == <>[]Complete \/ <>overlap
=============================================================================
