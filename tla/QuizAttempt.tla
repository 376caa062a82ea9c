----------------------------- MODULE QuizAttempt -----------------------------
(***************************************************************************)
(* One visit to the page on which a quiz is attempted.  Answers are given, *)
(* and changed, question by question; "Finish" marks the answers of that   *)
(* moment, the open ones by a judge, one after the other, and submits them *)
(* with their points.  The page stays editable all the while, and marking  *)
(* goes on when it is left.  The server adds what was missed to the user's *)
(* mistakes, drops the others if the quiz was the review of the mistakes,  *)
(* and records the attempt.                                                *)
(*                                                                         *)
(* Grain.  Points are counted in halves.  A closed answer is right or      *)
(* wrong, an open one is blank or some text.  Nobody edits the quiz during *)
(* the visit, and no other page of the user attempts one.                  *)
(***************************************************************************)
EXTENDS Naturals, Sequences, FiniteSetsExt

CONSTANTS
  Questions,    \* 1..n, the questions of the quiz
  Open,         \* those a judge marks
  HalfPoints,   \* what each is worth
  Texts,        \* what can be written in answer to an open question
  QuizFaults    \* how many calls of a visit fail or lose their answer

ASSUME QuizAssumption ==
  /\ Questions \subseteq Nat /\ Questions # {} /\ Open \subseteq Questions
  /\ HalfPoints \in [Questions -> Nat \ {0}] /\ QuizFaults \in Nat

VARIABLES
  review,     \* whether the quiz is the review of the user's mistakes
  left,       \* whether the page was left
  idx,        \* the question shown
  answers,    \* what was answered so far
  stage,      \* how far the marking and the submission are
  closure,    \* the answers finish() is working on
  awards,     \* what the judge gave for the open ones so far
  attempts,   \* attempts on the server
  mistakes,   \* ids of the user's mistakes
  judged,     \* what the judge gave for which answer, in the visit
  quizFaults, \* calls that failed or lost their answer
  lostReplies \* how many of those had recorded an attempt

quizVars == <<review, left, idx, answers, stage, closure, awards, attempts, mistakes, judged,
              quizFaults, lostReplies>>
pageVars == <<review, left, idx, answers>>
serverSide == <<attempts, mistakes>>

AnswersTo(q) == IF q \in Open THEN Texts \cup {"blank"} ELSE {"right", "wrong"}
Given == [Questions -> {"none"} \cup UNION {AnswersTo(q) : q \in Questions}]
Stages == {"answering", "grading", "adding", "clearing", "recording", "recorded", "done"}

(***************************************************************************)
(* Marking.                                                                *)
(***************************************************************************)
Unanswered == {"none", "blank"}
closedCorrect(answer) == answer = "right"

(* Half the points, rounded to the next half point.                        *)
applyOpenAward(q, award) == (award * HalfPoints[q] + 1) \div 2

scoreQuestion(q, given, granted) ==
  IF q \in Open
    THEN IF q \in DOMAIN granted THEN applyOpenAward(q, granted[q]) ELSE 0
    ELSE IF closedCorrect(given[q]) THEN HalfPoints[q] ELSE 0

Marks(given, granted) == [q \in Questions |-> scoreQuestion(q, given, granted)]
sumScores(points) == MapThenSumSet(LAMBDA q : points[q], Questions)
Wrong(points) == {q \in Questions : points[q] < HalfPoints[q]}

(* The open questions the judge has yet to see.                            *)
ToJudge == {q \in Open : closure[q] \notin Unanswered /\ q \notin DOMAIN awards}

(* What is submitted.                                                      *)
Submission ==
  LET points == Marks(closure, awards)
  IN  [answers |-> closure, points |-> points, wrong |-> Wrong(points),
       correct |-> sumScores(points), total |-> sumScores(HalfPoints)]

(***************************************************************************)
(* The page.                                                               *)
(***************************************************************************)
QuizInit ==
  /\ review \in BOOLEAN /\ left = FALSE
  /\ idx \in Questions /\ \A q \in Questions : idx <= q
  /\ answers = [q \in Questions |-> "none"] /\ closure = answers
  /\ stage = "answering" /\ awards = <<>>
  /\ attempts = <<>> /\ judged = {} /\ quizFaults = 0 /\ lostReplies = 0
  /\ mistakes = IF review THEN Questions ELSE {}

QuizTypeOK ==
  /\ review \in BOOLEAN /\ left \in BOOLEAN /\ idx \in Questions
  /\ answers \in Given /\ closure \in Given
  /\ stage \in Stages
  /\ DOMAIN awards \subseteq Open /\ \A q \in DOMAIN awards : awards[q] \in 0..2
  /\ mistakes \subseteq Questions
  /\ \A n \in DOMAIN attempts : attempts[n].answers \in Given
  /\ judged \subseteq Open \X Texts \X (0..2)
  /\ quizFaults \in 0..QuizFaults /\ lostReplies \in 0..quizFaults

Shows == ~left /\ stage # "done"

AnswerQuestion(answer) ==
  /\ Shows
  /\ answers' = [answers EXCEPT ![idx] = answer]
  /\ UNCHANGED <<review, left, idx, stage, closure, awards, serverSide, judged, quizFaults, lostReplies>>

ShowQuestion(q) ==
  /\ Shows /\ q \in Questions \ {idx}
  /\ q = idx + 1 \/ idx = q + 1
  /\ idx' = q
  /\ UNCHANGED <<review, left, answers, stage, closure, awards, serverSide, judged, quizFaults, lostReplies>>

LeaveQuiz ==
  /\ ~left
  /\ left' = TRUE
  /\ UNCHANGED <<review, idx, answers, stage, closure, awards, serverSide, judged, quizFaults, lostReplies>>

(***************************************************************************)
(* finish().                                                               *)
(***************************************************************************)
finish ==
  /\ Shows /\ stage = "answering" /\ \A q \in Questions : q <= idx
  /\ stage' = "grading" /\ closure' = answers /\ awards' = <<>>
  /\ UNCHANGED <<pageVars, serverSide, judged, quizFaults, lostReplies>>

(* The first open answer is marked; the judge may change its mind when it  *)
(* is asked again.                                                         *)
JudgeAnswers(award) ==
  /\ stage = "grading"
  /\ \E q \in ToJudge :
         /\ \A p \in ToJudge : q <= p
         /\ awards' = [p \in DOMAIN awards \cup {q} |-> IF p = q THEN award ELSE awards[p]]
         /\ judged' = judged \cup {<<q, closure[q], award>>}
  /\ UNCHANGED <<pageVars, stage, closure, serverSide, quizFaults, lostReplies>>

(* Seeded flaw: what the page shows by now is submitted with the points.   *)
BadSubmitAttempt ==
  /\ stage = "grading" /\ ToJudge = {}
  /\ stage' = "adding" /\ closure' = answers
  /\ UNCHANGED <<pageVars, awards, serverSide, judged, quizFaults, lostReplies>>

SubmitAttempt ==
  /\ stage = "grading" /\ ToJudge = {}
  /\ stage' = "adding"
  /\ UNCHANGED <<pageVars, closure, awards, serverSide, judged, quizFaults, lostReplies>>

Fault ==
  /\ quizFaults < QuizFaults
  /\ quizFaults' = quizFaults + 1

(* A failed judge or a refused attempt: finish() may be called again.      *)
AttemptFails ==
  /\ Fault
  /\ stage \in {"grading", "adding", "recording"}
  /\ stage = "grading" => ToJudge # {}
  /\ stage' = "answering"
  /\ UNCHANGED <<pageVars, closure, awards, serverSide, judged, lostReplies>>

AttemptAnswered ==
  /\ stage = "recorded"
  /\ stage' = "done"
  /\ UNCHANGED <<pageVars, closure, awards, serverSide, judged, quizFaults, lostReplies>>

AttemptUnheard ==
  /\ Fault
  /\ stage = "recorded"
  /\ stage' = "answering" /\ lostReplies' = lostReplies + 1
  /\ UNCHANGED <<pageVars, closure, awards, serverSide, judged>>

(***************************************************************************)
(* The server.  Neither change of the mistakes holds up the attempt.       *)
(***************************************************************************)
AddMistakes ==
  /\ stage = "adding" /\ Submission.correct <= Submission.total
  /\ stage' = IF review THEN "clearing" ELSE "recording"
  /\ mistakes' = mistakes \cup Submission.wrong
  /\ UNCHANGED <<pageVars, closure, awards, attempts, judged, quizFaults, lostReplies>>

ClearMistakesExcept ==
  /\ stage = "clearing"
  /\ stage' = "recording"
  /\ mistakes' = mistakes \cap Submission.wrong
  /\ UNCHANGED <<pageVars, closure, awards, attempts, judged, quizFaults, lostReplies>>

MistakesNotUpdated ==
  /\ Fault
  /\ stage \in {"adding", "clearing"}
  /\ stage' = IF stage = "adding" /\ review THEN "clearing" ELSE "recording"
  /\ UNCHANGED <<pageVars, closure, awards, serverSide, judged, lostReplies>>

CreateAttempt ==
  /\ stage = "recording"
  /\ stage' = "recorded"
  /\ attempts' = Append(attempts, Submission)
  /\ UNCHANGED <<pageVars, closure, awards, mistakes, judged, quizFaults, lostReplies>>

QuizNext ==
  \/ \E answer \in AnswersTo(idx) : AnswerQuestion(answer)
  \/ \E q \in Questions : ShowQuestion(q)
  \/ LeaveQuiz \/ finish
  \/ \E award \in 0..2 : JudgeAnswers(award)
  \/ SubmitAttempt \/ AttemptFails \/ AttemptAnswered \/ AttemptUnheard
  \/ AddMistakes \/ ClearMistakesExcept \/ MistakesNotUpdated \/ CreateAttempt

QuizSpec == QuizInit /\ [][QuizNext]_quizVars

(***************************************************************************)
(* A recorded attempt holds the answers its points were given for, however *)
(* the answers on the page changed while the judge was at work; no visit   *)
(* records two, but for replies that were lost; and where no call failed   *)
(* the user's mistakes, none before another quiz and all of them before a  *)
(* review, are those of the attempt.                                       *)
(***************************************************************************)
PointsFit(attempt) ==
  \A q \in Questions :
    attempt.points[q] \in
      IF q \in Open
        THEN IF attempt.answers[q] \in Unanswered THEN {0}
             ELSE {applyOpenAward(q, award) : award \in {j[3] : j \in {i \in judged : i[1] = q /\ i[2] = attempt.answers[q]}}}
        ELSE {IF attempt.answers[q] = "right" THEN HalfPoints[q] ELSE 0}

AttemptsAsMarked ==
  /\ \A n \in DOMAIN attempts : PointsFit(attempts[n])
  /\ Len(attempts) = lostReplies + IF stage \in {"recorded", "done"} THEN 1 ELSE 0
  /\ stage = "done" /\ quizFaults = 0 => mistakes = Wrong(attempts[1].points)
=============================================================================
