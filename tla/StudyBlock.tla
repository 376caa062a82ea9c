------------------------------ MODULE StudyBlock ------------------------------
(***************************************************************************)
(* A quiz kept as a block of a note.  The block is a tree of elements that *)
(* are typed into, duplicated and deleted in place, by its author and by   *)
(* collaborators; its "Edit" button turns it into questions for a form and *)
(* saving the form turns them back into elements.  The elements name the   *)
(* right options by id, the form by index, and every conversion, removal   *)
(* and duplication has to carry the answer key over.                       *)
(*                                                                         *)
(* Grain.  Prompts, explanations, levels and points are left out.  "mcq"   *)
(* and "multi" stand for themselves; "ordering" keeps its items in the     *)
(* options; "short" stands for every type whose answers are kept beside    *)
(* the options that show them (short, open, matching).  An option carries, *)
(* beside the code's fields, whether its author last marked it right.      *)
(***************************************************************************)
EXTENDS Naturals, SequencesExt

CONSTANTS
  StudyTexts,     \* what can be typed into an option
  MaxItems,       \* options of a question, at most
  MaxQuestions,   \* questions of a block, at most
  StudyEdits      \* steps taken on the block and in the form

(* A question starts with two options, one of them with some text.         *)
ASSUME StudyAssumption ==
  /\ MaxItems \in Nat /\ MaxItems >= 2 /\ StudyTexts # {}
  /\ MaxQuestions \in Nat \ {0} /\ StudyEdits \in Nat

VARIABLES
  block,    \* the question elements of the block; <<>> once it is removed
  form,     \* the questions in the open dialog
  dialog,   \* "closed", "open", or "stale" once the element it was opened on is not in the note
  minted,   \* ids handed out
  edits

studyVars == <<block, form, dialog, minted, edits>>

Blank == "blank"
Values == StudyTexts \cup {Blank}
Choice == {"mcq", "multi"}
Types == Choice \cup {"boolean", "short", "ordering"}

(***************************************************************************)
(* Questions and elements.                                                 *)
(***************************************************************************)
Item(value, right) == [value |-> value, right |-> right]
BlankItems == <<Item(Blank, FALSE), Item(Blank, FALSE)>>

createBlankQuestion(id, type) ==
  [id |-> id, type |-> type, correct |-> {}, truth |-> TRUE,
   items |-> CASE type = "boolean" -> <<>>
               [] type = "short"   -> <<Item(Blank, FALSE)>>
               [] OTHER            -> BlankItems]

isCompleteQuestion(q) ==
  /\ \A i \in DOMAIN q.items : q.items[i].value # Blank
  /\ q.type \in Choice \cup {"ordering"} => Len(q.items) >= 2
  /\ q.type = "short" => q.items # <<>>
  /\ q.type \in Choice => q.correct # {} /\ q.correct \subseteq DOMAIN q.items
  /\ q.type = "mcq" => \A i, j \in q.correct : i = j

optionId(id, i) == <<"option", id, i>>

(* The element of a question; a boolean one shows two options.             *)
quizQuestionNode(q) ==
  LET shown == IF q.type = "boolean" THEN <<Item("True", q.truth), Item("False", ~q.truth)>>
                                     ELSE q.items
      right == IF q.type = "boolean" THEN {IF q.truth THEN 1 ELSE 2} ELSE q.correct
  IN  [id |-> q.id, type |-> q.type, truth |-> q.truth,
       options |-> [i \in DOMAIN shown |-> [id |-> optionId(q.id, i), value |-> shown[i].value,
                                            right |-> shown[i].right]],
       correctOptionIds |-> {optionId(q.id, i) : i \in right},
       kept |-> IF q.type = "short" THEN q.items ELSE <<>>]

(* The question of an element: the key's ids are looked up in the options. *)
quizQuestionElementToQuestion(e) ==
  [id |-> e.id, type |-> e.type, truth |-> e.truth,
   items |-> CASE e.type = "boolean" -> <<>>
               [] e.type = "short"   -> e.kept
               [] OTHER -> [i \in DOMAIN e.options |-> Item(e.options[i].value, e.options[i].right)],
   correct |-> IF e.type \in Choice
                 THEN {i \in DOMAIN e.options : e.options[i].id \in e.correctOptionIds} ELSE {}]

(* A copy with fresh ids everywhere, its key moved to the copies' ids.     *)
cloneStudyItem(e, id) ==
  LET fresh(i) == <<"block", id, i>>
  IN  [e EXCEPT !.id = id,
                !.options = [i \in DOMAIN e.options |-> [e.options[i] EXCEPT !.id = fresh(i)]],
                !.correctOptionIds = {fresh(i) : i \in {j \in DOMAIN e.options :
                                                          e.options[j].id \in e.correctOptionIds}}]

(***************************************************************************)
(* The state.                                                              *)
(***************************************************************************)
ItemSet == [value : Values \cup {"True", "False"}, right : BOOLEAN]
Ids == 1..minted
OptionIds == {"option", "block"} \X Ids \X (1..MaxItems)
Question == [id : Ids, type : Types, truth : BOOLEAN, items : Seq(ItemSet), correct : SUBSET (1..MaxItems)]
Element == [id : Ids, type : Types, truth : BOOLEAN, kept : Seq(ItemSet), correctOptionIds : SUBSET OptionIds,
            options : Seq([id : OptionIds, value : Values \cup {"True", "False"}, right : BOOLEAN])]

StudyTypeOK ==
  /\ minted \in Nat /\ edits \in 0..StudyEdits
  /\ dialog \in {"closed", "open", "stale"}
  /\ block \in Seq(Element) /\ form \in Seq(Question)
  /\ dialog = "closed" => form = <<>>

StudyInit ==
  /\ block = <<quizQuestionNode([id |-> 1, type |-> "mcq", truth |-> TRUE, correct |-> {2},
                                 items |-> [i \in 1..2 |-> Item(CHOOSE t \in StudyTexts : TRUE, i = 2)]])>>
  /\ form = <<>> /\ dialog = "closed" /\ minted = 1 /\ edits = 0

Edit == edits < StudyEdits /\ edits' = edits + 1
Outdated == IF dialog = "closed" THEN dialog ELSE "stale"

(***************************************************************************)
(* In the note.                                                            *)
(***************************************************************************)
(* Text typed into an option; the accepted answers kept beside the options *)
(* do not follow.                                                          *)
TypeOption(i, j, v) ==
  /\ Edit /\ j \in DOMAIN block[i].options /\ block[i].options[j].value # v
  /\ block' = [block EXCEPT ![i].options[j].value = v]
  /\ dialog' = Outdated
  /\ UNCHANGED <<form, minted>>

Duplicate(i) ==
  /\ Edit /\ Len(block) < MaxQuestions
  /\ minted' = minted + 1
  /\ block' = InsertAt(block, i + 1, cloneStudyItem(block[i], minted'))
  /\ dialog' = Outdated
  /\ UNCHANGED form

(* The block goes with its last question.                                  *)
Delete(i) ==
  /\ Edit
  /\ block' = RemoveAt(block, i)
  /\ dialog' = Outdated
  /\ UNCHANGED <<form, minted>>

openQuiz ==
  /\ Edit /\ dialog = "closed" /\ block # <<>>
  /\ dialog' = "open"
  /\ form' = [i \in DOMAIN block |-> quizQuestionElementToQuestion(block[i])]
  /\ UNCHANGED <<block, minted>>

Close == dialog # "closed" /\ dialog' = "closed" /\ form' = <<>> /\ UNCHANGED <<minted, edits>>
Cancel == Close /\ UNCHANGED block

(* Only complete questions can be saved.  The element the dialog was       *)
(* opened on is looked up by identity: once it changed, the editor may no  *)
(* longer find it, and then nothing is saved.                              *)
Save ==
  /\ form # <<>> /\ \A i \in DOMAIN form : isCompleteQuestion(form[i])
  /\ \/ block' = [i \in DOMAIN form |-> quizQuestionNode(form[i])]
     \/ dialog = "stale" /\ UNCHANGED block
  /\ Close

(***************************************************************************)
(* In the form.                                                            *)
(***************************************************************************)
FormEdit == Edit /\ dialog # "closed" /\ UNCHANGED <<block, dialog>>
update(i, q) == form' = [form EXCEPT ![i] = q] /\ UNCHANGED minted

(* Checking an option of a single choice unchecks the others.              *)
Mark(i, j) ==
  LET q == form[i]
      only == q.type = "mcq"
  IN  /\ FormEdit /\ q.type \in Choice /\ j \in DOMAIN q.items \ q.correct
      /\ update(i, [q EXCEPT !.correct = IF only THEN {j} ELSE @ \cup {j},
                             !.items = [k \in DOMAIN @ |->
                               IF k = j \/ only THEN [@[k] EXCEPT !.right = k = j] ELSE @[k]]])

Unmark(i, j) ==
  LET q == form[i]
  IN  /\ FormEdit /\ q.type \in Choice /\ j \in q.correct
      /\ update(i, [q EXCEPT !.correct = IF q.type = "mcq" THEN {} ELSE @ \ {j},
                             !.items = [@ EXCEPT ![j].right = FALSE]])

SetItem(i, j, v) ==
  LET q == form[i]
  IN  /\ FormEdit /\ q.type \in Choice \cup {"ordering"}
      /\ j \in DOMAIN q.items /\ q.items[j].value # v
      /\ update(i, [q EXCEPT !.items[j].value = v])

AddItem(i) ==
  LET q == form[i]
  IN  /\ FormEdit /\ q.type \in Choice \cup {"ordering"} /\ Len(q.items) < MaxItems
      /\ update(i, [q EXCEPT !.items = Append(@, Item(Blank, FALSE))])

(* Seeded flaw: the indices behind the removed option stay.                *)
BadRemoveOption(q, j) == [q EXCEPT !.items = RemoveAt(@, j), !.correct = @ \ {j}]

(* The indices of the right options behind the removed one move up.        *)
removeOption(q, j) ==
  [q EXCEPT !.items = RemoveAt(@, j),
            !.correct = {IF k > j THEN k - 1 ELSE k : k \in @ \ {j}}]

RemoveItem(i, j) ==
  LET q == form[i]
  IN  /\ FormEdit /\ q.type \in Choice \cup {"ordering"}
      /\ Len(q.items) > 2 /\ j \in DOMAIN q.items
      /\ update(i, removeOption(q, j))

(* The accepted answers are retyped as a whole, set apart by commas.       *)
SetAccepted(i, accepted) ==
  /\ FormEdit /\ form[i].type = "short"
  /\ update(i, [form[i] EXCEPT !.items = [k \in DOMAIN accepted |-> Item(accepted[k], FALSE)]])

SetTruth(i, b) ==
  /\ FormEdit /\ form[i].type = "boolean"
  /\ update(i, [form[i] EXCEPT !.truth = b])

(* What was entered for another type is gone.                              *)
changeType(i, type) ==
  /\ FormEdit /\ form[i].type # type
  /\ update(i, createBlankQuestion(form[i].id, type))

addQuestion ==
  /\ FormEdit /\ Len(form) < MaxQuestions
  /\ minted' = minted + 1
  /\ form' = Append(form, createBlankQuestion(minted', "mcq"))

removeQuestion(i) == FormEdit /\ form' = RemoveAt(form, i) /\ UNCHANGED minted

StudyNext ==
  \/ \E i \in DOMAIN block :
       \/ \E j \in 1..MaxItems, v \in Values : TypeOption(i, j, v)
       \/ Duplicate(i) \/ Delete(i)
  \/ openQuiz \/ Cancel \/ Save \/ addQuestion
  \/ \E i \in DOMAIN form :
       \/ \E j \in 1..MaxItems : Mark(i, j) \/ Unmark(i, j) \/ RemoveItem(i, j)
       \/ \E j \in 1..MaxItems, v \in Values : SetItem(i, j, v)
       \/ \E n \in 1..2 : \E accepted \in [1..n -> Values] : SetAccepted(i, accepted)
       \/ \E b \in BOOLEAN : SetTruth(i, b)
       \/ \E type \in Types : changeType(i, type)
       \/ AddItem(i) \/ removeQuestion(i)

(***************************************************************************)
(* Correctness.                                                            *)
(***************************************************************************)
Distinct(s) == \A i, j \in DOMAIN s : s[i].id = s[j].id => i = j

DistinctOptions ==
  \A i, k \in DOMAIN block : \A j \in DOMAIN block[i].options, l \in DOMAIN block[k].options :
    block[i].options[j].id = block[k].options[l].id => i = k /\ j = l

(* The key of each question in the note is what its author last marked,    *)
(* and never empty or, for a single choice, more than one option, whatever *)
(* was duplicated, typed, removed, reopened and saved since; so it is in   *)
(* the form, and no two questions or options share an id (quiz form,       *)
(* document conversion and cloneStudyItem).                                *)
KeyKept ==
  /\ Distinct(block) /\ DistinctOptions /\ Distinct(form)
  /\ \A i \in DOMAIN block : LET e == block[i] IN
       e.type \in Choice \cup {"boolean"} =>
         /\ e.correctOptionIds = {e.options[j].id : j \in {k \in DOMAIN e.options : e.options[k].right}}
         /\ e.correctOptionIds # {}
         /\ e.type = "mcq" => \A a, b \in e.correctOptionIds : a = b
  /\ \A i \in DOMAIN form : form[i].type \in Choice =>
       form[i].correct = {j \in DOMAIN form[i].items : form[i].items[j].right}
=============================================================================
