-------------------------------- MODULE MCWeb --------------------------------
(***************************************************************************)
(* The parts of the web client on their small instances.  They share no    *)
(* state, so a behaviour is one of one part, chosen at the start, and the  *)
(* variables of the others keep one of their initial values.               *)
(***************************************************************************)
EXTENDS QueryCache, NotificationFeed, SourceUpload, QuizAttempt, ChatStream, StudyBlock, TLC

VARIABLE part  \* the part of the client that acts

webVars == <<part, cacheVars, feedVars, uploadVars, quizVars, chatVars, studyVars>>

Parts == {"cache", "feed", "upload", "quiz", "chat", "study"}

MCHalfPoints == 1 :> 2 @@ 2 :> 3

WebInit ==
  /\ part \in Parts
  /\ CacheInit /\ FeedInit /\ UploadInit /\ QuizInit /\ ChatInit /\ StudyInit
  /\ part # "cache" => shape = [c \in Calls |-> CHOOSE s \in AllShapes : TRUE]
  /\ part # "feed" => Notified("none") = Notices
  /\ part # "upload" => ~direct
  /\ part # "quiz" => ~review

WebNext ==
  \/ /\ part = "cache" /\ CacheNext
     /\ UNCHANGED <<part, feedVars, uploadVars, quizVars, chatVars, studyVars>>
  \/ /\ part = "feed" /\ FeedNext
     /\ UNCHANGED <<part, cacheVars, uploadVars, quizVars, chatVars, studyVars>>
  \/ /\ part = "upload" /\ UploadNext
     /\ UNCHANGED <<part, cacheVars, feedVars, quizVars, chatVars, studyVars>>
  \/ /\ part = "quiz" /\ QuizNext
     /\ UNCHANGED <<part, cacheVars, feedVars, uploadVars, chatVars, studyVars>>
  \/ /\ part = "chat" /\ ChatNext
     /\ UNCHANGED <<part, cacheVars, feedVars, uploadVars, quizVars, studyVars>>
  \/ /\ part = "study" /\ StudyNext
     /\ UNCHANGED <<part, cacheVars, feedVars, uploadVars, quizVars, chatVars>>

WebSpec == WebInit /\ [][WebNext]_webVars /\ (part = "feed" => FeedFairness)

(* Every part keeps to the types of its state.                             *)
WebTypeOK == CacheTypeOK /\ FeedTypeOK /\ UploadTypeOK /\ QuizTypeOK /\ ChatTypeOK /\ StudyTypeOK

(* The bell shows in the end what the server has, in every behaviour of it *)
(* (FeedSettles, of the part that is the bell).                            *)
BellSettles == part = "feed" => FeedSettles
=============================================================================
