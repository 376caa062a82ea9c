---------------------------- MODULE SourceUpload ----------------------------
(***************************************************************************)
(* The upload tab of the "add source" dialog: files are listed, uploaded   *)
(* as one batch by a few workers, retried when the server asks for it, and *)
(* what failed stays listed for another try.  A file goes to the object    *)
(* store between a reservation and its completion, or, in a build without  *)
(* that, to the server in one request.                                     *)
(*                                                                         *)
(* Grain.  Files are numbers, in the order of the list, and each is picked *)
(* once.  Their chapters and parse modes are left out.  While a batch is   *)
(* under way its dialog covers the list, and only leaving the page is      *)
(* possible.                                                               *)
(***************************************************************************)
EXTENDS Naturals, FiniteSets

CONSTANTS
  Sources,         \* the files the user may pick
  UploadCap,       \* MAX_SOURCE_UPLOAD_FILES, or the room of the workspace
  UploadWorkers,   \* SOURCE_UPLOAD_CONCURRENCY
  UploadAttempts,  \* how often withUploadRetry calls
  UploadFaults     \* no answer is lost once one file lost so many

ASSUME UploadAssumption ==
  /\ Sources \subseteq Nat /\ IsFiniteSet(Sources) /\ UploadCap \in Nat
  /\ UploadWorkers \in Nat \ {0} /\ UploadAttempts \in Nat \ {0} /\ UploadFaults \in Nat

Active == {"reserving", "putting", "completing", "posting", "created", "waiting"}
Settled == {"none", "done", "failed"}

VARIABLES
  direct,      \* USE_DIRECT_B2_UPLOAD
  mounted,     \* whether the dialog is there
  picked,      \* files picked so far
  listed,      \* files in the list
  batch,       \* files of the last batch
  submitting,  \* isSubmitting
  task,        \* where the upload of each file is
  tries,       \* calls of its upload that were put off
  aborted,     \* files whose controller was aborted
  created,     \* rows the server has for each file
  unheard      \* answers about them that never arrived

uploadVars == <<direct, mounted, picked, listed, batch, submitting, task, tries, aborted,
                created, unheard>>
listVars == <<direct, mounted, picked, listed, batch, submitting>>

UploadTypeOK ==
  /\ direct \in BOOLEAN /\ mounted \in BOOLEAN /\ submitting \in BOOLEAN
  /\ listed \subseteq picked /\ picked \subseteq Sources
  /\ batch \subseteq Sources /\ aborted \subseteq Sources
  /\ task \in [Sources -> Active \cup Settled \cup {"queued"}]
  /\ tries \in [Sources -> 0..(UploadAttempts - 1)]
  /\ created \in [Sources -> Nat] /\ unheard \in [Sources -> 0..(UploadFaults + 1)]

Everywhere(x) == [f \in Sources |-> x]

UploadInit ==
  /\ direct \in BOOLEAN /\ mounted = TRUE /\ submitting = FALSE
  /\ picked = {} /\ listed = {} /\ batch = {} /\ aborted = {}
  /\ task = Everywhere("none") /\ tries = Everywhere(0)
  /\ created = Everywhere(0) /\ unheard = Everywhere(0)

(***************************************************************************)
(* The list.                                                               *)
(***************************************************************************)
(* The first of the files, up to what the cap leaves.                      *)
capSourceUploads(existing, incoming) ==
  {f \in incoming : existing + Cardinality({g \in incoming : g < f}) < UploadCap}

Uploads(state) == {f \in Sources : task[f] = state}
Count(yes) == IF yes THEN 1 ELSE 0

Idle == mounted /\ ~submitting

Pick(files) ==
  /\ Idle /\ files # {} /\ files \cap picked = {}
  /\ picked' = picked \cup files
  /\ listed' = listed \cup capSourceUploads(Cardinality(listed), files)
  /\ UNCHANGED <<direct, mounted, batch, submitting, task, tries, aborted, created, unheard>>

Unlist(f) ==
  /\ Idle /\ f \in listed
  /\ listed' = listed \ {f}
  /\ UNCHANGED <<direct, mounted, picked, batch, submitting, task, tries, aborted, created, unheard>>

Submit ==
  /\ Idle /\ listed # {}
  /\ submitting' = TRUE /\ batch' = listed
  /\ task' = [f \in Sources |-> IF f \in listed THEN "queued" ELSE task[f]]
  /\ tries' = Everywhere(0)
  /\ UNCHANGED <<direct, mounted, picked, listed, aborted, created, unheard>>

(* Seeded flaw: after a failure the files that were uploaded stay listed.  *)
BadFinish ==
  /\ submitting /\ \A f \in batch : task[f] \in Settled
  /\ submitting' = FALSE
  /\ LET failed == {f \in batch : task[f] = "failed"}
     IN  /\ listed' = IF failed = {} THEN {} ELSE listed
         /\ mounted' = (mounted /\ failed # {})
  /\ UNCHANGED <<direct, picked, batch, task, tries, aborted, created, unheard>>

(* Success closes the dialog; after a failure the others stay listed.      *)
Finish ==
  /\ submitting /\ \A f \in batch : task[f] \in Settled
  /\ submitting' = FALSE
  /\ LET failed == {f \in batch : task[f] = "failed"}
     IN  /\ listed' = IF failed = {} THEN {} ELSE listed \ (batch \ failed)
         /\ mounted' = (mounted /\ failed # {})
  /\ UNCHANGED <<direct, picked, batch, task, tries, aborted, created, unheard>>

(* The uploads under way are aborted, and those that heed it fail: bytes   *)
(* on their way to the object store, or a request with the bytes, which    *)
(* the server may have taken.  Queued files are started all the same.      *)
Leave ==
  /\ mounted
  /\ mounted' = FALSE
  /\ aborted' = aborted \cup {f \in Sources : task[f] \in Active}
  /\ \E taken \in SUBSET Uploads("posting") :
       LET heeding == Uploads("putting") \cup Uploads("posting") \cup IF direct THEN {} ELSE Uploads("created")
           lost == taken \cup (heeding \cap Uploads("created"))
       IN  /\ task' = [f \in Sources |-> IF f \in heeding THEN "failed" ELSE task[f]]
           /\ created' = [f \in Sources |-> created[f] + Count(f \in taken)]
           /\ unheard' = [f \in Sources |-> unheard[f] + Count(f \in lost)]
  /\ UNCHANGED <<direct, picked, listed, batch, submitting, tries>>

(***************************************************************************)
(* One upload.                                                             *)
(***************************************************************************)
Goes(f, from, to) ==
  /\ task[f] \in from
  /\ task' = [task EXCEPT ![f] = to]

Working == {f \in Sources : task[f] \in Active}
FirstCall == IF direct THEN "reserving" ELSE "posting"

(* A worker takes the next file of the batch, under a new controller.      *)
Start(f) ==
  /\ Cardinality(Working) < UploadWorkers
  /\ \A g \in Sources : task[g] = "queued" => f <= g
  /\ Goes(f, {"queued"}, FirstCall)
  /\ aborted' = aborted \ {f}
  /\ UNCHANGED <<listVars, tries, created, unheard>>

(* The bytes are sent unless the controller was aborted meanwhile.         *)
Reserved(f) ==
  /\ Goes(f, {"reserving"}, IF f \in aborted THEN "failed" ELSE "putting")
  /\ UNCHANGED <<listVars, tries, aborted, created, unheard>>

Put(f) ==
  /\ Goes(f, {"putting"}, "completing")
  /\ UNCHANGED <<listVars, tries, aborted, created, unheard>>

Create(f) ==
  /\ Goes(f, {"completing", "posting"}, "created")
  /\ created' = [created EXCEPT ![f] = @ + 1]
  /\ UNCHANGED <<listVars, tries, aborted, unheard>>

Uploaded(f) ==
  /\ Goes(f, {"created"}, "done")
  /\ UNCHANGED <<listVars, tries, aborted, created, unheard>>

Unheard(f) ==
  /\ \A g \in Sources : unheard[g] < UploadFaults
  /\ unheard' = [unheard EXCEPT ![f] = @ + 1]
  /\ Goes(f, {"created"}, "failed")
  /\ UNCHANGED <<listVars, tries, aborted, created>>

Rejected(f) ==
  /\ Goes(f, {"reserving", "putting", "completing", "posting"}, "failed")
  /\ UNCHANGED <<listVars, tries, aborted, created, unheard>>

(* Seeded flaw: one call too many.                                         *)
BadPutOff(f) ==
  /\ IF tries[f] < UploadAttempts
       THEN /\ Goes(f, {"reserving", "completing", "posting"}, "waiting")
            /\ tries' = [tries EXCEPT ![f] = @ + 1]
       ELSE /\ Goes(f, {"reserving", "completing", "posting"}, "failed")
            /\ UNCHANGED tries
  /\ UNCHANGED <<listVars, aborted, created, unheard>>

(* 429: the whole upload is called again, from a new reservation on.       *)
PutOff(f) ==
  /\ IF tries[f] + 1 < UploadAttempts
       THEN /\ Goes(f, {"reserving", "completing", "posting"}, "waiting")
            /\ tries' = [tries EXCEPT ![f] = @ + 1]
       ELSE /\ Goes(f, {"reserving", "completing", "posting"}, "failed")
            /\ UNCHANGED tries
  /\ UNCHANGED <<listVars, aborted, created, unheard>>

(* A request with the bytes fails at once when its controller is aborted.  *)
CallAgain(f) ==
  /\ Goes(f, {"waiting"}, IF ~direct /\ f \in aborted THEN "failed" ELSE FirstCall)
  /\ UNCHANGED <<listVars, tries, aborted, created, unheard>>

UploadNext ==
  \/ \E files \in SUBSET Sources : Pick(files)
  \/ Submit \/ Finish \/ Leave
  \/ \E f \in Sources :
       \/ Unlist(f) \/ Start(f) \/ Reserved(f) \/ Put(f) \/ Create(f) \/ Uploaded(f)
       \/ Unheard(f) \/ Rejected(f) \/ PutOff(f) \/ CallAgain(f)

UploadSpec == UploadInit /\ [][UploadNext]_uploadVars

(***************************************************************************)
(* No file becomes two rows, but for answers that were lost: an upload     *)
(* reported as done made one row, one that failed made none, and what is   *)
(* listed for another try was not uploaded.  At no time are more workers   *)
(* at it, or more files of a batch, than the limits say.                   *)
(***************************************************************************)
UploadsOnce ==
  /\ \A f \in Sources :
       /\ task[f] = "done" => created[f] = 1 + unheard[f]
       /\ task[f] \in {"none", "queued", "failed"} => created[f] = unheard[f]
       /\ Idle /\ f \in listed => created[f] = unheard[f]
  /\ Cardinality(Working) <= UploadWorkers /\ Cardinality(listed) <= UploadCap
=============================================================================
