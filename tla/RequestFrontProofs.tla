------------------------ MODULE RequestFrontProofs ------------------------
(***************************************************************************)
(* Theorems about RequestFront, for any principals, requests, contents,    *)
(* limits, moves of the tasks and restarts.                                *)
(***************************************************************************)
EXTENDS RequestFront, SequenceTheorems, TLAPS



-----------------------------------------------------------------------------
(* The columns *)

Codes == {0, 200, 401, 403, 404, 409, 413, 426, 500}

JobRow == [key : {r.key : r \in Requests}, owner : {PrincipalFor(r.token).name : r \in Requests},
           by : Nat]
FileRow == [content : Contents, by : Nat]

Columns ==
  /\ req \in Seq(Requests) /\ Len(req) =< MaxRequests
  /\ pc \in [Sent -> Steps]
  /\ status \in [Sent -> Codes]
  /\ reply \in [Sent -> Nat]
  /\ temps \in [Sent -> Nat]
  /\ jobs \in Seq(JobRow) /\ files \in Seq(FileRow)
  /\ blobs \in [Contents -> Nat]
  /\ links \in [Tasks -> {0} \cup DOMAIN files]
  /\ holder \in [Tasks -> Workers \cup {NoWorker}]
  /\ moves \in 0..MaxMoves /\ crashes \in 0..MaxCrashes

LEMMA SentType ==
  ASSUME Columns
  PROVE  /\ Sent = 1..Len(req) /\ Len(req) \in Nat
         /\ \A n \in Sent : req[n] \in Requests /\ ContentOf(n) \in Contents
         /\ DOMAIN jobs = 1..Len(jobs) /\ Len(jobs) \in Nat
         /\ DOMAIN files = 1..Len(files) /\ Len(files) \in Nat
         /\ \A j \in DOMAIN jobs : jobs[j] \in JobRow
         /\ \A i \in DOMAIN files : files[i] \in FileRow
BY FrontAssumption DEF Columns, Sent, ContentOf

\* A refusal is one of these statuses.
LEMMA AdmissionType ==
  \A r \in Requests : Admission(r) \in {200, 401, 403, 404, 409, 413, 426}
<1> TAKE r \in Requests
<1>1. Guard(r) \in {413, 426, 200}
  BY DEF Guard
<1>2. CheckRight(r.token, RightFor[r.kind]) \in {401, 403, 200}
  BY DEF CheckRight
<1>3. RequireTaskWorker(r.task, PrincipalFor(r.token).name) \in {404, 409, 403, 200}
  BY DEF RequireTaskWorker
<1> QED
  BY <1>1, <1>2, <1>3 DEF Admission

\* A submission has no task that could be missing or without a worker.
LEMMA SubmissionType ==
  \A r \in Requests : r.kind = "submit" => Admission(r) \in {200, 401, 403, 413, 426}
<1> SUFFICES ASSUME NEW r \in Requests, r.kind = "submit"
             PROVE  Admission(r) \in {200, 401, 403, 413, 426}
  OBVIOUS
<1>1. Guard(r) \in {413, 426, 200}
  BY DEF Guard
<1>2. CheckRight(r.token, RightFor[r.kind]) \in {401, 403, 200}
  BY DEF CheckRight
<1> QED
  BY <1>1, <1>2 DEF Admission

LEMMA FirstStepType ==
  \A r \in Requests : FirstStep(r) \in {"find", "insert", "write", "lookup"}
BY DEF FirstStep

\* What a new request adds to the columns.
LEMMA Received ==
  ASSUME Columns, NEW r \in Requests, Receive(r)
  PROVE  LET n == Len(req) + 1
             s == Admission(r)
         IN  /\ Sent' = Sent \cup {n} /\ n \notin Sent
             /\ req' \in Seq(Requests) /\ Len(req') =< MaxRequests
             /\ \A m \in Sent : /\ req'[m] = req[m] /\ pc'[m] = pc[m] /\ status'[m] = status[m]
                                /\ reply'[m] = reply[m] /\ temps'[m] = temps[m]
             /\ req'[n] = r /\ reply'[n] = 0
             /\ pc'[n] = IF s = 200 THEN FirstStep(r) ELSE "answered"
             /\ status'[n] = IF s = 200 THEN 0 ELSE s
             /\ temps'[n] = IF s = 200 /\ FirstStep(r) = "write" THEN 1 ELSE 0
             /\ pc' \in [Sent' -> Steps] /\ status' \in [Sent' -> Codes]
             /\ reply' \in [Sent' -> Nat] /\ temps' \in [Sent' -> Nat]
<1>0. Admission(r) \in {200, 401, 403, 404, 409, 413, 426}
  BY AdmissionType
<1> DEFINE k == Len(req)
           s == Admission(r)
<1>1. Sent = 1..k /\ k \in Nat
  BY SentType
<1>2. /\ req' \in Seq(Requests) /\ Len(req') = k + 1 /\ req'[k + 1] = r
      /\ \A m \in Sent : req'[m] = req[m]
  BY <1>1 DEF Receive, Columns
<1>3. Sent' = 1..(k + 1) /\ Sent' = Sent \cup {k + 1} /\ k + 1 \notin Sent
  <2>1. Sent' = 1..(k + 1)
    BY <1>1, <1>2 DEF Sent
  <2> QED
    BY <1>1, <2>1
<1>4. Len(req') =< MaxRequests
  BY <1>1, <1>2, FrontAssumption DEF Receive
<1>5. /\ pc' \in [1..(k + 1) -> Steps]
      /\ pc'[k + 1] = IF s = 200 THEN FirstStep(r) ELSE "answered"
      /\ \A m \in 1..k : pc'[m] = pc[m]
  <2> DEFINE x == IF s = 200 THEN FirstStep(r) ELSE "answered"
  <2>1. x \in Steps
    BY FirstStepType DEF Steps
  <2>2. pc' = Append(pc, x) /\ pc \in [1..k -> Steps]
    BY <1>1 DEF Receive, Columns
  <2> HIDE DEF x, k
  <2>3. pc \in Seq(Steps) /\ Len(pc) = k
    BY <1>1, <2>2
  <2>4. /\ pc' \in Seq(Steps) /\ Len(pc') = k + 1 /\ pc'[k + 1] = x
        /\ \A m \in 1..k : pc'[m] = pc[m]
    BY <1>1, <2>1, <2>2, <2>3
  <2> QED
    BY <2>4, LenProperties DEF x
<1>6. /\ status' \in [1..(k + 1) -> Codes]
      /\ status'[k + 1] = IF s = 200 THEN 0 ELSE s
      /\ \A m \in 1..k : status'[m] = status[m]
  <2> DEFINE x == IF s = 200 THEN 0 ELSE s
  <2>1. x \in Codes
    BY <1>0 DEF Codes
  <2>2. status' = Append(status, x) /\ status \in [1..k -> Codes]
    BY <1>1 DEF Receive, Columns
  <2> HIDE DEF x, k
  <2>3. status \in Seq(Codes) /\ Len(status) = k
    BY <1>1, <2>2
  <2>4. /\ status' \in Seq(Codes) /\ Len(status') = k + 1 /\ status'[k + 1] = x
        /\ \A m \in 1..k : status'[m] = status[m]
    BY <1>1, <2>1, <2>2, <2>3
  <2> QED
    BY <2>4, LenProperties DEF x
<1>7. /\ reply' \in [1..(k + 1) -> Nat]
      /\ reply'[k + 1] = 0
      /\ \A m \in 1..k : reply'[m] = reply[m]
  <2> DEFINE x == 0
  <2>1. x \in Nat
    OBVIOUS
  <2>2. reply' = Append(reply, x) /\ reply \in [1..k -> Nat]
    BY <1>1 DEF Receive, Columns
  <2> HIDE DEF x, k
  <2>3. reply \in Seq(Nat) /\ Len(reply) = k
    BY <1>1, <2>2
  <2>4. /\ reply' \in Seq(Nat) /\ Len(reply') = k + 1 /\ reply'[k + 1] = x
        /\ \A m \in 1..k : reply'[m] = reply[m]
    BY <1>1, <2>1, <2>2, <2>3
  <2> QED
    BY <2>4, LenProperties DEF x
<1>8. /\ temps' \in [1..(k + 1) -> Nat]
      /\ temps'[k + 1] = IF s = 200 /\ FirstStep(r) = "write" THEN 1 ELSE 0
      /\ \A m \in 1..k : temps'[m] = temps[m]
  <2> DEFINE x == IF s = 200 /\ FirstStep(r) = "write" THEN 1 ELSE 0
  <2>1. x \in Nat
    OBVIOUS
  <2>2. temps' = Append(temps, x) /\ temps \in [1..k -> Nat]
    BY <1>1 DEF Receive, Columns
  <2> HIDE DEF x, k
  <2>3. temps \in Seq(Nat) /\ Len(temps) = k
    BY <1>1, <2>2
  <2>4. /\ temps' \in Seq(Nat) /\ Len(temps') = k + 1 /\ temps'[k + 1] = x
        /\ \A m \in 1..k : temps'[m] = temps[m]
    BY <1>1, <2>1, <2>2, <2>3
  <2> QED
    BY <2>4, LenProperties DEF x
<1> QED
  BY <1>1, <1>2, <1>3, <1>4, <1>5, <1>6, <1>7, <1>8

-----------------------------------------------------------------------------
(* The steps                                                               *)

\* One case for each action, to be cited where a fact is shown to be kept.
LEMMA NextCases ==
  ASSUME [FrontNext]_frontVars
  PROVE  \/ \E r \in Requests : Receive(r)
         \/ \E n \in Sent : FindByKey(n)
         \/ \E n \in Sent : InsertJob(n)
         \/ \E n \in Sent : FindAgain(n)
         \/ \E n \in Sent : WriteChunk(n)
         \/ \E n \in Sent : CheckPlace(n)
         \/ \E n \in Sent : DropTemp(n)
         \/ \E n \in Sent : MoveTemp(n)
         \/ \E n \in Sent : AddArtifact(n)
         \/ \E n \in Sent : LinkArtifact(n)
         \/ \E n \in Sent : Download(n)
         \/ \E t \in Tasks, w \in Workers \cup {NoWorker} : Move(t, w)
         \/ Crash
         \/ UNCHANGED frontVars
BY DEF FrontNext, SubmitStep, UploadStep, PutStream

\* A submission is answered with a job of its key.
LEMMA FoundIsAJob ==
  ASSUME Columns, NEW found, found \subseteq DOMAIN jobs, found # {},
         \A i, j \in found : i = j
  PROVE  Max(found) \in found /\ Max(found) \in Nat
<1>1. found \subseteq Nat
  BY SentType
<1>2. PICK j \in found : TRUE
  OBVIOUS
<1>3. \A i \in found : i =< j
  BY <1>1, <1>2
<1> QED
  BY <1>1, <1>2, <1>3 DEF Max

\* The key of a job names no other.
UniqueKeys ==
  \A i, j \in DOMAIN jobs : jobs[i].key = jobs[j].key /\ jobs[i].key # NoKey => i = j

LEMMA FoundByKey ==
  ASSUME Columns, UniqueKeys, NEW key, JobsWithKey(key) # {}
  PROVE  Max(JobsWithKey(key)) \in JobsWithKey(key) /\ Max(JobsWithKey(key)) \in Nat
<1>1. JobsWithKey(key) \subseteq DOMAIN jobs /\ \A i, j \in JobsWithKey(key) : i = j
  BY DEF JobsWithKey, UniqueKeys
<1> QED
  BY <1>1, FoundIsAJob

-----------------------------------------------------------------------------
(* The inductive invariant                                                 *)

\* What a handler has left to do tells the request, its status and its file.
StageOf(n) ==
  /\ status[n] = 0 <=> pc[n] # "answered"
  /\ req[n].kind = "submit"
       => pc[n] \in {"find", "insert", "refind", "answered", "killed"}
  /\ pc[n] \in {"find", "insert", "refind"} => req[n].kind = "submit"
  /\ pc[n] \in {"find", "refind"} => req[n].key # NoKey
  /\ pc[n] = "link" => req[n].kind = "output"
  /\ temps[n] > 0 => pc[n] \in {"write", "place", "drop", "move", "killed"}

Stages == \A n \in Sent : StageOf(n)

\* One that finds its key taken, or is answered, has a job of its key.
KeyOf(n) ==
  /\ pc[n] = "refind" => JobsWithKey(req[n].key) # {}
  /\ (req[n].kind = "submit" /\ req[n].key # NoKey /\ pc[n] = "answered"
        /\ status[n] \notin {401, 403, 413, 426})
       => status[n] = 200 /\ reply[n] \in JobsWithKey(req[n].key)

Keys == UniqueKeys /\ \A n \in Sent : KeyOf(n)

\* A temporary file grows to its content, which is then put in place in one step.
Whole(c) == blobs[c] = SizeOf[c]

FileOf(n) ==
  /\ pc[n] \in {"write", "place", "drop", "move"}
       => /\ temps[n] \in 1..(SizeOf[ContentOf(n)] + 1)
          /\ temps[n] =< MaxArtifact + 1
  /\ pc[n] \in {"place", "drop", "move"} => temps[n] = SizeOf[ContentOf(n)] + 1
  /\ pc[n] \in {"drop", "row"} => Whole(ContentOf(n))

Objects ==
  /\ \A c \in Contents : blobs[c] # 0 => Whole(c) /\ SizeOf[c] =< MaxArtifact
  /\ \A n \in Sent : FileOf(n)
  /\ \A i \in DOMAIN files : Whole(files[i].content)

\* A row was made by a request that is answered with success, or by an output
\* that is not linked yet.
Rows ==
  /\ \A j \in DOMAIN jobs : jobs[j].by \in Sent /\ status[jobs[j].by] = 200
  /\ \A i \in DOMAIN files :
       /\ files[i].by \in Sent
       /\ \/ status[files[i].by] = 200
          \/ status[files[i].by] = 0 /\ pc[files[i].by] \in {"link", "killed"}

\* A principal that had the task when its output was admitted.
Entitled(n) ==
  /\ req[n].task \in Tasks
  /\ {<<req[n].task, PrincipalFor(req[n].token).name>>, <<req[n].task, NoName>>} \cap held # {}

OutputOf(n) ==
  /\ req[n].kind = "output" /\ status[n] \in {0, 200} => Entitled(n)
  /\ pc[n] = "link" => reply[n] \in DOMAIN files /\ files[reply[n]].by = n

Outputs ==
  /\ \A t \in Tasks : holder[t] # NoWorker => <<t, PrincipalOf[holder[t]]>> \in held
  /\ \A n \in Sent : OutputOf(n)
  /\ \A t \in Tasks :
       links[t] # 0 => LET n == files[links[t]].by
                       IN  req[n].kind = "output" /\ status[n] = 200 /\ req[n].task = t

FrontInv == Columns /\ Stages /\ Keys /\ Objects /\ Rows /\ Outputs

\* A step of a handler is a step of one request, which stays as it was sent.
LEMMA HandlerStep ==
  ASSUME Columns, NEW n \in Sent, SubmitStep(n) \/ UploadStep(n) \/ Download(n)
  PROVE  /\ req' = req /\ Sent' = Sent
         /\ pc[n] \notin {"answered", "killed"}
         /\ \A m \in Sent \ {n} : /\ pc'[m] = pc[m] /\ status'[m] = status[m]
                                  /\ reply'[m] = reply[m] /\ temps'[m] = temps[m]
         /\ UNCHANGED <<leaseVars, crashes>>
<1>1. /\ req' = req
      /\ pc[n] \notin {"answered", "killed"}
      /\ UNCHANGED <<leaseVars, crashes>>
  BY DEF SubmitStep, UploadStep, Download, FindByKey, InsertJob, FindAgain, PutStream, WriteChunk,
         TooLarge, CheckPlace, DropTemp, MoveTemp, AddArtifact, LinkArtifact, Answer, Continue, At,
         requestVars, storeVars
<1>2. \A m \in Sent \ {n} : pc'[m] = pc[m] /\ status'[m] = status[m] /\ reply'[m] = reply[m]
  <2>1. ASSUME NEW st, NEW s, NEW id, Answer(n, s, id) \/ Continue(n, st)
        PROVE  \A m \in Sent \ {n} : pc'[m] = pc[m] /\ status'[m] = status[m] /\ reply'[m] = reply[m]
    BY <2>1 DEF Answer, Continue, Columns
  <2>2. ASSUME UNCHANGED requestVars
        PROVE  \A m \in Sent \ {n} : pc'[m] = pc[m] /\ status'[m] = status[m] /\ reply'[m] = reply[m]
    BY <2>2 DEF requestVars
  <2>3. CASE FindByKey(n)
    BY <2>3, <2>1, Zenon DEF FindByKey
  <2>4. CASE InsertJob(n)
    BY <2>4, <2>1, Zenon DEF InsertJob
  <2>5. CASE FindAgain(n)
    BY <2>5, <2>1, Zenon DEF FindAgain
  <2>6. CASE WriteChunk(n)
    BY <2>6, <2>1, <2>2, Zenon DEF WriteChunk, TooLarge
  <2>7. CASE CheckPlace(n) \/ DropTemp(n) \/ MoveTemp(n)
    BY <2>7, <2>1, Zenon DEF CheckPlace, DropTemp, MoveTemp
  <2>8. CASE AddArtifact(n)
    BY <2>8 DEF AddArtifact, Answer, Columns
  <2>9. CASE LinkArtifact(n) \/ Download(n)
    BY <2>9, <2>1, Zenon DEF LinkArtifact, Download
  <2> QED
    BY <2>3, <2>4, <2>5, <2>6, <2>7, <2>8, <2>9 DEF SubmitStep, UploadStep, PutStream
<1>3. \A m \in Sent \ {n} : temps'[m] = temps[m]
  BY DEF SubmitStep, UploadStep, Download, FindByKey, InsertJob, FindAgain, PutStream, WriteChunk,
         TooLarge, CheckPlace, DropTemp, MoveTemp, AddArtifact, LinkArtifact, Answer, Continue, At,
         requestVars, storeVars, Columns
<1> QED
  BY <1>1, <1>2, <1>3 DEF Sent

-----------------------------------------------------------------------------
(* The columns keep their types                                            *)

LEMMA AnswerKeepsTypes ==
  ASSUME Columns, NEW n \in Sent, NEW s \in Codes, NEW id \in Nat, Answer(n, s, id)
  PROVE  /\ Sent' = Sent /\ req' = req
         /\ pc' \in [Sent -> Steps] /\ status' \in [Sent -> Codes] /\ reply' \in [Sent -> Nat]
BY DEF Answer, Columns, Steps, Sent

LEMMA ContinueKeepsTypes ==
  ASSUME Columns, NEW n \in Sent, NEW step \in Steps, Continue(n, step)
  PROVE  /\ Sent' = Sent /\ req' = req
         /\ pc' \in [Sent -> Steps] /\ status' = status /\ reply' = reply
BY DEF Continue, Columns, Sent

\* The columns of the requests, which most steps write, apart from the others.
RequestColumns ==
  /\ req \in Seq(Requests) /\ Len(req) =< MaxRequests
  /\ pc \in [Sent -> Steps]
  /\ status \in [Sent -> Codes]
  /\ reply \in [Sent -> Nat]
  /\ temps \in [Sent -> Nat]

LEMMA RequestColumnsKept ==
  ASSUME FrontInv, [FrontNext]_frontVars
  PROVE  RequestColumns'
<1> USE DEF RequestColumns
<1>0. Columns /\ RequestColumns
  BY DEF FrontInv, Columns
<1>1. ASSUME NEW r \in Requests, Receive(r) PROVE RequestColumns'
  BY <1>0, <1>1, Received, Zenon
<1>2. ASSUME NEW n \in Sent, FindByKey(n) PROVE RequestColumns'
  <2>1. temps' = temps
    BY <1>2 DEF FindByKey, storeVars
  <2>2. CASE JobsWithKey(req[n].key) = {}
    <3>1. Continue(n, "insert") /\ "insert" \in Steps
      BY <1>2, <2>2 DEF FindByKey, Steps
    <3> QED
      BY <1>0, <2>1, <3>1, ContinueKeepsTypes
  <2>3. CASE JobsWithKey(req[n].key) # {}
    <3> DEFINE id == Max(JobsWithKey(req[n].key))
    <3>1. Answer(n, 200, id) /\ 200 \in Codes
      BY <1>2, <2>3 DEF FindByKey, Codes
    <3>2. id \in Nat
      BY <1>0, <2>3, FoundByKey DEF FrontInv, Keys
    <3> HIDE DEF id
    <3> QED
      BY <1>0, <2>1, <3>1, <3>2, AnswerKeepsTypes
  <2> QED
    BY <2>2, <2>3
<1>3. ASSUME NEW n \in Sent, InsertJob(n) PROVE RequestColumns'
  <2>1. temps' = temps
    BY <1>3 DEF InsertJob
  <2>2. CASE KeyTaken(req[n].key)
    <3>1. Continue(n, "refind") /\ "refind" \in Steps
      BY <1>3, <2>2 DEF InsertJob, Steps
    <3> QED
      BY <1>0, <2>1, <3>1, ContinueKeepsTypes
  <2>3. CASE ~KeyTaken(req[n].key)
    <3>1. Answer(n, 200, Len(jobs) + 1) /\ 200 \in Codes
      BY <1>3, <2>3 DEF InsertJob, Codes
    <3>2. Len(jobs) + 1 \in Nat
      BY <1>0, SentType
    <3> QED
      BY <1>0, <2>1, <3>1, <3>2, AnswerKeepsTypes
  <2> QED
    BY <2>2, <2>3
<1>4. ASSUME NEW n \in Sent, FindAgain(n) PROVE RequestColumns'
  <2>1. temps' = temps
    BY <1>4 DEF FindAgain, storeVars
  <2>2. CASE JobsWithKey(req[n].key) = {}
    <3>1. Answer(n, 500, 0) /\ 500 \in Codes
      BY <1>4, <2>2 DEF FindAgain, Codes
    <3> QED
      BY <1>0, <2>1, <3>1, AnswerKeepsTypes
  <2>3. CASE JobsWithKey(req[n].key) # {}
    <3> DEFINE id == Max(JobsWithKey(req[n].key))
    <3>1. Answer(n, 200, id) /\ 200 \in Codes
      BY <1>4, <2>3 DEF FindAgain, Codes
    <3>2. id \in Nat
      BY <1>0, <2>3, FoundByKey DEF FrontInv, Keys
    <3> HIDE DEF id
    <3> QED
      BY <1>0, <2>1, <3>1, <3>2, AnswerKeepsTypes
  <2> QED
    BY <2>2, <2>3
<1>5. ASSUME NEW n \in Sent, WriteChunk(n) PROVE RequestColumns'
  <2>1. CASE Written(n) = SizeOf[ContentOf(n)]
    <3>1. Continue(n, "place") /\ "place" \in Steps /\ temps' = temps
      BY <1>5, <2>1 DEF WriteChunk, Steps
    <3> QED
      BY <1>0, <3>1, ContinueKeepsTypes
  <2>2. CASE TooLarge(n)
    <3>1. Answer(n, 413, 0) /\ 413 \in Codes /\ temps' = [temps EXCEPT ![n] = 0]
      BY <2>2 DEF TooLarge, Codes
    <3>2. temps' \in [Sent -> Nat]
      BY <1>0, <3>1
    <3> QED
      BY <1>0, <3>1, <3>2, AnswerKeepsTypes
  <2>3. CASE temps' = [temps EXCEPT ![n] = @ + 1] /\ UNCHANGED requestVars
    BY <1>0, <2>3 DEF requestVars, Sent
  <2> QED
    BY <1>5, <2>1, <2>2, <2>3 DEF WriteChunk
<1>6. ASSUME NEW n \in Sent, CheckPlace(n) \/ DropTemp(n) \/ MoveTemp(n) PROVE RequestColumns'
  <2>1. PICK step \in {"drop", "move", "row"} : Continue(n, step)
    BY <1>6, Zenon DEF CheckPlace, DropTemp, MoveTemp
  <2>2. step \in Steps
    BY DEF Steps
  <2>3. temps' = temps \/ temps' = [temps EXCEPT ![n] = 0]
    BY <1>6 DEF CheckPlace, DropTemp, MoveTemp, storeVars
  <2>4. temps' \in [Sent -> Nat]
    BY <1>0, <2>3
  <2> QED
    BY <1>0, <2>1, <2>2, <2>4, ContinueKeepsTypes
<1>7. ASSUME NEW n \in Sent, AddArtifact(n) PROVE RequestColumns'
  <2>0. temps' = temps /\ Len(files) + 1 \in Nat /\ 200 \in Codes
    BY <1>0, <1>7, SentType DEF AddArtifact, Codes
  <2>1. CASE req[n].kind = "output"
    BY <1>0, <1>7, <2>0, <2>1 DEF AddArtifact, Steps, Sent
  <2>2. CASE req[n].kind # "output"
    <3>1. Answer(n, 200, Len(files) + 1)
      BY <1>7, <2>2 DEF AddArtifact
    <3> QED
      BY <1>0, <2>0, <3>1, AnswerKeepsTypes
  <2> QED
    BY <2>1, <2>2
<1>8. ASSUME NEW n \in Sent, LinkArtifact(n) PROVE RequestColumns'
  <2>1. Answer(n, 200, reply[n]) /\ 200 \in Codes /\ reply[n] \in Nat /\ temps' = temps
    BY <1>0, <1>8 DEF LinkArtifact, Codes
  <2> QED
    BY <1>0, <2>1, AnswerKeepsTypes
<1>9. ASSUME NEW n \in Sent, Download(n) PROVE RequestColumns'
  <2>0. temps' = temps /\ DOMAIN files \subseteq Nat /\ 200 \in Codes /\ 404 \in Codes
    <3>1. temps' = temps
      BY <1>9 DEF Download, storeVars
    <3>2. DOMAIN files \subseteq Nat
      BY <1>0, SentType
    <3> QED
      BY <3>1, <3>2 DEF Codes
  <2>1. CASE req[n].file \in DOMAIN files
    <3>1. Answer(n, 200, req[n].file)
      BY <1>9, <2>1 DEF Download
    <3> QED
      BY <1>0, <2>0, <2>1, <3>1, AnswerKeepsTypes
  <2>2. CASE req[n].file \notin DOMAIN files
    <3>1. Answer(n, 404, 0)
      BY <1>9, <2>2 DEF Download
    <3> QED
      BY <1>0, <2>0, <3>1, AnswerKeepsTypes
  <2> QED
    BY <2>1, <2>2
<1>10. ASSUME NEW t \in Tasks, NEW w \in Workers \cup {NoWorker}, Move(t, w)
       PROVE  RequestColumns'
  BY <1>0, <1>10 DEF Move, requestVars, storeVars, Sent
<1>11. CASE Crash
  BY <1>0, <1>11 DEF Crash, storeVars, Sent, Steps
<1>12. CASE UNCHANGED frontVars
  BY <1>0, <1>12 DEF frontVars, requestVars, storeVars, Sent
<1> QED
  BY <1>1, <1>2, <1>3, <1>4, <1>5, <1>6, <1>7, <1>8, <1>9, <1>10, <1>11, <1>12, NextCases

\* The columns of the tables and of the queue.
StoreColumns ==
  /\ jobs \in Seq(JobRow) /\ files \in Seq(FileRow)
  /\ blobs \in [Contents -> Nat]
  /\ links \in [Tasks -> {0} \cup DOMAIN files]
  /\ holder \in [Tasks -> Workers \cup {NoWorker}]
  /\ moves \in 0..MaxMoves /\ crashes \in 0..MaxCrashes

LEMMA StoreColumnsKept ==
  ASSUME FrontInv, [FrontNext]_frontVars
  PROVE  StoreColumns'
<1> USE DEF StoreColumns
<1>0. Columns /\ StoreColumns
  BY DEF FrontInv, Columns
<1>1. ASSUME NEW r \in Requests, Receive(r) PROVE StoreColumns'
  BY <1>0, <1>1 DEF Receive, leaseVars
<1>2. ASSUME NEW n \in Sent, FindByKey(n) \/ FindAgain(n) \/ CheckPlace(n) \/ Download(n)
      PROVE  StoreColumns'
  <2>1. UNCHANGED <<storeVars, leaseVars, crashes>>
    BY <1>2 DEF FindByKey, FindAgain, CheckPlace, Download
  <2> QED
    BY <1>0, <2>1 DEF storeVars, leaseVars
<1>3. ASSUME NEW n \in Sent, InsertJob(n) PROVE StoreColumns'
  <2>1. UNCHANGED <<blobs, files, links, holder, moves, crashes>>
    BY <1>3 DEF InsertJob, leaseVars
  <2>2. CASE KeyTaken(req[n].key)
    BY <1>0, <1>3, <2>1, <2>2 DEF InsertJob
  <2>3. CASE ~KeyTaken(req[n].key)
    <3> DEFINE row == [key |-> req[n].key, owner |-> PrincipalFor(req[n].token).name, by |-> n]
    <3>1. jobs' = Append(jobs, row)
      BY <1>3, <2>3 DEF InsertJob
    <3>2. req[n] \in Requests /\ n \in Nat
      BY <1>0, SentType
    <3>3. row \in JobRow
      BY <3>2, Zenon DEF JobRow
    <3> HIDE DEF row
    <3>4. jobs' \in Seq(JobRow)
      BY <1>0, <3>1, <3>3
    <3> QED
      BY <1>0, <2>1, <3>4
  <2> QED
    BY <2>2, <2>3
<1>4. ASSUME NEW n \in Sent, WriteChunk(n) \/ DropTemp(n) PROVE StoreColumns'
  <2>1. UNCHANGED <<jobs, blobs, files, links, holder, moves, crashes>>
    BY <1>4 DEF WriteChunk, DropTemp, leaseVars
  <2> QED
    BY <1>0, <2>1
<1>5. ASSUME NEW n \in Sent, MoveTemp(n) PROVE StoreColumns'
  <2>1. UNCHANGED <<jobs, files, links, holder, moves, crashes>>
    BY <1>5 DEF MoveTemp, leaseVars
  <2>2. Written(n) \in Nat
    <3>1. pc[n] = "move" /\ FileOf(n)
      BY <1>5 DEF MoveTemp, At, FrontInv, Objects
    <3>2. ContentOf(n) \in Contents /\ SizeOf[ContentOf(n)] \in Nat
      BY <1>0, SentType, FrontAssumption
    <3> QED
      BY <3>1, <3>2 DEF FileOf, Written
  <2>3. blobs' \in [Contents -> Nat]
    BY <1>0, <1>5, <2>2 DEF MoveTemp
  <2> QED
    BY <1>0, <2>1, <2>3
<1>6. ASSUME NEW n \in Sent, AddArtifact(n) PROVE StoreColumns'
  <2>1. UNCHANGED <<jobs, blobs, links, holder, moves, crashes>>
    BY <1>6 DEF AddArtifact, leaseVars
  <2> DEFINE row == [content |-> ContentOf(n), by |-> n]
  <2>2. files' = Append(files, row)
    BY <1>6 DEF AddArtifact
  <2>3. row \in FileRow
    BY <1>0, SentType DEF FileRow
  <2> HIDE DEF row
  <2>4. files' \in Seq(FileRow) /\ DOMAIN files \subseteq DOMAIN files'
    BY <1>0, <2>2, <2>3
  <2> QED
    BY <1>0, <2>1, <2>4
<1>7. ASSUME NEW n \in Sent, LinkArtifact(n) PROVE StoreColumns'
  <2>1. UNCHANGED <<jobs, blobs, files, holder, moves, crashes>>
    BY <1>7 DEF LinkArtifact, leaseVars
  <2>2. reply[n] \in DOMAIN files
    BY <1>7 DEF LinkArtifact, At, FrontInv, Outputs, OutputOf
  <2>3. links' \in [Tasks -> {0} \cup DOMAIN files]
    BY <1>0, <1>7, <2>2 DEF LinkArtifact
  <2> QED
    BY <1>0, <2>1, <2>3
<1>8. ASSUME NEW t \in Tasks, NEW w \in Workers \cup {NoWorker}, Move(t, w)
      PROVE  StoreColumns'
  <2>1. moves' \in 0..MaxMoves
    BY <1>0, <1>8, FrontAssumption DEF Move
  <2>2. holder' \in [Tasks -> Workers \cup {NoWorker}]
    BY <1>0, <1>8 DEF Move
  <2> QED
    BY <1>0, <1>8, <2>1, <2>2 DEF Move, storeVars
<1>9. CASE Crash
  <2>1. crashes' \in 0..MaxCrashes
    BY <1>0, <1>9, FrontAssumption DEF Crash
  <2> QED
    BY <1>0, <1>9, <2>1 DEF Crash, storeVars, leaseVars
<1>10. CASE UNCHANGED frontVars
  BY <1>0, <1>10 DEF frontVars, storeVars, leaseVars
<1> QED
  BY <1>1, <1>2, <1>3, <1>4, <1>5, <1>6, <1>7, <1>8, <1>9, <1>10, NextCases

LEMMA ColumnsKept ==
  ASSUME FrontInv, [FrontNext]_frontVars
  PROVE  Columns'
BY RequestColumnsKept, StoreColumnsKept DEF Columns, RequestColumns, StoreColumns

-----------------------------------------------------------------------------
(* What each step of a handler writes at its request                       *)

Goes(n, step)  == pc'[n] = step /\ status'[n] = status[n] /\ reply'[n] = reply[n]
Ends(n, s, id) == pc'[n] = "answered" /\ status'[n] = s /\ reply'[n] = id

LEMMA AnswerEnds ==
  ASSUME Columns, NEW n \in Sent, NEW s, NEW id, Answer(n, s, id)
  PROVE  Ends(n, s, id)
BY DEF Columns, Answer, Ends

LEMMA ContinueGoes ==
  ASSUME Columns, NEW n \in Sent, NEW step, Continue(n, step)
  PROVE  Goes(n, step)
BY DEF Columns, Continue, Goes

LEMMA AtFind ==
  ASSUME Columns, NEW n \in Sent, FindByKey(n)
  PROVE  /\ pc[n] = "find" /\ UNCHANGED storeVars
         /\ IF JobsWithKey(req[n].key) = {} THEN Goes(n, "insert")
            ELSE Ends(n, 200, Max(JobsWithKey(req[n].key)))
<1>1. pc[n] = "find" /\ UNCHANGED storeVars
  BY DEF FindByKey, At
<1>2. CASE JobsWithKey(req[n].key) = {}
  BY <1>1, <1>2, ContinueGoes, Zenon DEF FindByKey
<1>3. CASE JobsWithKey(req[n].key) # {}
  BY <1>1, <1>3, AnswerEnds, Zenon DEF FindByKey
<1> QED
  BY <1>2, <1>3

LEMMA AtInsert ==
  ASSUME Columns, NEW n \in Sent, InsertJob(n)
  PROVE  /\ pc[n] = "insert" /\ UNCHANGED <<blobs, temps, files, links>>
         /\ IF KeyTaken(req[n].key) THEN Goes(n, "refind") /\ UNCHANGED jobs
            ELSE /\ Ends(n, 200, Len(jobs) + 1)
                 /\ jobs' = Append(jobs, [key   |-> req[n].key,
                                          owner |-> PrincipalFor(req[n].token).name,
                                          by    |-> n])
<1>1. pc[n] = "insert" /\ UNCHANGED <<blobs, temps, files, links>>
  BY DEF InsertJob, At
<1>2. CASE KeyTaken(req[n].key)
  BY <1>1, <1>2, ContinueGoes, Zenon DEF InsertJob
<1>3. CASE ~KeyTaken(req[n].key)
  BY <1>1, <1>3, AnswerEnds, Zenon DEF InsertJob
<1> QED
  BY <1>2, <1>3

LEMMA AtFindAgain ==
  ASSUME Columns, NEW n \in Sent, FindAgain(n)
  PROVE  /\ pc[n] = "refind" /\ UNCHANGED storeVars
         /\ IF JobsWithKey(req[n].key) = {} THEN Ends(n, 500, 0)
            ELSE Ends(n, 200, Max(JobsWithKey(req[n].key)))
<1>1. pc[n] = "refind" /\ UNCHANGED storeVars
  BY DEF FindAgain, At
<1>2. CASE JobsWithKey(req[n].key) = {}
  BY <1>1, <1>2, AnswerEnds, Zenon DEF FindAgain
<1>3. CASE JobsWithKey(req[n].key) # {}
  BY <1>1, <1>3, AnswerEnds, Zenon DEF FindAgain
<1> QED
  BY <1>2, <1>3

LEMMA AtWrite ==
  ASSUME Columns, NEW n \in Sent, WriteChunk(n)
  PROVE  /\ pc[n] = "write" /\ UNCHANGED <<jobs, blobs, files, links>>
         /\ IF Written(n) = SizeOf[ContentOf(n)] THEN Goes(n, "place") /\ UNCHANGED temps
            ELSE IF Written(n) + 1 > MaxArtifact THEN Ends(n, 413, 0) /\ temps'[n] = 0
            ELSE Goes(n, "write") /\ temps'[n] = temps[n] + 1
<1>1. pc[n] = "write" /\ UNCHANGED <<jobs, blobs, files, links>>
  BY DEF WriteChunk, At
<1>2. CASE Written(n) = SizeOf[ContentOf(n)]
  BY <1>1, <1>2, ContinueGoes, Zenon DEF WriteChunk
<1>3. CASE Written(n) # SizeOf[ContentOf(n)] /\ Written(n) + 1 > MaxArtifact
  <2>1. Answer(n, 413, 0) /\ temps' = [temps EXCEPT ![n] = 0]
    BY <1>3, Zenon DEF WriteChunk, TooLarge
  <2>2. temps'[n] = 0
    BY <2>1 DEF Columns
  <2> QED
    BY <1>1, <1>3, <2>1, <2>2, AnswerEnds
<1>4. CASE Written(n) # SizeOf[ContentOf(n)] /\ ~(Written(n) + 1 > MaxArtifact)
  <2>1. temps' = [temps EXCEPT ![n] = @ + 1] /\ UNCHANGED requestVars
    BY <1>4, Zenon DEF WriteChunk
  <2>2. temps'[n] = temps[n] + 1
    BY <2>1 DEF Columns
  <2>3. Goes(n, "write")
    BY <1>1, <2>1 DEF Goes, requestVars
  <2> QED
    BY <1>1, <1>4, <2>2, <2>3
<1> QED
  BY <1>2, <1>3, <1>4

LEMMA AtPlace ==
  ASSUME Columns, NEW n \in Sent, CheckPlace(n)
  PROVE  /\ pc[n] = "place" /\ UNCHANGED storeVars
         /\ IF blobs[ContentOf(n)] > 0 THEN Goes(n, "drop") ELSE Goes(n, "move")
<1>1. pc[n] = "place" /\ UNCHANGED storeVars
  BY DEF CheckPlace, At
<1>2. CASE blobs[ContentOf(n)] > 0
  BY <1>1, <1>2, ContinueGoes, Zenon DEF CheckPlace
<1>3. CASE ~(blobs[ContentOf(n)] > 0)
  BY <1>1, <1>3, ContinueGoes, Zenon DEF CheckPlace
<1> QED
  BY <1>2, <1>3

LEMMA AtDrop ==
  ASSUME Columns, NEW n \in Sent, DropTemp(n)
  PROVE  /\ pc[n] = "drop" /\ UNCHANGED <<jobs, blobs, files, links>>
         /\ Goes(n, "row") /\ temps'[n] = 0
<1>1. pc[n] = "drop" /\ UNCHANGED <<jobs, blobs, files, links>> /\ Continue(n, "row")
  BY DEF DropTemp, At
<1>2. temps'[n] = 0
  BY DEF DropTemp, Columns
<1> QED
  BY <1>1, <1>2, ContinueGoes

LEMMA AtMove ==
  ASSUME Columns, NEW n \in Sent, MoveTemp(n)
  PROVE  /\ pc[n] = "move" /\ UNCHANGED <<jobs, files, links>>
         /\ Goes(n, "row") /\ temps'[n] = 0
         /\ blobs' = [blobs EXCEPT ![ContentOf(n)] = Written(n)]
<1>1. /\ pc[n] = "move" /\ UNCHANGED <<jobs, files, links>> /\ Continue(n, "row")
      /\ blobs' = [blobs EXCEPT ![ContentOf(n)] = Written(n)]
  BY DEF MoveTemp, At
<1>2. temps'[n] = 0
  BY DEF MoveTemp, Columns
<1> QED
  BY <1>1, <1>2, ContinueGoes

LEMMA AtRow ==
  ASSUME Columns, NEW n \in Sent, AddArtifact(n)
  PROVE  /\ pc[n] = "row" /\ UNCHANGED <<jobs, blobs, temps, links>>
         /\ files' = Append(files, [content |-> ContentOf(n), by |-> n])
         /\ reply'[n] = Len(files) + 1
         /\ IF req[n].kind = "output" THEN pc'[n] = "link" /\ status'[n] = status[n]
            ELSE pc'[n] = "answered" /\ status'[n] = 200
<1>1. /\ pc[n] = "row" /\ UNCHANGED <<jobs, blobs, temps, links>>
      /\ files' = Append(files, [content |-> ContentOf(n), by |-> n])
  BY DEF AddArtifact, At
<1>2. CASE req[n].kind = "output"
  <2>1. /\ pc' = [pc EXCEPT ![n] = "link"] /\ reply' = [reply EXCEPT ![n] = Len(files) + 1]
        /\ status' = status
    BY <1>2 DEF AddArtifact
  <2> QED
    BY <1>1, <1>2, <2>1 DEF Columns
<1>3. CASE req[n].kind # "output"
  <2>1. Ends(n, 200, Len(files) + 1)
    BY <1>3, AnswerEnds, Zenon DEF AddArtifact
  <2> QED
    BY <1>1, <1>3, <2>1 DEF Ends
<1> QED
  BY <1>2, <1>3

LEMMA AtLink ==
  ASSUME Columns, NEW n \in Sent, LinkArtifact(n)
  PROVE  /\ pc[n] = "link" /\ UNCHANGED <<jobs, blobs, temps, files>>
         /\ links' = [links EXCEPT ![req[n].task] = reply[n]]
         /\ Ends(n, 200, reply[n])
<1>1. /\ pc[n] = "link" /\ UNCHANGED <<jobs, blobs, temps, files>>
      /\ links' = [links EXCEPT ![req[n].task] = reply[n]]
      /\ Answer(n, 200, reply[n])
  BY DEF LinkArtifact, At
<1> QED
  BY <1>1, AnswerEnds

LEMMA AtLookUp ==
  ASSUME Columns, NEW n \in Sent, Download(n)
  PROVE  /\ pc[n] = "lookup" /\ UNCHANGED storeVars
         /\ Ends(n, 200, req[n].file) \/ Ends(n, 404, 0)
<1>1. pc[n] = "lookup" /\ UNCHANGED storeVars
  BY DEF Download, At
<1>2. Answer(n, 200, req[n].file) \/ Answer(n, 404, 0)
  BY Zenon DEF Download
<1>3. Answer(n, 200, req[n].file) => Ends(n, 200, req[n].file)
  BY AnswerEnds
<1>4. Answer(n, 404, 0) => Ends(n, 404, 0)
  BY AnswerEnds
<1> QED
  BY <1>1, <1>2, <1>3, <1>4

-----------------------------------------------------------------------------
(* The parts of the invariant are kept                                     *)

\* Every step is the arrival of a request, a step of a handler, one that leaves
\* the requests and the store alone, or a restart.
LEMMA NextKinds ==
  ASSUME [FrontNext]_frontVars
  PROVE  \/ \E r \in Requests : Receive(r)
         \/ \E n \in Sent : SubmitStep(n) \/ UploadStep(n) \/ Download(n)
         \/ UNCHANGED <<requestVars, storeVars>>
         \/ Crash
BY DEF FrontNext, Move, frontVars

LEMMA StagesKept ==
  ASSUME FrontInv, [FrontNext]_frontVars
  PROVE  Stages'
<1>0. Columns /\ Columns' /\ Stages
  BY ColumnsKept DEF FrontInv
<1>1. ASSUME NEW r \in Requests, Receive(r) PROVE Stages'
  <2>1. PICK n : n = Len(req) + 1
    OBVIOUS
  <2>2. PICK s : s = Admission(r)
    OBVIOUS
  <2>3. /\ Sent' = Sent \cup {n}
        /\ \A m \in Sent : /\ req'[m] = req[m] /\ pc'[m] = pc[m] /\ status'[m] = status[m]
                           /\ temps'[m] = temps[m]
        /\ req'[n] = r
        /\ pc'[n] = IF s = 200 THEN FirstStep(r) ELSE "answered"
        /\ status'[n] = IF s = 200 THEN 0 ELSE s
        /\ temps'[n] = IF s = 200 /\ FirstStep(r) = "write" THEN 1 ELSE 0
    BY <1>0, <1>1, <2>1, <2>2, Received, Zenon
  <2>4. s # 0
    BY <2>2, AdmissionType
  <2>5. ASSUME NEW m \in Sent PROVE StageOf(m)'
    <3>1. StageOf(m)
      BY <1>0 DEF Stages
    <3>2. /\ req'[m] = req[m] /\ pc'[m] = pc[m] /\ status'[m] = status[m]
          /\ temps'[m] = temps[m]
      BY <2>3
    <3> QED
      BY ONLY <3>1, <3>2 DEF StageOf
  <2>6. ASSUME s = 200 PROVE StageOf(n)'
    <3>1. /\ pc'[n] = FirstStep(r) /\ status'[n] = 0 /\ req'[n] = r
          /\ temps'[n] > 0 => FirstStep(r) = "write"
      BY <2>3, <2>6
    <3> QED
      BY ONLY <3>1 DEF StageOf, FirstStep
  <2>7. ASSUME s # 200 PROVE StageOf(n)'
    BY <2>3, <2>4, <2>7 DEF StageOf
  <2>8. StageOf(n)'
    BY <2>6, <2>7
  <2> QED
    BY <2>3, <2>5, <2>8 DEF Stages
<1>2. ASSUME NEW n \in Sent, SubmitStep(n) \/ UploadStep(n) \/ Download(n) PROVE Stages'
  <2>1. /\ req' = req /\ Sent' = Sent
        /\ \A m \in Sent \ {n} : pc'[m] = pc[m] /\ status'[m] = status[m] /\ temps'[m] = temps[m]
    BY <1>0, <1>2, HandlerStep
  <2>2. ASSUME NEW m \in Sent \ {n} PROVE StageOf(m)'
    BY <1>0, <2>1 DEF Stages, StageOf
  <2>3. StageOf(n)'
    <3>0. StageOf(n) /\ req'[n] = req[n]
      BY <1>0, <2>1 DEF Stages
    <3>1. CASE FindByKey(n)
      <4>1. /\ pc[n] = "find" /\ UNCHANGED temps
            /\ \/ Goes(n, "insert")
               \/ \E id : Ends(n, 200, id)
        BY <1>0, <3>1, AtFind DEF storeVars
      <4>2. CASE Goes(n, "insert")
        BY ONLY <3>0, <4>1, <4>2 DEF StageOf, Goes, Ends
      <4>3. CASE \E id : Ends(n, 200, id)
        BY ONLY <3>0, <4>1, <4>3 DEF StageOf, Goes, Ends
      <4> QED
        BY <4>1, <4>2, <4>3
    <3>2. CASE InsertJob(n)
      <4>1. /\ pc[n] = "insert" /\ UNCHANGED temps
            /\ \/ KeyTaken(req[n].key) /\ Goes(n, "refind")
               \/ \E id : Ends(n, 200, id)
        BY <1>0, <3>2, AtInsert
      <4>2. CASE KeyTaken(req[n].key) /\ Goes(n, "refind")
        BY ONLY <3>0, <4>1, <4>2 DEF StageOf, Goes, Ends, KeyTaken, JobsWithKey
      <4>3. CASE \E id : Ends(n, 200, id)
        BY ONLY <3>0, <4>1, <4>3 DEF StageOf, Goes, Ends
      <4> QED
        BY <4>1, <4>2, <4>3
    <3>3. CASE FindAgain(n)
      <4>1. /\ pc[n] = "refind" /\ UNCHANGED temps
            /\ \/ Ends(n, 500, 0)
               \/ \E id : Ends(n, 200, id)
        BY <1>0, <3>3, AtFindAgain DEF storeVars
      <4>2. CASE Ends(n, 500, 0)
        BY ONLY <3>0, <4>1, <4>2 DEF StageOf, Goes, Ends
      <4>3. CASE \E id : Ends(n, 200, id)
        BY ONLY <3>0, <4>1, <4>3 DEF StageOf, Goes, Ends
      <4> QED
        BY <4>1, <4>2, <4>3
    <3>4. CASE WriteChunk(n)
      <4>1. /\ pc[n] = "write"
            /\ \/ Goes(n, "place") /\ UNCHANGED temps
               \/ Ends(n, 413, 0) /\ temps'[n] = 0
               \/ Goes(n, "write")
        BY <1>0, <3>4, AtWrite
      <4>2. CASE Goes(n, "place") /\ UNCHANGED temps
        BY ONLY <3>0, <4>1, <4>2 DEF StageOf, Goes, Ends
      <4>3. CASE Ends(n, 413, 0) /\ temps'[n] = 0
        BY ONLY <3>0, <4>1, <4>3 DEF StageOf, Goes, Ends
      <4>4. CASE Goes(n, "write")
        BY ONLY <3>0, <4>1, <4>4 DEF StageOf, Goes, Ends
      <4> QED
        BY <4>1, <4>2, <4>3, <4>4
    <3>5. CASE CheckPlace(n)
      <4>1. /\ pc[n] = "place" /\ UNCHANGED temps
            /\ \/ Goes(n, "drop")
               \/ Goes(n, "move")
        BY <1>0, <3>5, AtPlace DEF storeVars
      <4>2. CASE Goes(n, "drop")
        BY ONLY <3>0, <4>1, <4>2 DEF StageOf, Goes, Ends
      <4>3. CASE Goes(n, "move")
        BY ONLY <3>0, <4>1, <4>3 DEF StageOf, Goes, Ends
      <4> QED
        BY <4>1, <4>2, <4>3
    <3>6. CASE DropTemp(n)
      <4>1. pc[n] = "drop" /\ temps'[n] = 0 /\ Goes(n, "row")
        BY <1>0, <3>6, AtDrop
      <4> QED
        BY ONLY <3>0, <4>1 DEF StageOf, Goes, Ends
    <3>7. CASE MoveTemp(n)
      <4>1. pc[n] = "move" /\ temps'[n] = 0 /\ Goes(n, "row")
        BY <1>0, <3>7, AtMove
      <4> QED
        BY ONLY <3>0, <4>1 DEF StageOf, Goes, Ends
    <3>8. CASE AddArtifact(n)
      <4>1. /\ pc[n] = "row" /\ UNCHANGED temps
            /\ \/ req[n].kind = "output" /\ pc'[n] = "link" /\ status'[n] = status[n]
               \/ pc'[n] = "answered" /\ status'[n] = 200
        BY <1>0, <3>8, AtRow
      <4>2. CASE req[n].kind = "output" /\ pc'[n] = "link" /\ status'[n] = status[n]
        BY ONLY <3>0, <4>1, <4>2 DEF StageOf, Goes, Ends
      <4>3. CASE pc'[n] = "answered" /\ status'[n] = 200
        BY ONLY <3>0, <4>1, <4>3 DEF StageOf, Goes, Ends
      <4> QED
        BY <4>1, <4>2, <4>3
    <3>9. CASE LinkArtifact(n)
      <4>1. pc[n] = "link" /\ UNCHANGED temps /\ \E id : Ends(n, 200, id)
        BY <1>0, <3>9, AtLink
      <4> QED
        BY ONLY <3>0, <4>1 DEF StageOf, Goes, Ends
    <3>10. CASE Download(n)
      <4>1. /\ pc[n] = "lookup" /\ UNCHANGED temps
            /\ \/ Ends(n, 404, 0)
               \/ \E id : Ends(n, 200, id)
        BY <1>0, <3>10, AtLookUp DEF storeVars
      <4>2. CASE Ends(n, 404, 0)
        BY ONLY <3>0, <4>1, <4>2 DEF StageOf, Goes, Ends
      <4>3. CASE \E id : Ends(n, 200, id)
        BY ONLY <3>0, <4>1, <4>3 DEF StageOf, Goes, Ends
      <4> QED
        BY <4>1, <4>2, <4>3
    <3> QED
      BY <1>2, <3>1, <3>2, <3>3, <3>4, <3>5, <3>6, <3>7, <3>8, <3>9, <3>10
         DEF SubmitStep, UploadStep, PutStream
  <2> QED
    BY <2>1, <2>2, <2>3 DEF Stages
<1>3. CASE UNCHANGED <<requestVars, storeVars>>
  BY <1>0, <1>3 DEF Stages, StageOf, requestVars, storeVars, Sent
<1>4. CASE Crash
  <2>1. /\ Sent' = Sent /\ UNCHANGED <<req, status, temps>>
        /\ \A m \in Sent : pc'[m] = IF pc[m] \notin {"answered", "killed"} THEN "killed" ELSE pc[m]
    BY <1>4 DEF Crash, storeVars, Sent, Running
  <2> QED
    BY <1>0, <2>1 DEF Stages, StageOf
<1> QED
  BY <1>1, <1>2, <1>3, <1>4, NextKinds

\* Only the insertion of a job writes the jobs table.
LEMMA JobsChange ==
  ASSUME Columns, NEW n \in Sent, SubmitStep(n) \/ UploadStep(n) \/ Download(n)
  PROVE  \/ jobs' = jobs
         \/ /\ InsertJob(n) /\ ~KeyTaken(req[n].key)
            /\ jobs' = Append(jobs, [key   |-> req[n].key,
                                     owner |-> PrincipalFor(req[n].token).name,
                                     by    |-> n])
<1>1. CASE FindByKey(n) \/ FindAgain(n) \/ CheckPlace(n) \/ Download(n)
  BY <1>1 DEF FindByKey, FindAgain, CheckPlace, Download, storeVars
<1>2. CASE WriteChunk(n) \/ DropTemp(n) \/ MoveTemp(n) \/ AddArtifact(n) \/ LinkArtifact(n)
  BY <1>2 DEF WriteChunk, DropTemp, MoveTemp, AddArtifact, LinkArtifact
<1>3. CASE InsertJob(n)
  BY <1>3 DEF InsertJob
<1> QED
  BY <1>1, <1>2, <1>3 DEF SubmitStep, UploadStep, PutStream

\* A job with a key stays the job of that key.
LEMMA JobsStay ==
  ASSUME Columns, Columns', NEW n \in Sent, SubmitStep(n) \/ UploadStep(n) \/ Download(n), NEW key
  PROVE  JobsWithKey(key) \subseteq JobsWithKey(key)'
<1>1. CASE jobs' = jobs
  BY <1>1 DEF JobsWithKey
<1>2. ASSUME NEW row, jobs' = Append(jobs, row)
      PROVE  JobsWithKey(key) \subseteq JobsWithKey(key)'
  <2>1. DOMAIN jobs \subseteq DOMAIN jobs' /\ \A j \in DOMAIN jobs : jobs'[j] = jobs[j]
    BY <1>2 DEF Columns
  <2> QED
    BY <2>1 DEF JobsWithKey
<1> QED
  BY <1>1, <1>2, JobsChange

LEMMA UniqueKeysKept ==
  ASSUME FrontInv, [FrontNext]_frontVars
  PROVE  UniqueKeys'
<1>0. Columns /\ UniqueKeys
  BY DEF FrontInv, Keys
<1>1. CASE jobs' = jobs
  BY <1>0, <1>1 DEF UniqueKeys
<1>2. ASSUME NEW n \in Sent, SubmitStep(n) \/ UploadStep(n) \/ Download(n), jobs' # jobs
      PROVE  UniqueKeys'
  <2>1. PICK row : /\ jobs' = Append(jobs, row) /\ row.key = req[n].key
                   /\ ~KeyTaken(req[n].key)
    BY <1>0, <1>2, JobsChange
  <2>2. /\ DOMAIN jobs = 1..Len(jobs) /\ Len(jobs) \in Nat
        /\ DOMAIN jobs' = 1..(Len(jobs) + 1) /\ jobs'[Len(jobs) + 1] = row
        /\ \A j \in DOMAIN jobs : jobs'[j] = jobs[j]
    BY <1>0, <2>1 DEF Columns
  <2>3. row.key # NoKey => \A j \in DOMAIN jobs : jobs[j].key # row.key
    BY <2>1 DEF KeyTaken, JobsWithKey
  <2>4. DOMAIN jobs' = DOMAIN jobs \cup {Len(jobs) + 1}
    BY <2>2
  <2> QED
    BY <1>0, <2>2, <2>3, <2>4 DEF UniqueKeys
<1>3. CASE UNCHANGED <<requestVars, storeVars>> \/ Crash \/ \E r \in Requests : Receive(r)
  BY <1>1, <1>3 DEF Crash, Receive, storeVars
<1> QED
  BY <1>1, <1>2, <1>3, NextKinds

LEMMA KeysKept ==
  ASSUME FrontInv, [FrontNext]_frontVars
  PROVE  Keys'
<1>0. Columns /\ Columns' /\ Stages /\ UniqueKeys /\ \A m \in Sent : KeyOf(m)
  BY ColumnsKept DEF FrontInv, Keys
<1> SUFFICES \A m \in Sent' : KeyOf(m)'
  BY UniqueKeysKept DEF Keys
<1>1. ASSUME NEW r \in Requests, Receive(r) PROVE \A m \in Sent' : KeyOf(m)'
  <2>1. PICK n : n = Len(req) + 1
    OBVIOUS
  <2>2. PICK s : s = Admission(r)
    OBVIOUS
  <2>3. /\ Sent' = Sent \cup {n}
        /\ \A m \in Sent : /\ req'[m] = req[m] /\ pc'[m] = pc[m] /\ status'[m] = status[m]
                           /\ reply'[m] = reply[m]
        /\ req'[n] = r
        /\ pc'[n] = IF s = 200 THEN FirstStep(r) ELSE "answered"
        /\ status'[n] = IF s = 200 THEN 0 ELSE s
    BY <1>0, <1>1, <2>1, <2>2, Received, Zenon
  <2>4. jobs' = jobs
    BY <1>1 DEF Receive
  <2>5. ASSUME NEW m \in Sent PROVE KeyOf(m)'
    <3>1. KeyOf(m)
      BY <1>0
    <3>2. /\ req'[m] = req[m] /\ pc'[m] = pc[m] /\ status'[m] = status[m]
          /\ reply'[m] = reply[m]
      BY <2>3
    <3> QED
      BY ONLY <2>4, <3>1, <3>2 DEF KeyOf, JobsWithKey
  <2>6. FirstStep(r) \notin {"refind", "answered"}
    BY FirstStepType
  <2>7. r.kind = "submit" => s \in {200, 401, 403, 413, 426}
    BY <2>2, SubmissionType
  <2>8. KeyOf(n)'
    BY <2>3, <2>6, <2>7 DEF KeyOf
  <2> QED
    BY <2>3, <2>5, <2>8
<1>2. ASSUME NEW n \in Sent, SubmitStep(n) \/ UploadStep(n) \/ Download(n)
      PROVE  \A m \in Sent' : KeyOf(m)'
  <2>1. /\ req' = req /\ Sent' = Sent
        /\ \A m \in Sent \ {n} : pc'[m] = pc[m] /\ status'[m] = status[m] /\ reply'[m] = reply[m]
    BY <1>0, <1>2, HandlerStep
  <2>2. ASSUME NEW m \in Sent PROVE JobsWithKey(req[m].key) \subseteq JobsWithKey(req[m].key)'
    <3>1. PICK key : key = req[m].key
      OBVIOUS
    <3>2. JobsWithKey(key) \subseteq JobsWithKey(key)'
      BY <1>0, <1>2, JobsStay
    <3> QED
      BY <2>1, <3>1, <3>2 DEF JobsWithKey
  <2>3. ASSUME NEW m \in Sent \ {n} PROVE KeyOf(m)'
    <3>1. KeyOf(m) /\ JobsWithKey(req[m].key) \subseteq JobsWithKey(req[m].key)'
      BY <1>0, <2>2
    <3>2. req' = req /\ pc'[m] = pc[m] /\ status'[m] = status[m] /\ reply'[m] = reply[m]
      BY <2>1
    <3> QED
      BY ONLY <3>1, <3>2 DEF KeyOf
  <2>4. KeyOf(n)'
    <3>0. /\ KeyOf(n) /\ StageOf(n) /\ req' = req
          /\ JobsWithKey(req[n].key) \subseteq JobsWithKey(req[n].key)'
      BY <1>0, <2>1, <2>2 DEF Stages
    <3>1. CASE FindByKey(n)
      <4>1. CASE JobsWithKey(req[n].key) = {}
        <5>1. Goes(n, "insert")
          BY <1>0, <3>1, <4>1, AtFind
        <5> QED
          BY ONLY <3>0, <5>1 DEF KeyOf, Goes
      <4>2. CASE JobsWithKey(req[n].key) # {}
        <5>1. Ends(n, 200, Max(JobsWithKey(req[n].key)))
          BY <1>0, <3>1, <4>2, AtFind
        <5>2. Max(JobsWithKey(req[n].key)) \in JobsWithKey(req[n].key)
          BY <1>0, <4>2, FoundByKey
        <5> QED
          BY ONLY <3>0, <5>1, <5>2 DEF KeyOf, Ends
      <4> QED
        BY <4>1, <4>2
    <3>2. CASE InsertJob(n)
      <4>1. CASE KeyTaken(req[n].key)
        <5>1. Goes(n, "refind") /\ JobsWithKey(req[n].key) # {}
          BY <1>0, <3>2, <4>1, AtInsert DEF KeyTaken
        <5> QED
          BY ONLY <3>0, <5>1 DEF KeyOf, Goes
      <4>2. CASE ~KeyTaken(req[n].key)
        <5>0. jobs' = Append(jobs, [key   |-> req[n].key,
                                    owner |-> PrincipalFor(req[n].token).name,
                                    by    |-> n])
          BY <1>0, <3>2, <4>2, AtInsert
        <5>1. PICK row : jobs' = Append(jobs, row) /\ row.key = req[n].key
          BY <5>0
        <5>2. Len(jobs) + 1 \in DOMAIN jobs' /\ jobs'[Len(jobs) + 1] = row
          BY <1>0, <5>1 DEF Columns
        <5>3. req[n].key # NoKey => Len(jobs) + 1 \in JobsWithKey(req[n].key)'
          BY <3>0, <5>1, <5>2 DEF JobsWithKey
        <5>4. Ends(n, 200, Len(jobs) + 1)
          BY <1>0, <3>2, <4>2, AtInsert
        <5> QED
          BY ONLY <3>0, <5>3, <5>4 DEF KeyOf, Ends
      <4> QED
        BY <4>1, <4>2
    <3>3. CASE FindAgain(n)
      <4>1. pc[n] = "refind" /\ JobsWithKey(req[n].key) # {}
        BY <1>0, <3>0, <3>3, AtFindAgain DEF KeyOf
      <4>2. Ends(n, 200, Max(JobsWithKey(req[n].key)))
        BY <1>0, <3>3, <4>1, AtFindAgain
      <4>3. Max(JobsWithKey(req[n].key)) \in JobsWithKey(req[n].key)
        BY <1>0, <4>1, FoundByKey
      <4> QED
        BY ONLY <3>0, <4>2, <4>3 DEF KeyOf, Ends
    <3>4. CASE UploadStep(n) \/ Download(n)
      <4>1. req[n].kind # "submit"
        <5>1. pc[n] \in {"write", "place", "drop", "move", "row", "link", "lookup"}
          BY <3>4 DEF UploadStep, PutStream, Download, WriteChunk, CheckPlace, DropTemp, MoveTemp,
                      AddArtifact, LinkArtifact, At
        <5> QED
          BY <3>0, <5>1 DEF StageOf
      <4>2. pc'[n] # "refind"
        <5>1. Stages'
          BY StagesKept
        <5> QED
          BY <2>1, <4>1, <5>1 DEF Stages, StageOf
      <4> QED
        BY ONLY <3>0, <4>1, <4>2 DEF KeyOf
    <3> QED
      BY <1>2, <3>1, <3>2, <3>3, <3>4 DEF SubmitStep
  <2> QED
    BY <2>1, <2>3, <2>4
<1>3. CASE UNCHANGED <<requestVars, storeVars>>
  BY <1>0, <1>3 DEF KeyOf, JobsWithKey, requestVars, storeVars, Sent
<1>4. CASE Crash
  <2>1. /\ Sent' = Sent /\ UNCHANGED <<req, status, reply, jobs>>
        /\ \A m \in Sent : pc'[m] = IF pc[m] \notin {"answered", "killed"} THEN "killed" ELSE pc[m]
    BY <1>4 DEF Crash, storeVars, Sent, Running
  <2> QED
    BY <1>0, <2>1 DEF KeyOf, JobsWithKey
<1> QED
  BY <1>1, <1>2, <1>3, <1>4, NextKinds

\* Only the move of a temporary file writes an object, whole.
LEMMA ObjectsChange ==
  ASSUME FrontInv, NEW n \in Sent, SubmitStep(n) \/ UploadStep(n) \/ Download(n)
  PROVE  \/ blobs' = blobs
         \/ /\ blobs' = [blobs EXCEPT ![ContentOf(n)] = SizeOf[ContentOf(n)]]
            /\ ContentOf(n) \in Contents /\ SizeOf[ContentOf(n)] =< MaxArtifact
<1>0. Columns /\ FileOf(n)
  BY DEF FrontInv, Objects
<1>1. CASE FindByKey(n) \/ FindAgain(n) \/ CheckPlace(n) \/ Download(n)
  BY <1>1 DEF FindByKey, FindAgain, CheckPlace, Download, storeVars
<1>2. CASE InsertJob(n) \/ WriteChunk(n) \/ DropTemp(n) \/ AddArtifact(n) \/ LinkArtifact(n)
  BY <1>2 DEF InsertJob, WriteChunk, DropTemp, AddArtifact, LinkArtifact
<1>3. CASE MoveTemp(n)
  <2>1. pc[n] = "move" /\ blobs' = [blobs EXCEPT ![ContentOf(n)] = Written(n)]
    BY <1>0, <1>3, AtMove
  <2>2. ContentOf(n) \in Contents /\ SizeOf[ContentOf(n)] \in Nat /\ MaxArtifact \in Nat
    BY <1>0, SentType, FrontAssumption
  <2>3. Written(n) = SizeOf[ContentOf(n)] /\ SizeOf[ContentOf(n)] =< MaxArtifact
    BY <1>0, <2>1, <2>2 DEF FileOf, Written
  <2> QED
    BY <2>1, <2>2, <2>3
<1> QED
  BY <1>1, <1>2, <1>3 DEF SubmitStep, UploadStep, PutStream

LEMMA WholeStays ==
  ASSUME FrontInv, NEW n \in Sent, SubmitStep(n) \/ UploadStep(n) \/ Download(n),
         NEW c \in Contents, Whole(c)
  PROVE  Whole(c)'
BY ObjectsChange DEF Whole, FrontInv, Columns

\* A row is added only for what is in place.
LEMMA FilesChange ==
  ASSUME Columns, NEW n \in Sent, SubmitStep(n) \/ UploadStep(n) \/ Download(n)
  PROVE  \/ files' = files
         \/ AddArtifact(n) /\ files' = Append(files, [content |-> ContentOf(n), by |-> n])
<1>1. CASE FindByKey(n) \/ FindAgain(n) \/ CheckPlace(n) \/ Download(n)
  BY <1>1 DEF FindByKey, FindAgain, CheckPlace, Download, storeVars
<1>2. CASE InsertJob(n) \/ WriteChunk(n) \/ DropTemp(n) \/ MoveTemp(n) \/ LinkArtifact(n)
  BY <1>2 DEF InsertJob, WriteChunk, DropTemp, MoveTemp, LinkArtifact
<1>3. CASE AddArtifact(n)
  BY <1>3 DEF AddArtifact
<1> QED
  BY <1>1, <1>2, <1>3 DEF SubmitStep, UploadStep, PutStream

\* The row that is added is the last, and the others stay.
LEMMA FilesGrow ==
  ASSUME Columns, NEW row, files' = Append(files, row)
  PROVE  /\ Len(files) + 1 \in DOMAIN files' /\ files'[Len(files) + 1] = row
         /\ DOMAIN files' = DOMAIN files \cup {Len(files) + 1}
         /\ Len(files) + 1 \notin DOMAIN files
         /\ \A i \in DOMAIN files : files'[i] = files[i]
<1>1. /\ DOMAIN files = 1..Len(files) /\ Len(files) \in Nat
      /\ DOMAIN files' = 1..(Len(files) + 1) /\ files'[Len(files) + 1] = row
      /\ \A i \in DOMAIN files : files'[i] = files[i]
  BY DEF Columns
<1> QED
  BY <1>1

LEMMA ObjectsKept ==
  ASSUME FrontInv, [FrontNext]_frontVars
  PROVE  Objects'
<1>0. Columns /\ Columns' /\ Stages /\ Objects
  BY ColumnsKept DEF FrontInv
<1>1. ASSUME NEW r \in Requests, Receive(r) PROVE Objects'
  <2>0. UNCHANGED <<blobs, files>>
    BY <1>1 DEF Receive
  <2>1. PICK n : n = Len(req) + 1
    OBVIOUS
  <2>2. PICK s : s = Admission(r)
    OBVIOUS
  <2>3. /\ Sent' = Sent \cup {n}
        /\ \A m \in Sent : req'[m] = req[m] /\ pc'[m] = pc[m] /\ temps'[m] = temps[m]
        /\ req'[n] = r
        /\ pc'[n] = IF s = 200 THEN FirstStep(r) ELSE "answered"
        /\ temps'[n] = IF s = 200 /\ FirstStep(r) = "write" THEN 1 ELSE 0
    BY <1>0, <1>1, <2>1, <2>2, Received, Zenon
  <2>4. ASSUME NEW m \in Sent PROVE FileOf(m)'
    <3>1. FileOf(m)
      BY <1>0 DEF Objects
    <3>2. req'[m] = req[m] /\ pc'[m] = pc[m] /\ temps'[m] = temps[m]
      BY <2>3
    <3> QED
      BY ONLY <2>0, <3>1, <3>2 DEF FileOf, ContentOf, Whole
  <2>5. FileOf(n)'
    <3>1. pc'[n] \in {"write", "place", "drop", "move", "row"} => pc'[n] = "write" /\ temps'[n] = 1
      BY <2>3, FirstStepType
    <3>2. SizeOf[r.content] \in Nat \ {0} /\ MaxArtifact \in Nat
      BY FrontAssumption
    <3> QED
      BY ONLY <2>3, <3>1, <3>2 DEF FileOf, ContentOf
  <2>6. \A c \in Contents : Whole(c)' <=> Whole(c)
    BY <2>0 DEF Whole
  <2>7. \A i \in DOMAIN files : files[i].content \in Contents
    BY <1>0, SentType DEF FileRow
  <2> QED
    BY <1>0, <2>0, <2>3, <2>4, <2>5, <2>6, <2>7 DEF Objects
<1>2. ASSUME NEW n \in Sent, SubmitStep(n) \/ UploadStep(n) \/ Download(n) PROVE Objects'
  <2>1. /\ req' = req /\ Sent' = Sent
        /\ \A m \in Sent \ {n} : pc'[m] = pc[m] /\ temps'[m] = temps[m]
    BY <1>0, <1>2, HandlerStep
  <2>2. \A m \in Sent : ContentOf(m) \in Contents /\ ContentOf(m)' = ContentOf(m)
    BY <1>0, <2>1, SentType DEF ContentOf
  <2>3. \A c \in Contents : Whole(c) => Whole(c)'
    BY <1>2, WholeStays
  <2>4. \A c \in Contents : blobs'[c] # 0 => Whole(c)' /\ SizeOf[c] =< MaxArtifact
    <3>1. CASE blobs' = blobs
      BY <1>0, <3>1 DEF Objects, Whole
    <3>2. CASE blobs' # blobs
      <4>1. /\ blobs' = [blobs EXCEPT ![ContentOf(n)] = SizeOf[ContentOf(n)]]
            /\ ContentOf(n) \in Contents /\ SizeOf[ContentOf(n)] =< MaxArtifact
        BY <1>2, <3>2, ObjectsChange
      <4>2. blobs \in [Contents -> Nat]
        BY <1>0 DEF Columns
      <4>3. \A c \in Contents : blobs[c] # 0 => blobs[c] = SizeOf[c] /\ SizeOf[c] =< MaxArtifact
        BY <1>0 DEF Objects, Whole
      <4> QED
        BY ONLY <4>1, <4>2, <4>3 DEF Whole
    <3> QED
      BY <3>1, <3>2
  <2>5. ASSUME NEW m \in Sent \ {n} PROVE FileOf(m)'
    <3>1. FileOf(m) /\ ContentOf(m)' = ContentOf(m) /\ (Whole(ContentOf(m)) => Whole(ContentOf(m))')
      <4>1. PICK c \in Contents : c = ContentOf(m)
        BY <2>2
      <4>2. Whole(c) => Whole(c)'
        BY <2>3
      <4> QED
        BY <1>0, <2>2, <4>1, <4>2 DEF Objects, Whole
    <3>2. req' = req /\ pc'[m] = pc[m] /\ temps'[m] = temps[m]
      BY <2>1
    <3> QED
      BY ONLY <3>1, <3>2 DEF FileOf
  <2>6. FileOf(n)'
    <3>0. PICK size \in Nat \ {0} : size = SizeOf[ContentOf(n)]
      BY <2>2, FrontAssumption
    <3>1. /\ FileOf(n) /\ ContentOf(n)' = ContentOf(n) /\ MaxArtifact \in Nat
          /\ Whole(ContentOf(n)) => Whole(ContentOf(n))'
      <4>1. PICK d \in Contents : d = ContentOf(n)
        BY <2>2
      <4>2. Whole(d) => Whole(d)'
        BY <2>3
      <4> QED
        BY <1>0, <2>2, <4>1, <4>2, FrontAssumption DEF Objects, Whole
    <3>2. CASE SubmitStep(n) \/ Download(n) \/ AddArtifact(n) \/ LinkArtifact(n)
      <4>1. pc'[n] \notin {"write", "place", "drop", "move", "row"}
        <5>1. CASE FindByKey(n)
          BY <1>0, <5>1, AtFind DEF Goes, Ends
        <5>2. CASE InsertJob(n)
          BY <1>0, <5>2, AtInsert DEF Goes, Ends
        <5>3. CASE FindAgain(n)
          BY <1>0, <5>3, AtFindAgain DEF Ends
        <5>4. CASE Download(n)
          BY <1>0, <5>4, AtLookUp DEF Ends
        <5>5. CASE AddArtifact(n)
          BY <1>0, <5>5, AtRow
        <5>6. CASE LinkArtifact(n)
          BY <1>0, <5>6, AtLink DEF Ends
        <5> QED
          BY <3>2, <5>1, <5>2, <5>3, <5>4, <5>5, <5>6 DEF SubmitStep
      <4> QED
        BY ONLY <4>1 DEF FileOf
    <3>3. CASE WriteChunk(n)
      <4>0. pc[n] = "write" /\ temps[n] \in 1..(size + 1) /\ temps[n] =< MaxArtifact + 1
        BY <1>0, <3>0, <3>1, <3>3, AtWrite DEF FileOf
      <4>1. CASE Written(n) = SizeOf[ContentOf(n)]
        <5>1. Goes(n, "place") /\ temps' = temps /\ temps[n] - 1 = size
          BY <1>0, <3>0, <3>3, <4>1, AtWrite DEF Written
        <5> QED
          BY ONLY size \in Nat \ {0}, <3>0, <3>1, <4>0, <5>1 DEF FileOf, Goes
      <4>2. CASE Written(n) # SizeOf[ContentOf(n)] /\ Written(n) + 1 > MaxArtifact
        <5>1. Ends(n, 413, 0)
          BY <1>0, <3>3, <4>2, AtWrite
        <5> QED
          BY ONLY <5>1 DEF FileOf, Ends
      <4>3. CASE Written(n) # SizeOf[ContentOf(n)] /\ ~(Written(n) + 1 > MaxArtifact)
        <5>1. Goes(n, "write") /\ temps'[n] = temps[n] + 1
          BY <1>0, <3>3, <4>3, AtWrite
        <5>2. temps[n] - 1 # size /\ ~(temps[n] - 1 + 1 > MaxArtifact)
          BY <3>0, <4>3 DEF Written
        <5> QED
          BY ONLY size \in Nat \ {0}, <3>0, <3>1, <4>0, <5>1, <5>2 DEF FileOf, Goes
      <4> QED
        BY <4>1, <4>2, <4>3
    <3>4. CASE CheckPlace(n)
      <4>0. pc[n] = "place" /\ temps' = temps
        BY <1>0, <3>4, AtPlace DEF storeVars
      <4>1. CASE blobs[ContentOf(n)] > 0
        <5>1. Goes(n, "drop")
          BY <1>0, <3>4, <4>1, AtPlace
        <5>2. Whole(ContentOf(n))
          BY <1>0, <2>2, <4>1 DEF Objects
        <5> QED
          BY ONLY <3>1, <4>0, <5>1, <5>2 DEF FileOf, Goes
      <4>2. CASE ~(blobs[ContentOf(n)] > 0)
        <5>1. Goes(n, "move")
          BY <1>0, <3>4, <4>2, AtPlace
        <5> QED
          BY ONLY <3>1, <4>0, <5>1 DEF FileOf, Goes
      <4> QED
        BY <4>1, <4>2
    <3>5. CASE DropTemp(n)
      <4>1. pc[n] = "drop" /\ Goes(n, "row")
        BY <1>0, <3>5, AtDrop
      <4> QED
        BY ONLY <3>1, <4>1 DEF FileOf, Goes
    <3>6. CASE MoveTemp(n)
      <4>1. /\ pc[n] = "move" /\ Goes(n, "row")
            /\ blobs' = [blobs EXCEPT ![ContentOf(n)] = Written(n)]
        BY <1>0, <3>6, AtMove
      <4>2. Written(n) = size
        BY <3>0, <3>1, <4>1 DEF FileOf, Written
      <4>3. blobs'[ContentOf(n)] = SizeOf[ContentOf(n)]
        BY <1>0, <2>2, <3>0, <4>1, <4>2 DEF Columns
      <4> QED
        BY ONLY <3>1, <4>1, <4>3 DEF FileOf, Goes, Whole
    <3> QED
      BY <1>2, <3>2, <3>3, <3>4, <3>5, <3>6 DEF UploadStep, PutStream
  <2>7. \A i \in DOMAIN files' : Whole(files[i].content)'
    <3>0. \A i \in DOMAIN files : files[i].content \in Contents /\ Whole(files[i].content)
      BY <1>0, SentType DEF Objects, FileRow
    <3>1. CASE files' = files
      <4>1. ASSUME NEW i \in DOMAIN files PROVE Whole(files[i].content)'
        <5>1. PICK c \in Contents : c = files[i].content /\ Whole(c)
          BY <3>0
        <5>2. Whole(c)'
          BY <2>3, <5>1
        <5> QED
          BY <3>1, <5>1, <5>2 DEF Whole
      <4> QED
        BY <3>1, <4>1
    <3>2. CASE files' # files
      <4>1. PICK row : /\ AddArtifact(n) /\ row.content = ContentOf(n)
                       /\ files' = Append(files, row)
        <5>1. AddArtifact(n) /\ files' = Append(files, [content |-> ContentOf(n), by |-> n])
          BY <1>0, <1>2, <3>2, FilesChange
        <5> QED
          BY <5>1
      <4>2. /\ files'[Len(files) + 1] = row /\ DOMAIN files' = DOMAIN files \cup {Len(files) + 1}
            /\ \A i \in DOMAIN files : files'[i] = files[i]
        BY <1>0, <4>1, FilesGrow
      <4>3. Whole(ContentOf(n)) /\ blobs' = blobs
        <5>1. pc[n] = "row" /\ blobs' = blobs
          BY <1>0, <4>1, AtRow
        <5>2. FileOf(n)
          BY <1>0 DEF Objects
        <5> QED
          BY <5>1, <5>2 DEF FileOf
      <4>4. ASSUME NEW i \in DOMAIN files' PROVE Whole(files[i].content)'
        BY <3>0, <4>1, <4>2, <4>3, <4>4 DEF Whole
      <4> QED
        BY <4>4
    <3> QED
      BY <3>1, <3>2
  <2> QED
    BY <2>1, <2>4, <2>5, <2>6, <2>7 DEF Objects
<1>3. CASE UNCHANGED <<requestVars, storeVars>>
  BY <1>0, <1>3 DEF Objects, FileOf, ContentOf, Whole, requestVars, storeVars, Sent
<1>4. CASE Crash
  <2>1. /\ Sent' = Sent /\ UNCHANGED <<req, temps, blobs, files>>
        /\ \A m \in Sent : pc'[m] = IF pc[m] \notin {"answered", "killed"} THEN "killed" ELSE pc[m]
    BY <1>4 DEF Crash, storeVars, Sent, Running
  <2> QED
    BY <1>0, <2>1 DEF Objects, FileOf, ContentOf, Whole
<1> QED
  BY <1>1, <1>2, <1>3, <1>4, NextKinds

\* The status of a request that has one stays, and so does an output that waits
\* to be linked, until it is.
Settled(m) == status[m] = 200 \/ (status[m] = 0 /\ pc[m] \in {"link", "killed"})

LEMMA SettledStays ==
  ASSUME Columns, Stages, NEW n \in Sent, SubmitStep(n) \/ UploadStep(n) \/ Download(n),
         NEW m \in Sent
  PROVE  /\ status[m] = 200 => status'[m] = 200
         /\ Settled(m) => Settled(m)'
<1>1. CASE m # n
  <2>1. pc'[m] = pc[m] /\ status'[m] = status[m]
    BY <1>1, HandlerStep
  <2> QED
    BY ONLY <2>1 DEF Settled
<1>2. CASE m = n
  <2>1. pc[n] \notin {"answered", "killed"} /\ status[n] = 0
    BY HandlerStep DEF Stages, StageOf
  <2>2. CASE LinkArtifact(n)
    <3>1. Ends(n, 200, reply[n])
      BY <2>2, AtLink
    <3> QED
      BY ONLY <1>2, <2>1, <3>1 DEF Settled, Ends
  <2>3. CASE pc[n] # "link"
    BY ONLY <1>2, <2>1, <2>3 DEF Settled
  <2>4. pc[n] = "link" => LinkArtifact(n)
    BY DEF SubmitStep, UploadStep, Download, FindByKey, InsertJob, FindAgain, PutStream, WriteChunk,
           CheckPlace, DropTemp, MoveTemp, AddArtifact, At
  <2> QED
    BY <2>2, <2>3, <2>4
<1> QED
  BY <1>1, <1>2

LEMMA RowsKept ==
  ASSUME FrontInv, [FrontNext]_frontVars
  PROVE  Rows'
<1>0. Columns /\ Columns' /\ Stages
  BY ColumnsKept DEF FrontInv
<1>r. /\ \A j \in DOMAIN jobs : jobs[j].by \in Sent /\ status[jobs[j].by] = 200
      /\ \A i \in DOMAIN files : files[i].by \in Sent /\ Settled(files[i].by)
  BY DEF FrontInv, Rows, Settled
<1> SUFFICES /\ \A j \in DOMAIN jobs' : jobs'[j].by \in Sent' /\ status'[jobs'[j].by] = 200
             /\ \A i \in DOMAIN files' : files'[i].by \in Sent' /\ Settled(files[i].by)'
  BY DEF Rows, Settled
<1>1. ASSUME UNCHANGED <<jobs, files>>, Sent \subseteq Sent',
             \A m \in Sent : /\ status'[m] = status[m]
                             /\ pc[m] \in {"link", "killed"} => pc'[m] \in {"link", "killed"}
      PROVE  /\ \A j \in DOMAIN jobs' : jobs'[j].by \in Sent' /\ status'[jobs'[j].by] = 200
             /\ \A i \in DOMAIN files' : files'[i].by \in Sent' /\ Settled(files[i].by)'
  <2>1. ASSUME NEW m \in Sent, Settled(m) PROVE Settled(m)'
    BY <1>1, <2>1 DEF Settled
  <2>2. ASSUME NEW i \in DOMAIN files PROVE files'[i].by \in Sent' /\ Settled(files[i].by)'
    <3>1. PICK m \in Sent : m = files[i].by /\ Settled(m)'
      BY <1>r, <2>1
    <3> QED
      BY <1>1, <3>1 DEF Settled
  <2> QED
    BY <1>1, <1>r, <2>2
<1>2. ASSUME NEW r \in Requests, Receive(r)
      PROVE  /\ UNCHANGED <<jobs, files>> /\ Sent \subseteq Sent'
             /\ \A m \in Sent : status'[m] = status[m] /\ pc'[m] = pc[m]
  <2>1. UNCHANGED <<jobs, files>>
    BY <1>2 DEF Receive
  <2>2. /\ Sent' = Sent \cup {Len(req) + 1}
        /\ \A m \in Sent : status'[m] = status[m] /\ pc'[m] = pc[m]
    BY <1>0, <1>2, Received, Zenon
  <2> QED
    BY <2>1, <2>2
<1>3. ASSUME NEW n \in Sent, SubmitStep(n) \/ UploadStep(n) \/ Download(n)
      PROVE  /\ \A j \in DOMAIN jobs' : jobs'[j].by \in Sent' /\ status'[jobs'[j].by] = 200
             /\ \A i \in DOMAIN files' : files'[i].by \in Sent' /\ Settled(files[i].by)'
  <2>1. Sent' = Sent
    BY <1>0, <1>3, HandlerStep
  <2>2. \A m \in Sent : status[m] = 200 => status'[m] = 200
    BY <1>0, <1>3, SettledStays
  <2>3. ASSUME NEW m \in Sent, Settled(m) PROVE Settled(m)'
    BY <1>0, <1>3, <2>3, SettledStays
  <2>4. \A j \in DOMAIN jobs' : jobs'[j].by \in Sent' /\ status'[jobs'[j].by] = 200
    <3>1. CASE jobs' = jobs
      BY <1>r, <2>1, <2>2, <3>1
    <3>2. CASE jobs' # jobs
      <4>1. /\ InsertJob(n) /\ ~KeyTaken(req[n].key)
            /\ jobs' = Append(jobs, [key   |-> req[n].key,
                                     owner |-> PrincipalFor(req[n].token).name,
                                     by    |-> n])
        BY <1>0, <1>3, <3>2, JobsChange
      <4>2. PICK row : jobs' = Append(jobs, row) /\ row.by = n
        BY <4>1
      <4>3. Ends(n, 200, Len(jobs) + 1)
        BY <1>0, <4>1, AtInsert
      <4>4. \A j \in DOMAIN jobs' : \/ j \in DOMAIN jobs /\ jobs'[j] = jobs[j]
                                    \/ jobs'[j] = row
        <5>1. /\ DOMAIN jobs = 1..Len(jobs) /\ Len(jobs) \in Nat
              /\ DOMAIN jobs' = 1..(Len(jobs) + 1) /\ jobs'[Len(jobs) + 1] = row
              /\ \A j \in DOMAIN jobs : jobs'[j] = jobs[j]
          BY <1>0, <4>2 DEF Columns
        <5>2. DOMAIN jobs' = DOMAIN jobs \cup {Len(jobs) + 1}
          BY <5>1
        <5> QED
          BY <5>1, <5>2
      <4> QED
        BY <1>r, <2>1, <2>2, <4>2, <4>3, <4>4 DEF Ends
    <3> QED
      BY <3>1, <3>2
  <2>5. ASSUME NEW i \in DOMAIN files' PROVE files'[i].by \in Sent' /\ Settled(files[i].by)'
    <3>1. CASE i \in DOMAIN files /\ files'[i] = files[i]
      <4>1. PICK m \in Sent : m = files[i].by /\ Settled(m)'
        BY <1>r, <2>3, <3>1
      <4> QED
        BY <2>1, <3>1, <4>1 DEF Settled
    <3>2. CASE ~(i \in DOMAIN files /\ files'[i] = files[i])
      <4>1. /\ AddArtifact(n)
            /\ files' = Append(files, [content |-> ContentOf(n), by |-> n])
        BY <1>0, <1>3, <2>5, <3>2, FilesChange
      <4>2. PICK row : files' = Append(files, row) /\ row.by = n
        BY <4>1
      <4>3. files'[i] = row
        BY <1>0, <2>5, <3>2, <4>2, FilesGrow
      <4>4. Settled(n)'
        <5>1. status[n] = 0
          BY <1>0, <1>3, HandlerStep DEF Stages, StageOf
        <5>2. \/ pc'[n] = "link" /\ status'[n] = status[n]
              \/ pc'[n] = "answered" /\ status'[n] = 200
          BY <1>0, <4>1, AtRow
        <5> QED
          BY ONLY <5>1, <5>2 DEF Settled
      <4> QED
        BY <2>1, <4>2, <4>3, <4>4 DEF Settled
    <3> QED
      BY <3>1, <3>2
  <2> QED
    BY <2>4, <2>5
<1>4. CASE UNCHANGED <<requestVars, storeVars>>
  <2>1. UNCHANGED <<jobs, files, req, status, pc>>
    BY <1>4 DEF requestVars, storeVars
  <2> QED
    BY <1>1, <2>1 DEF Sent
<1>5. CASE Crash
  <2>1. /\ Sent' = Sent /\ UNCHANGED <<status, jobs, files>>
        /\ \A m \in Sent : pc'[m] = IF pc[m] \notin {"answered", "killed"} THEN "killed" ELSE pc[m]
    BY <1>5 DEF Crash, storeVars, Sent, Running
  <2> QED
    BY <1>1, <2>1
<1>6. CASE \E r \in Requests : Receive(r)
  BY <1>1, <1>2, <1>6
<1> QED
  BY <1>3, <1>4, <1>5, <1>6, NextKinds

\* An output is admitted only from a principal that has the task.
LEMMA AdmittedIsEntitled ==
  ASSUME Columns, Outputs, NEW r \in Requests, Admission(r) = 200, r.kind = "output"
  PROVE  /\ r.task \in Tasks
         /\ {<<r.task, PrincipalFor(r.token).name>>, <<r.task, NoName>>} \cap held # {}
<1> DEFINE name == PrincipalFor(r.token).name
<1>1. RequireTaskWorker(r.task, name) = 200
  BY DEF Admission
<1>2. /\ r.task \in Tasks /\ holder[r.task] # NoWorker
      /\ PrincipalOf[holder[r.task]] \in {NoName, name}
  BY <1>1 DEF RequireTaskWorker
<1>3. <<r.task, PrincipalOf[holder[r.task]]>> \in held
  BY <1>2 DEF Outputs
<1> QED
  BY <1>2, <1>3

\* A request that goes to its last step, the link, has made its row.
LEMMA ToLink ==
  ASSUME Columns, NEW n \in Sent, SubmitStep(n) \/ UploadStep(n) \/ Download(n), pc'[n] = "link"
  PROVE  AddArtifact(n)
<1>1. CASE FindByKey(n)
  BY <1>1, AtFind DEF Goes, Ends
<1>2. CASE InsertJob(n)
  BY <1>2, AtInsert DEF Goes, Ends
<1>3. CASE FindAgain(n)
  BY <1>3, AtFindAgain DEF Ends
<1>4. CASE WriteChunk(n)
  BY <1>4, AtWrite DEF Goes, Ends
<1>5. CASE CheckPlace(n)
  BY <1>5, AtPlace DEF Goes
<1>6. CASE DropTemp(n)
  BY <1>6, AtDrop DEF Goes
<1>7. CASE MoveTemp(n)
  BY <1>7, AtMove DEF Goes
<1>8. CASE LinkArtifact(n)
  BY <1>8, AtLink DEF Ends
<1>9. CASE Download(n)
  BY <1>9, AtLookUp DEF Ends
<1> QED
  BY <1>1, <1>2, <1>3, <1>4, <1>5, <1>6, <1>7, <1>8, <1>9 DEF SubmitStep, UploadStep, PutStream

\* Rows of the artifacts table stay as they are.
LEMMA FilesStay ==
  ASSUME Columns, NEW n \in Sent, SubmitStep(n) \/ UploadStep(n) \/ Download(n)
  PROVE  DOMAIN files \subseteq DOMAIN files' /\ \A i \in DOMAIN files : files'[i] = files[i]
<1>1. CASE files' = files
  BY <1>1
<1>2. CASE files' # files
  BY <1>2, FilesChange, FilesGrow
<1> QED
  BY <1>1, <1>2

\* Only the last step of an upload writes a link.
LEMMA LinksChange ==
  ASSUME Columns, NEW n \in Sent, SubmitStep(n) \/ UploadStep(n) \/ Download(n)
  PROVE  links' = links \/ LinkArtifact(n)
<1>1. CASE FindByKey(n) \/ FindAgain(n) \/ CheckPlace(n) \/ Download(n)
  BY <1>1 DEF FindByKey, FindAgain, CheckPlace, Download, storeVars
<1>2. CASE InsertJob(n) \/ WriteChunk(n) \/ DropTemp(n) \/ MoveTemp(n) \/ AddArtifact(n)
  BY <1>2 DEF InsertJob, WriteChunk, DropTemp, MoveTemp, AddArtifact
<1> QED
  BY <1>1, <1>2 DEF SubmitStep, UploadStep, PutStream

LinkOf(t) ==
  links[t] # 0 => LET n == files[links[t]].by
                  IN  req[n].kind = "output" /\ status[n] = 200 /\ req[n].task = t

LeasesHeld == \A t \in Tasks : holder[t] # NoWorker => <<t, PrincipalOf[holder[t]]>> \in held

LEMMA OutputsParts ==
  Outputs <=> LeasesHeld /\ (\A n \in Sent : OutputOf(n)) /\ \A t \in Tasks : LinkOf(t)
BY Zenon DEF Outputs, LeasesHeld, LinkOf

LEMMA OutputsKept ==
  ASSUME FrontInv, [FrontNext]_frontVars
  PROVE  Outputs'
<1>0. Columns /\ Columns' /\ Stages /\ Outputs
  BY ColumnsKept DEF FrontInv
<1>p. LeasesHeld /\ (\A n \in Sent : OutputOf(n)) /\ \A t \in Tasks : LinkOf(t)
  BY <1>0, OutputsParts
<1>r. \A i \in DOMAIN files : files[i].by \in Sent
  BY DEF FrontInv, Rows
<1>l. \A t \in Tasks : links[t] # 0 => links[t] \in DOMAIN files
  BY <1>0 DEF Columns
<1> SUFFICES LeasesHeld' /\ (\A m \in Sent' : OutputOf(m)') /\ \A t \in Tasks : LinkOf(t)'
  BY DEF Outputs, LeasesHeld, LinkOf
<1>1. ASSUME NEW r \in Requests, Receive(r)
      PROVE  LeasesHeld' /\ (\A m \in Sent' : OutputOf(m)') /\ \A t \in Tasks : LinkOf(t)'
  <2>0. UNCHANGED <<files, links, holder, held>>
    BY <1>1 DEF Receive, leaseVars
  <2>1. PICK n : n = Len(req) + 1
    OBVIOUS
  <2>2. PICK s : s = Admission(r)
    OBVIOUS
  <2>3. /\ Sent' = Sent \cup {n}
        /\ \A m \in Sent : /\ req'[m] = req[m] /\ pc'[m] = pc[m] /\ status'[m] = status[m]
                           /\ reply'[m] = reply[m]
        /\ req'[n] = r
        /\ pc'[n] = IF s = 200 THEN FirstStep(r) ELSE "answered"
        /\ status'[n] = IF s = 200 THEN 0 ELSE s
    BY <1>0, <1>1, <2>1, <2>2, Received, Zenon
  <2>4. LeasesHeld'
    BY <1>p, <2>0 DEF LeasesHeld
  <2>5. ASSUME NEW m \in Sent PROVE OutputOf(m)'
    <3>1. OutputOf(m)
      BY <1>p
    <3>2. /\ req'[m] = req[m] /\ pc'[m] = pc[m] /\ status'[m] = status[m] /\ reply'[m] = reply[m]
      BY <2>3
    <3> QED
      BY ONLY <2>0, <3>1, <3>2 DEF OutputOf, Entitled
  <2>6. OutputOf(n)'
    <3>1. pc'[n] # "link"
      BY <2>3, FirstStepType
    <3>2. status'[n] \in {0, 200} => s = 200
      BY <2>2, <2>3, AdmissionType
    <3>3. s = 200 /\ r.kind = "output"
            => /\ r.task \in Tasks
               /\ {<<r.task, PrincipalFor(r.token).name>>, <<r.task, NoName>>} \cap held # {}
      BY <1>0, <2>2, AdmittedIsEntitled
    <3>4. req'[n] = r
      BY <2>3
    <3> QED
      BY ONLY <2>0, <3>1, <3>2, <3>3, <3>4 DEF OutputOf, Entitled
  <2>7. ASSUME NEW t \in Tasks PROVE LinkOf(t)'
    <3>1. LinkOf(t) /\ (links[t] # 0 => files[links[t]].by \in Sent)
      BY <1>p, <1>r, <1>l
    <3>2. \A m \in Sent : req'[m] = req[m] /\ status'[m] = status[m]
      BY <2>3
    <3> QED
      BY ONLY <2>0, <3>1, <3>2 DEF LinkOf
  <2> QED
    BY <2>3, <2>4, <2>5, <2>6, <2>7
<1>2. ASSUME NEW n \in Sent, SubmitStep(n) \/ UploadStep(n) \/ Download(n)
      PROVE  LeasesHeld' /\ (\A m \in Sent' : OutputOf(m)') /\ \A t \in Tasks : LinkOf(t)'
  <2>1. /\ req' = req /\ Sent' = Sent /\ UNCHANGED <<holder, held>>
        /\ \A m \in Sent \ {n} : pc'[m] = pc[m] /\ status'[m] = status[m] /\ reply'[m] = reply[m]
    BY <1>0, <1>2, HandlerStep DEF leaseVars
  <2>2. DOMAIN files \subseteq DOMAIN files' /\ \A i \in DOMAIN files : files'[i] = files[i]
    BY <1>0, <1>2, FilesStay
  <2>3. LeasesHeld'
    BY <1>p, <2>1 DEF LeasesHeld
  <2>4. ASSUME NEW m \in Sent \ {n} PROVE OutputOf(m)'
    <3>1. OutputOf(m)
      BY <1>p
    <3>2. pc'[m] = pc[m] /\ status'[m] = status[m] /\ reply'[m] = reply[m]
      BY <2>1
    <3> QED
      BY ONLY <2>1, <2>2, <3>1, <3>2 DEF OutputOf, Entitled
  <2>5. OutputOf(n)'
    <3>1. req[n].kind = "output" => Entitled(n)
      <4>1. status[n] = 0 /\ OutputOf(n)
        BY <1>0, <1>2, <1>p, HandlerStep DEF Stages, StageOf
      <4> QED
        BY ONLY <4>1 DEF OutputOf
    <3>2. pc'[n] = "link" => reply'[n] \in DOMAIN files' /\ files'[reply'[n]].by = n
      <4>1. SUFFICES ASSUME pc'[n] = "link"
                     PROVE  reply'[n] \in DOMAIN files' /\ files'[reply'[n]].by = n
        OBVIOUS
      <4>2. AddArtifact(n)
        BY <1>0, <1>2, <4>1, ToLink
      <4>3. /\ files' = Append(files, [content |-> ContentOf(n), by |-> n])
            /\ reply'[n] = Len(files) + 1
        BY <1>0, <4>2, AtRow
      <4>4. PICK row : files' = Append(files, row) /\ row.by = n
        BY <4>3
      <4>5. Len(files) + 1 \in DOMAIN files' /\ files'[Len(files) + 1] = row
        BY <1>0, <4>4, FilesGrow
      <4> QED
        BY <4>3, <4>4, <4>5
    <3> QED
      BY ONLY <2>1, <3>1, <3>2 DEF OutputOf, Entitled
  <2>6. ASSUME NEW t \in Tasks PROVE LinkOf(t)'
    <3>1. CASE links'[t] = links[t]
      <4>1. LinkOf(t) /\ (links[t] # 0 => /\ links[t] \in DOMAIN files
                                          /\ files[links[t]].by \in Sent)
        BY <1>p, <1>r, <1>l
      <4>2. \A m \in Sent : status[m] = 200 => status'[m] = 200
        BY <1>0, <1>2, SettledStays
      <4> QED
        BY ONLY <2>1, <2>2, <3>1, <4>1, <4>2 DEF LinkOf
    <3>2. CASE links'[t] # links[t]
      <4>1. LinkArtifact(n)
        BY <1>0, <1>2, <3>2, LinksChange
      <4>2. /\ pc[n] = "link" /\ files' = files
            /\ links' = [links EXCEPT ![req[n].task] = reply[n]] /\ status'[n] = 200
        BY <1>0, <4>1, AtLink DEF Ends
      <4>3. req[n].task = t /\ links'[t] = reply[n]
        BY <1>0, <3>2, <4>2 DEF Columns
      <4>4. files[reply[n]].by = n
        BY <1>p, <4>2 DEF OutputOf
      <4>5. req[n].kind = "output"
        BY <1>0, <4>2 DEF Stages, StageOf
      <4> QED
        BY ONLY <2>1, <4>2, <4>3, <4>4, <4>5 DEF LinkOf
    <3> QED
      BY <3>1, <3>2
  <2> QED
    BY <2>1, <2>3, <2>4, <2>5, <2>6
<1>3. ASSUME NEW t \in Tasks, NEW w \in Workers \cup {NoWorker}, Move(t, w)
      PROVE  LeasesHeld' /\ (\A m \in Sent' : OutputOf(m)') /\ \A u \in Tasks : LinkOf(u)'
  <2>1. /\ UNCHANGED <<req, pc, status, reply, files, links>> /\ held \subseteq held'
        /\ holder' = [holder EXCEPT ![t] = w]
        /\ w # NoWorker => <<t, PrincipalOf[w]>> \in held'
    BY <1>3 DEF Move, requestVars, storeVars
  <2>2. LeasesHeld'
    BY <1>0, <1>p, <2>1 DEF LeasesHeld, Columns
  <2>3. ASSUME NEW m \in Sent PROVE OutputOf(m)'
    <3>1. OutputOf(m)
      BY <1>p
    <3> QED
      BY ONLY <2>1, <3>1 DEF OutputOf, Entitled
  <2>4. \A u \in Tasks : LinkOf(u)'
    BY <1>p, <2>1 DEF LinkOf
  <2> QED
    BY <2>1, <2>2, <2>3, <2>4 DEF Sent
<1>4. CASE Crash
  <2>1. /\ Sent' = Sent /\ UNCHANGED <<req, status, reply, files, links, holder, held>>
        /\ \A m \in Sent : pc'[m] = IF pc[m] \notin {"answered", "killed"} THEN "killed" ELSE pc[m]
    BY <1>4 DEF Crash, storeVars, leaseVars, Sent, Running
  <2>2. ASSUME NEW m \in Sent PROVE OutputOf(m)'
    <3>1. OutputOf(m) /\ (pc'[m] = "link" => pc[m] = "link")
      BY <1>p, <2>1
    <3> QED
      BY ONLY <2>1, <3>1 DEF OutputOf, Entitled
  <2>3. LeasesHeld' /\ \A t \in Tasks : LinkOf(t)'
    BY <1>p, <2>1 DEF LeasesHeld, LinkOf
  <2> QED
    BY <2>1, <2>2, <2>3
<1>5. CASE UNCHANGED frontVars
  BY <1>p, <1>5 DEF frontVars, requestVars, storeVars, leaseVars, LeasesHeld, OutputOf, Entitled,
                    LinkOf, Sent
<1> QED
  BY <1>1, <1>2, <1>3, <1>4, <1>5 DEF FrontNext

-----------------------------------------------------------------------------
(* The theorems                                                            *)

LEMMA FrontInvInit == ASSUME FrontInit PROVE FrontInv
<1>1. Sent = {} /\ DOMAIN jobs = {} /\ DOMAIN files = {}
  BY DEF FrontInit, Sent
<1>2. Columns
  BY <1>1, FrontAssumption DEF FrontInit, Columns
<1>3. Stages /\ Keys /\ Rows
  BY <1>1 DEF Stages, Keys, UniqueKeys, Rows
<1>4. Objects
  BY <1>1 DEF FrontInit, Objects
<1>5. Outputs
  BY <1>1 DEF FrontInit, Outputs
<1> QED
  BY <1>2, <1>3, <1>4, <1>5 DEF FrontInv

\* Requests, rows and files agree with each other in every interleaving and through
\* every restart (app.py, db.py, artifacts.py).
THEOREM FrontInvHolds == FrontSpec => []FrontInv
<1>1. FrontInit => FrontInv
  BY FrontInvInit
<1>2. FrontInv /\ [FrontNext]_frontVars => FrontInv'
  BY ColumnsKept, StagesKept, KeysKept, ObjectsKept, RowsKept, OutputsKept DEF FrontInv
<1> QED
  BY <1>1, <1>2, PTL DEF FrontSpec

\* Every column of the requests and of the store keeps its type, and only an
\* upload under way or cut off by a restart has a temporary file.
THEOREM FrontKeepsTypes == FrontSpec => []FrontTypeOK
<1>1. ASSUME FrontInv PROVE FrontTypeOK
  <2>1. Columns /\ Stages /\ Rows
    BY <1>1 DEF FrontInv
  <2>2. status \in [Sent -> {0, 200, 401, 403, 404, 409, 413, 426, 500}]
    BY <2>1 DEF Columns, Codes
  <2>3. DOMAIN temps = Sent
    BY <2>1 DEF Columns
  <2>4. \A n \in Sent : temps[n] > 0 => pc[n] \in {"write", "place", "drop", "move", "killed"}
    BY <2>1 DEF Stages, StageOf
  <2>5. \A i \in DOMAIN files : files[i].content \in Contents /\ files[i].by \in Sent
    BY <2>1, SentType DEF Rows, FileRow
  <2>6. \A j \in DOMAIN jobs : jobs[j].by \in Sent
    BY <2>1 DEF Rows
  <2> QED
    BY <2>1, <2>2, <2>3, <2>4, <2>5, <2>6 DEF FrontTypeOK, Columns
<1> QED
  BY <1>1, FrontInvHolds, PTL

\* However submissions with one key overlap, and wherever the server is killed,
\* the unique index and the second lookup answer them all with one job.
THEOREM KeyAlwaysNamesOneJob == FrontSpec => []KeyNamesOneJob
<1>1. ASSUME FrontInv PROVE KeyNamesOneJob
  <2>1. UniqueKeys /\ \A n \in Sent : KeyOf(n)
    BY <1>1 DEF FrontInv, Keys
  <2>2. ASSUME NEW n \in Sent, req[n].kind = "submit", req[n].key # NoKey, pc[n] = "answered",
               status[n] \notin {401, 403, 413, 426}
        PROVE  status[n] = 200 /\ JobsWithKey(req[n].key) = {reply[n]}
    <3>1. status[n] = 200 /\ reply[n] \in JobsWithKey(req[n].key)
      BY <2>1, <2>2 DEF KeyOf
    <3>2. \A i, j \in JobsWithKey(req[n].key) : i = j
      BY <2>1 DEF UniqueKeys, JobsWithKey
    <3> QED
      BY <3>1, <3>2
  <2> QED
    BY <2>2, Zenon DEF KeyNamesOneJob
<1> QED
  BY <1>1, FrontInvHolds, PTL

\* What the artifacts table names is on disk, whole.
THEOREM ArtifactIsAlwaysWhole == FrontSpec => []ArtifactIsWhole
<1>1. ASSUME FrontInv PROVE ArtifactIsWhole
  BY <1>1 DEF FrontInv, Objects, FileOf, Whole, ArtifactIsWhole, At
<1> QED
  BY <1>1, FrontInvHolds, PTL

\* A refused request leaves no row, no link and no file.
THEOREM RefusedAlwaysLeavesNothing == FrontSpec => []RefusedLeavesNothing
<1>1. ASSUME FrontInv PROVE RefusedLeavesNothing
  <2>1. Columns /\ Stages /\ Rows /\ Objects
    BY <1>1 DEF FrontInv
  <2>2. ASSUME NEW n \in Sent, status[n] >= 400
        PROVE  /\ temps[n] = 0
               /\ \A j \in DOMAIN jobs : jobs[j].by # n
               /\ \A i \in DOMAIN files : files[i].by # n
               /\ SizeOf[ContentOf(n)] > MaxArtifact => blobs[ContentOf(n)] = 0
    <3>1. pc[n] = "answered" /\ status[n] # 200 /\ status[n] # 0
      BY <2>1, <2>2 DEF Stages, StageOf
    <3>2. temps[n] = 0
      <4>1. ~(temps[n] > 0)
        BY <2>1, <3>1 DEF Stages, StageOf
      <4>2. temps[n] \in Nat
        BY <2>1 DEF Columns
      <4> QED
        BY <4>1, <4>2
    <3>3. /\ \A j \in DOMAIN jobs : jobs[j].by # n
          /\ \A i \in DOMAIN files : files[i].by # n
      BY <2>1, <3>1 DEF Rows
    <3>4. ContentOf(n) \in Contents /\ SizeOf[ContentOf(n)] \in Nat /\ MaxArtifact \in Nat
      BY <2>1, SentType, FrontAssumption
    <3>5. SizeOf[ContentOf(n)] > MaxArtifact => blobs[ContentOf(n)] = 0
      BY <2>1, <3>4 DEF Objects
    <3> QED
      BY <3>2, <3>3, <3>5
  <2> QED
    BY <2>2 DEF RefusedLeavesNothing
<1> QED
  BY <1>1, FrontInvHolds, PTL

\* The output linked to a task comes from a principal that has held it, however
\* often the task changed hands while the upload was read.
THEOREM LinkIsAlwaysFromAHolder == FrontSpec => []LinkIsFromAHolder
<1>1. ASSUME FrontInv PROVE LinkIsFromAHolder
  <2>1. Columns /\ Outputs /\ Rows
    BY <1>1 DEF FrontInv
  <2>2. ASSUME NEW t \in Tasks, links[t] # 0, NEW n, n = files[links[t]].by
        PROVE  /\ req[n].task = t
               /\ {<<t, PrincipalFor(req[n].token).name>>, <<t, NoName>>} \cap held # {}
    <3>1. links[t] \in DOMAIN files
      BY <2>1, <2>2 DEF Columns
    <3>2. n \in Sent
      BY <2>1, <2>2, <3>1 DEF Rows
    <3>3. req[n].kind = "output" /\ status[n] = 200 /\ req[n].task = t
      BY <2>1, <2>2 DEF Outputs
    <3>4. Entitled(n)
      BY <2>1, <3>2, <3>3 DEF Outputs, OutputOf
    <3> QED
      BY <3>3, <3>4 DEF Entitled
  <2> QED
    BY <2>2 DEF LinkIsFromAHolder
<1> QED
  BY <1>1, FrontInvHolds, PTL
=============================================================================
