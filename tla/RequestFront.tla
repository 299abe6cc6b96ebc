---------------------------- MODULE RequestFront ----------------------------
(***************************************************************************)
(* The handlers that add to the store: submit_job with an idempotency key, *)
(* the two uploads, and the ArtifactStore below them.  A handler is a      *)
(* sequence of database calls and file operations; requests interleave     *)
(* between them, and the server may be killed and restarted at any point.  *)
(***************************************************************************)
EXTENDS AccessControl, Integers

CONSTANTS
  Requests,     \* requests that clients and workers send
  Tasks, Workers, NoWorker,
  PrincipalOf,  \* workers.principal, NoName for a row of an older release
  NoName,
  Contents, SizeOf, \* what is uploaded, and its size in chunks
  MaxArtifact,  \* max_artifact_mb
  NoKey,        \* no idempotency key
  MaxRequests,  \* bound on the requests sent
  MaxMoves,     \* bound on the leases granted and lost
  MaxCrashes    \* bound on the restarts

ASSUME FrontAssumption ==
  /\ PrincipalOf \in [Workers -> STRING]
  /\ SizeOf \in [Contents -> Nat \ {0}]
  /\ \A r \in Requests : r.content \in Contents
  /\ {MaxArtifact, MaxRequests, MaxMoves, MaxCrashes} \subseteq Nat

VARIABLES
  req,      \* the requests so far; n below is an index of this sequence
  pc,       \* the next step of the handler of n, or "answered" or "killed"
  status,   \* the status n was answered with, 0 before
  reply,    \* the job or the artifact named in the answer, 0 if none
  jobs,     \* the jobs table: key, owner and the request that made the row
  blobs,    \* objects/: the chunks in the file at the address of a content
  temps,    \* temporary files: the chunks in that of n, 0 if there is none
  files,    \* the artifacts table: content, and the request that made the row
  links,    \* job_artifacts of a task: the artifact, 0 if none
  holder,   \* tasks.worker_id
  held,     \* the <<task, principal>> pairs of all leases so far
  moves, crashes

requestVars == <<req, pc, status, reply>>
storeVars   == <<jobs, blobs, temps, files, links>>
leaseVars   == <<holder, held, moves>>
frontVars   == <<requestVars, storeVars, leaseVars, crashes>>

Sent == DOMAIN req
Running(n) == pc[n] \notin {"answered", "killed"}

-----------------------------------------------------------------------------
(* Admission                                                               *)

\* A fault to detect: any executor may upload for any leased task.
RequireTaskWorker_AnyExecutor(t, name) == IF holder[t] = NoWorker THEN 409 ELSE 200

\* _require_task_worker_principal
RequireTaskWorker(t, name) ==
  IF t \notin Tasks THEN 404
  ELSE IF holder[t] = NoWorker THEN 409
  ELSE IF PrincipalOf[holder[t]] \notin {NoName, name} THEN 403 ELSE 200

RightFor == [submit |-> "submit", input |-> "submit", output |-> "execute", download |-> "read"]

FirstStep(r) ==
  CASE r.kind = "submit"   -> IF r.key = NoKey THEN "insert" ELSE "find"
    [] r.kind = "download" -> "lookup"
    [] OTHER               -> "write"

\* The checks in the order they are made: middleware, credential, task.
Admission(r) ==
  LET guard == Guard(r)
      right == CheckRight(r.token, RightFor[r.kind])
  IN  IF guard # 200 THEN guard
      ELSE IF right # 200 THEN right
      ELSE IF r.kind = "output" THEN RequireTaskWorker(r.task, PrincipalFor(r.token).name)
      ELSE 200

Receive(r) ==
  LET s == Admission(r)
  IN  /\ Len(req) < MaxRequests
      /\ req' = Append(req, r)
      /\ pc' = Append(pc, IF s = 200 THEN FirstStep(r) ELSE "answered")
      /\ status' = Append(status, IF s = 200 THEN 0 ELSE s)
      /\ reply' = Append(reply, 0)
      /\ temps' = Append(temps, IF s = 200 /\ FirstStep(r) = "write" THEN 1 ELSE 0)
      /\ UNCHANGED <<jobs, blobs, files, links, leaseVars, crashes>>

At(n, step) == n \in Sent /\ pc[n] = step

Answer(n, s, id) ==
  /\ pc' = [pc EXCEPT ![n] = "answered"]
  /\ status' = [status EXCEPT ![n] = s]
  /\ reply' = [reply EXCEPT ![n] = id]
  /\ UNCHANGED req

Continue(n, step) ==
  /\ pc' = [pc EXCEPT ![n] = step]
  /\ UNCHANGED <<req, status, reply>>

-----------------------------------------------------------------------------
(* submit_job                                                              *)

JobsWithKey(key) == {j \in DOMAIN jobs : key # NoKey /\ jobs[j].key = key}

\* find_job_by_idempotency
FindByKey(n) ==
  LET found == JobsWithKey(req[n].key)
  IN  /\ At(n, "find")
      /\ IF found = {} THEN Continue(n, "insert") ELSE Answer(n, 200, Max(found))
      /\ UNCHANGED <<storeVars, leaseVars, crashes>>

\* A fault to detect: the table has no unique index on the key.
KeyTaken_NoIndex(key) == FALSE

KeyTaken(key) == JobsWithKey(key) # {}

\* create_job_with_tasks: the row and its tasks, or IntegrityError.
InsertJob(n) ==
  /\ At(n, "insert")
  /\ IF KeyTaken(req[n].key)
     THEN Continue(n, "refind") /\ UNCHANGED jobs
     ELSE /\ jobs' = Append(jobs, [key   |-> req[n].key,
                                   owner |-> PrincipalFor(req[n].token).name,
                                   by    |-> n])
          /\ Answer(n, 200, Len(jobs) + 1)
  /\ UNCHANGED <<blobs, temps, files, links, leaseVars, crashes>>

\* The duplicate has won the race: answer with its job.
FindAgain(n) ==
  LET found == JobsWithKey(req[n].key)
  IN  /\ At(n, "refind")
      /\ IF found = {} THEN Answer(n, 500, 0) ELSE Answer(n, 200, Max(found))
      /\ UNCHANGED <<storeVars, leaseVars, crashes>>

-----------------------------------------------------------------------------
(* put_stream: into a temporary file, then into place.  A file of k chunks *)
(* has temps = k + 1.                                                      *)

Written(n) == temps[n] - 1
ContentOf(n) == req[n].content

\* A fault to detect: a refused upload leaves its temporary file.
TooLarge_KeepTemp(n) == Answer(n, 413, 0) /\ UNCHANGED temps

\* ArtifactTooLarge: the temporary file is removed.
TooLarge(n) == Answer(n, 413, 0) /\ temps' = [temps EXCEPT ![n] = 0]

WriteChunk(n) ==
  /\ At(n, "write")
  /\ IF Written(n) = SizeOf[ContentOf(n)]
     THEN Continue(n, "place") /\ UNCHANGED temps
     ELSE IF Written(n) + 1 > MaxArtifact THEN TooLarge(n)
     ELSE temps' = [temps EXCEPT ![n] = @ + 1] /\ UNCHANGED requestVars
  /\ UNCHANGED <<jobs, blobs, files, links, leaseVars, crashes>>

\* The bytes may be there already, from an upload of the same content.
CheckPlace(n) ==
  /\ At(n, "place")
  /\ Continue(n, IF blobs[ContentOf(n)] > 0 THEN "drop" ELSE "move")
  /\ UNCHANGED <<storeVars, leaseVars, crashes>>

\* A fault to detect: the superfluous temporary file stays.
DropTemp_Forgotten(n) ==
  /\ At(n, "drop")
  /\ Continue(n, "row")
  /\ UNCHANGED <<storeVars, leaseVars, crashes>>

DropTemp(n) ==
  /\ At(n, "drop")
  /\ temps' = [temps EXCEPT ![n] = 0]
  /\ Continue(n, "row")
  /\ UNCHANGED <<jobs, blobs, files, links, leaseVars, crashes>>

\* A fault to detect: the bytes are copied into place chunk by chunk.
MoveTemp_Copy(n) ==
  /\ At(n, "move")
  /\ IF blobs[ContentOf(n)] < Written(n)
     THEN /\ blobs' = [blobs EXCEPT ![ContentOf(n)] = @ + 1]
          /\ UNCHANGED <<requestVars, temps>>
     ELSE /\ temps' = [temps EXCEPT ![n] = 0]
          /\ Continue(n, "row")
          /\ UNCHANGED blobs
  /\ UNCHANGED <<jobs, files, links, leaseVars, crashes>>

\* os.replace is atomic, and replaces what another upload moved there meanwhile.
MoveTemp(n) ==
  /\ At(n, "move")
  /\ blobs' = [blobs EXCEPT ![ContentOf(n)] = Written(n)]
  /\ temps' = [temps EXCEPT ![n] = 0]
  /\ Continue(n, "row")
  /\ UNCHANGED <<jobs, files, links, leaseVars, crashes>>

-----------------------------------------------------------------------------
(* upload_input_artifact, upload_artifact and download_artifact            *)

AddArtifact(n) ==
  /\ At(n, "row")
  /\ files' = Append(files, [content |-> ContentOf(n), by |-> n])
  /\ IF req[n].kind = "output"
     THEN /\ pc' = [pc EXCEPT ![n] = "link"]
          /\ reply' = [reply EXCEPT ![n] = Len(files) + 1]
          /\ UNCHANGED <<req, status>>
     ELSE Answer(n, 200, Len(files) + 1)
  /\ UNCHANGED <<jobs, blobs, temps, links, leaseVars, crashes>>

\* The task may have changed hands since the upload was admitted; the row of its
\* job, task and role is replaced all the same.
LinkArtifact(n) ==
  /\ At(n, "link")
  /\ links' = [links EXCEPT ![req[n].task] = reply[n]]
  /\ Answer(n, 200, reply[n])
  /\ UNCHANGED <<jobs, blobs, temps, files, leaseVars, crashes>>

Download(n) ==
  /\ At(n, "lookup")
  /\ IF req[n].file \in DOMAIN files THEN Answer(n, 200, req[n].file) ELSE Answer(n, 404, 0)
  /\ UNCHANGED <<storeVars, leaseVars, crashes>>

-----------------------------------------------------------------------------
(* The queue and the process                                               *)

\* A task is leased, or lost.
Move(t, w) ==
  /\ moves < MaxMoves
  /\ moves' = moves + 1
  /\ holder[t] # w
  /\ NoWorker \in {w, holder[t]}
  /\ holder' = [holder EXCEPT ![t] = w]
  /\ held' = IF w = NoWorker THEN held ELSE held \cup {<<t, PrincipalOf[w]>>}
  /\ UNCHANGED <<requestVars, storeVars, crashes>>

\* The files and the committed rows stay, temporary files with them.
Crash ==
  /\ crashes < MaxCrashes
  /\ crashes' = crashes + 1
  /\ pc' = [n \in Sent |-> IF Running(n) THEN "killed" ELSE pc[n]]
  /\ UNCHANGED <<req, status, reply, storeVars, leaseVars>>

-----------------------------------------------------------------------------
(* Specification                                                           *)

FrontInit ==
  /\ req = <<>> /\ pc = <<>> /\ status = <<>> /\ reply = <<>>
  /\ jobs = <<>> /\ files = <<>> /\ temps = <<>>
  /\ blobs = [c \in Contents |-> 0]
  /\ links = [t \in Tasks |-> 0]
  /\ holder = [t \in Tasks |-> NoWorker]
  /\ held = {}
  /\ moves = 0 /\ crashes = 0

SubmitStep(n) == FindByKey(n) \/ InsertJob(n) \/ FindAgain(n)

PutStream(n) == WriteChunk(n) \/ CheckPlace(n) \/ DropTemp(n) \/ MoveTemp(n)

UploadStep(n) == PutStream(n) \/ AddArtifact(n) \/ LinkArtifact(n)

FrontNext ==
  \/ \E r \in Requests : Receive(r)
  \/ \E n \in Sent : SubmitStep(n) \/ UploadStep(n) \/ Download(n)
  \/ \E t \in Tasks, w \in Workers \cup {NoWorker} : Move(t, w)
  \/ Crash

FrontSpec == FrontInit /\ [][FrontNext]_frontVars

-----------------------------------------------------------------------------
(* Properties                                                              *)

Steps == {"find", "insert", "refind", "write", "place", "drop", "move", "row", "link",
          "lookup", "answered", "killed"}

\* Every column holds a value of its type, and only an upload under way or cut
\* off by a restart has a temporary file.
FrontTypeOK ==
  /\ req \in Seq(Requests) /\ Len(req) =< MaxRequests
  /\ pc \in [Sent -> Steps]
  /\ status \in [Sent -> {0, 200, 401, 403, 404, 409, 413, 426, 500}]
  /\ reply \in [Sent -> Nat]
  /\ DOMAIN temps = Sent
  /\ \A n \in Sent : temps[n] > 0 => pc[n] \in {"write", "place", "drop", "move", "killed"}
  /\ \A j \in DOMAIN jobs : jobs[j].by \in Sent
  /\ \A i \in DOMAIN files : files[i].content \in Contents /\ files[i].by \in Sent
  /\ blobs \in [Contents -> Nat]
  /\ links \in [Tasks -> {0} \cup DOMAIN files]
  /\ holder \in [Tasks -> Workers \cup {NoWorker}]
  /\ moves \in 0..MaxMoves /\ crashes \in 0..MaxCrashes

\* An idempotency key names one job: however the submissions with that key
\* overlap, and although the server was killed between them, each one that was
\* admitted and answered is answered with success and with the same job.
KeyNamesOneJob ==
  \A n \in Sent :
    (req[n].kind = "submit" /\ req[n].key # NoKey /\ pc[n] = "answered"
       /\ status[n] \notin {401, 403, 413, 426})
      => /\ status[n] = 200
         /\ JobsWithKey(req[n].key) = {reply[n]}

\* What the tables name is on disk, whole, under the address of its content:
\* with uploads of the same content racing to place it, and cut off anywhere.
ArtifactIsWhole ==
  /\ \A i \in DOMAIN files : blobs[files[i].content] = SizeOf[files[i].content]
  /\ \A n \in Sent : At(n, "row") => blobs[ContentOf(n)] = SizeOf[ContentOf(n)]

\* A request that is refused, at the door or in the middle of its upload, leaves
\* no row, no link and no file.
RefusedLeavesNothing ==
  \A n \in {m \in Sent : status[m] >= 400} :
    /\ temps[n] = 0
    /\ \A j \in DOMAIN jobs : jobs[j].by # n
    /\ \A i \in DOMAIN files : files[i].by # n
    /\ SizeOf[ContentOf(n)] > MaxArtifact => blobs[ContentOf(n)] = 0

\* The output linked to a task comes from a principal that has held the task,
\* although leases come and go while the upload is read.  It need not be the
\* present holder: see LinkArtifact.
LinkIsFromAHolder ==
  \A t \in Tasks :
    links[t] # 0 =>
      LET n == files[links[t]].by
      IN  /\ req[n].task = t
          /\ {<<t, PrincipalFor(req[n].token).name>>, <<t, NoName>>} \cap held # {}

=============================================================================
