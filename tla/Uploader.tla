------------------------------ MODULE Uploader ------------------------------
(***************************************************************************)
(* The multipart upload of a file to S3                                    *)
(* (tools/filesystem/internal/s3blob/s3/uploader.go).  Workers take the    *)
(* chunks of the payload in turn, send them as numbered parts and list     *)
(* what they have sent; the upload is completed with that list, or aborted *)
(* when a worker fails.  Reads and requests fail, and the answer to a      *)
(* request may be lost after S3 has done what it asked.                    *)
(***************************************************************************)
EXTENDS Integers

CONSTANTS
  Workers,    \* the goroutines of multipartUpload
  First,      \* the one that sends the part read before the upload began
  MaxChunks   \* bound: chunks in the payload

\* At least one worker besides the first reads on to the end of the payload.
ConstantsAssumption ==
  /\ First \in Workers /\ Workers # {First}
  /\ MaxChunks \in Nat

VARIABLES
  size,           \* chunks in the payload; the last one may be short
  phase,          \* init, parts, finish, abort, ended or abandoned (the abort failed)
  pos,            \* chunks read from the payload
  lastPartNumber,
  pc,             \* each worker: idle, next, send, list, done or failed
  part,           \* the part it holds: its number and the chunk
  uploadedParts,  \* the parts listed
  stored,         \* the parts S3 has for the upload
  object,         \* the object S3 has: the parts it was made of, or NoObject
  result          \* of Upload: none, ok or error

vars == <<size, phase, pos, lastPartNumber, pc, part, uploadedParts, stored, object, result>>

NoObject == {}
NoPart == [num |-> 0, chunk |-> 0]
Parts == [num : Nat, chunk : Nat]

\* The payload as parts in its order.
Payload == {[num |-> i, chunk |-> i] : i \in 1..size}

Init ==
  /\ size \in 0..MaxChunks
  /\ phase = "init" /\ pos = 0 /\ lastPartNumber = 0
  /\ pc = [w \in Workers |-> "idle"] /\ part = [w \in Workers |-> NoPart]
  /\ uploadedParts = {} /\ stored = {} /\ object = NoObject /\ result = "none"

GoTo(w, s) == pc' = [pc EXCEPT ![w] = s]

-----------------------------------------------------------------------------
(* Upload *)

\* The payload is shorter than a part: one request, which S3 may have carried out
\* though it failed.
SingleUpload(done, ok) ==
  /\ phase = "init" /\ size <= 1 /\ (ok => done)
  /\ object' = IF done THEN Payload ELSE object
  /\ pos' = size /\ lastPartNumber' = lastPartNumber + 1
  /\ result' = IF ok THEN "ok" ELSE "error"
  /\ phase' = "ended"
  /\ UNCHANGED <<size, pc, part, uploadedParts, stored>>

\* The first part is read and the upload initiated.
MultipartInit ==
  /\ phase = "init" /\ size >= 1
  /\ pos' = 1 /\ lastPartNumber' = 1
  /\ part' = [part EXCEPT ![First] = [num |-> 1, chunk |-> 1]]
  /\ pc' = [w \in Workers |-> IF w = First THEN "send" ELSE "next"]
  /\ phase' = "parts"
  /\ UNCHANGED <<size, uploadedParts, stored, object, result>>

\* The first read fails, or the upload cannot be initiated: there is nothing to abort.
InitFails ==
  /\ phase = "init"
  /\ phase' = "ended" /\ result' = "error"
  /\ UNCHANGED <<size, pos, lastPartNumber, pc, part, uploadedParts, stored, object>>

-----------------------------------------------------------------------------
(* The workers *)

\* nextPart: reading a chunk and numbering it is one critical section.  At the end
\* of the payload the worker is done.
NextPart(w) ==
  /\ pc[w] = "next"
  /\ lastPartNumber' = lastPartNumber + 1
  /\ IF pos < size
     THEN /\ pos' = pos + 1
          /\ part' = [part EXCEPT ![w] = [num |-> lastPartNumber + 1, chunk |-> pos + 1]]
          /\ GoTo(w, "send")
     ELSE GoTo(w, "done") /\ UNCHANGED <<pos, part>>
  /\ UNCHANGED <<size, phase, uploadedParts, stored, object, result>>

ReadFails(w) ==
  /\ pc[w] = "next"
  /\ lastPartNumber' = lastPartNumber + 1
  /\ GoTo(w, "failed")
  /\ UNCHANGED <<size, phase, pos, part, uploadedParts, stored, object, result>>

SendAsLast(w) ==  \* mutant: the number is read when the part is sent
  /\ pc[w] = "send"
  /\ stored' = {s \in stored : s.num # lastPartNumber}
               \cup {[part[w] EXCEPT !.num = lastPartNumber]}
  /\ part' = [part EXCEPT ![w].num = lastPartNumber]
  /\ GoTo(w, "list")
  /\ UNCHANGED <<size, phase, pos, lastPartNumber, uploadedParts, object, result>>

\* uploadPart
Send(w) ==
  /\ pc[w] = "send"
  /\ stored' = stored \cup {part[w]}
  /\ GoTo(w, "list")
  /\ UNCHANGED <<size, phase, pos, lastPartNumber, part, uploadedParts, object, result>>

\* S3 may have the part all the same.
SendFails(w) ==
  /\ pc[w] = "send"
  /\ stored' \in {stored, stored \cup {part[w]}}
  /\ GoTo(w, "failed")
  /\ UNCHANGED <<size, phase, pos, lastPartNumber, part, uploadedParts, object, result>>

\* The part is listed; the first worker sends one part only.
ListPart(w) ==
  /\ pc[w] = "list"
  /\ uploadedParts' = uploadedParts \cup {part[w]}
  /\ GoTo(w, IF w = First THEN "done" ELSE "next")
  /\ UNCHANGED <<size, phase, pos, lastPartNumber, part, stored, object, result>>

WaitForFirstError ==  \* mutant: the group has a context, whose end is awaited
  /\ phase = "parts"
  /\ \/ (\E w \in Workers : pc[w] = "failed") /\ phase' = "abort"
     \/ (\A w \in Workers : pc[w] = "done") /\ phase' = "finish"
  /\ UNCHANGED <<size, pos, lastPartNumber, pc, part, uploadedParts, stored, object, result>>

\* g.Wait: all workers have ended, also when one has failed long ago.
Wait ==
  /\ phase = "parts" /\ \A w \in Workers : pc[w] \in {"done", "failed"}
  /\ phase' = IF \E w \in Workers : pc[w] = "failed" THEN "abort" ELSE "finish"
  /\ UNCHANGED <<size, pos, lastPartNumber, pc, part, uploadedParts, stored, object, result>>

-----------------------------------------------------------------------------
(* The end *)

\* multipartComplete: S3 joins the listed parts in the order of their numbers.
MultipartComplete(done, ok) ==
  /\ phase = "finish" /\ (ok => done)
  /\ object' = IF done THEN uploadedParts ELSE object
  /\ stored' = IF done THEN {} ELSE stored
  /\ result' = IF ok THEN "ok" ELSE "error"
  /\ phase' = IF ok THEN "ended" ELSE "abort"
  /\ UNCHANGED <<size, pos, lastPartNumber, pc, part, uploadedParts>>

\* multipartAbort, with a context of its own if the caller's is over.
MultipartAbort(ok) ==
  /\ phase = "abort"
  /\ stored' \in IF ok THEN {{}} ELSE {{}, stored}
  /\ result' = "error"
  /\ phase' = IF ok THEN "ended" ELSE "abandoned"
  /\ UNCHANGED <<size, pos, lastPartNumber, pc, part, uploadedParts, object>>

-----------------------------------------------------------------------------
WorkerStep(w) == NextPart(w) \/ ReadFails(w) \/ Send(w) \/ SendFails(w) \/ ListPart(w)

Next ==
  \/ \E done, ok \in BOOLEAN : SingleUpload(done, ok) \/ MultipartComplete(done, ok)
  \/ MultipartInit \/ InitFails
  \/ \E w \in Workers : WorkerStep(w)
  \/ Wait
  \/ \E ok \in BOOLEAN : MultipartAbort(ok)

Spec == Init /\ [][Next]_vars

-----------------------------------------------------------------------------
\* The type invariant.
TypeOK ==
  /\ size \in 0..MaxChunks
  /\ phase \in {"init", "parts", "finish", "abort", "ended", "abandoned"}
  /\ pos \in 0..size /\ lastPartNumber \in Nat
  /\ pc \in [Workers -> {"idle", "next", "send", "list", "done", "failed"}]
  /\ part \in [Workers -> Parts \cup {NoPart}]
  /\ uploadedParts \subseteq Parts /\ stored \subseteq Parts
  /\ object \subseteq Parts /\ result \in {"none", "ok", "error"}

\* uploader.go:62-106: an object that S3 has, also when the answer was lost, is the
\* whole payload in its order, whatever the workers' order was, and Upload succeeds
\* only with it.
UploadIsWhole ==
  /\ object # NoObject => object = Payload
  /\ result = "ok" => object = Payload

\* When Upload has returned, and the abort of a failed upload has succeeded, S3
\* keeps no part of it: no worker is left that sends another one.
NothingLeftAtS3 == phase = "ended" => stored = {}

=============================================================================
