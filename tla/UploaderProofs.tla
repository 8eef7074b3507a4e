--------------------------- MODULE UploaderProofs ---------------------------
(***************************************************************************)
(* The objects that uploads make are whole, for payloads of any length and *)
(* any number of workers.  As long as no worker has failed the parts that  *)
(* are listed or in a worker's hands are exactly those read so far, with   *)
(* their own numbers, and a worker that is done has seen the end of the    *)
(* payload.                                                                *)
(***************************************************************************)
EXTENDS Uploader, TLAPS

Own(i) == [num |-> i, chunk |-> i]
NobodyFailed == \A w \in Workers : pc[w] # "failed"
Holding(w) == pc[w] \in {"send", "list"}

\* Nothing has been done yet.
Fresh ==
  phase = "init" =>
    /\ pos = 0 /\ lastPartNumber = 0 /\ uploadedParts = {} /\ stored = {}
    /\ object = NoObject /\ result = "none" /\ \A w \in Workers : pc[w] = "idle"

\* Numbers follow the chunks until the payload has been read.
Numbered == NobodyFailed /\ pos < size => lastPartNumber = pos

\* Every part that was read is listed or in somebody's hands, under its number.
Accounted ==
  NobodyFailed =>
    /\ \A w \in Workers : Holding(w) => \E i \in 1..pos : part[w] = Own(i)
    /\ uploadedParts \subseteq {Own(i) : i \in 1..pos}
    /\ \A i \in 1..pos : Own(i) \in uploadedParts
                         \/ phase = "ended"
                         \/ \E w \in Workers : Holding(w) /\ part[w] = Own(i)

\* Who has stopped reading without a failure has seen the end.
EndSeen == \A w \in Workers \ {First} : pc[w] = "done" => pos = size

\* Once the workers have been waited for none of them works.
Waited ==
  /\ phase \in {"finish", "abort", "abandoned"} => \A w \in Workers : pc[w] \in {"done", "failed"}
  /\ phase = "ended" => stored = {} /\ \A w \in Workers : pc[w] \in {"idle", "done", "failed"}

\* What is completed is the payload.
Whole ==
  /\ phase = "finish" => NobodyFailed /\ uploadedParts = Payload
  /\ object \in {NoObject, Payload}
  /\ result = "ok" => object = Payload
  /\ phase \in {"init", "parts", "finish"} => result = "none"

IInv == TypeOK /\ Fresh /\ Numbered /\ Accounted /\ EndSeen /\ Waited /\ Whole
-----------------------------------------------------------------------------
\* The invariant holds at the start.
LEMMA InitInv == ConstantsAssumption /\ Init => IInv
  <1> SUFFICES ASSUME ConstantsAssumption, Init PROVE IInv
    OBVIOUS
  <1>1. TypeOK
    BY DEF ConstantsAssumption, Init, TypeOK, NoObject
  <1>2. Fresh /\ Numbered /\ EndSeen /\ Waited
    BY DEF Init, Fresh, Numbered, EndSeen, Waited, NobodyFailed
  <1>3. Accounted
    BY DEF Init, Accounted, Holding
  <1>4. Whole
    BY DEF Init, Whole, NoObject
  <1> QED BY <1>1, <1>2, <1>3, <1>4 DEF IInv

\* A worker works only while the parts are sent.
LEMMA WorkingPhase ==
  ASSUME IInv, NEW w \in Workers, pc[w] \in {"next", "send", "list"}
  PROVE  phase = "parts"
  BY DEF IInv, TypeOK, Fresh, Waited

\* The parts of the payload are parts.
LEMMA OwnIsPart == ASSUME NEW i \in Nat PROVE Own(i) \in Parts
  BY DEF Own, Parts

\* Before the workers.
LEMMA BeginInv ==
  ASSUME ConstantsAssumption, IInv, MultipartInit
  PROVE  IInv'
  <1> USE DEF IInv
  <1>1. TypeOK'
    <2>1. [num |-> 1, chunk |-> 1] \in Parts
      BY DEF Parts
    <2> QED BY <2>1 DEF ConstantsAssumption, MultipartInit, TypeOK
  <1>2. Fresh' /\ EndSeen' /\ Waited' /\ Whole' /\ Numbered'
    BY DEF ConstantsAssumption, MultipartInit, TypeOK, Fresh, Numbered, EndSeen, Waited, Whole,
           NobodyFailed, Payload
  <1>3. Accounted'
    <2>1. pos' = 1 /\ part'[First] = Own(1) /\ Holding(First)'
      BY DEF ConstantsAssumption, MultipartInit, TypeOK, Own, Holding
    <2>2. \A w \in Workers : Holding(w)' => w = First
      BY DEF MultipartInit, Holding
    <2>3. uploadedParts' = {}
      BY DEF MultipartInit, Fresh
    <2> QED BY <2>1, <2>2, <2>3 DEF ConstantsAssumption, Accounted
  <1> QED BY <1>1, <1>2, <1>3

\* An upload without workers, one that could not begin, and the end of the others.
LEMMA EndInv ==
  ASSUME IInv, NEW done \in BOOLEAN, NEW ok \in BOOLEAN,
         \/ SingleUpload(done, ok) \/ InitFails
         \/ MultipartComplete(done, ok) \/ MultipartAbort(ok)
  PROVE  IInv'
  <1> USE DEF IInv
  <1>1. \A i \in 1..size : [num |-> i, chunk |-> i] \in Parts
    BY DEF Parts
  <1>2. CASE SingleUpload(done, ok)
    <2>1. TypeOK'
      BY <1>1, <1>2 DEF SingleUpload, TypeOK, Payload
    <2>2. Fresh' /\ Numbered' /\ EndSeen' /\ Waited' /\ Whole'
      BY <1>2 DEF SingleUpload, TypeOK, Fresh, Numbered, EndSeen, Waited, Whole, Payload
    <2>3. Accounted'
      BY <1>2 DEF SingleUpload, Fresh, Accounted, Holding, NobodyFailed
    <2> QED BY <2>1, <2>2, <2>3
  <1>3. CASE InitFails
    <2>1. TypeOK' /\ Fresh' /\ Numbered' /\ EndSeen' /\ Waited' /\ Whole'
      BY <1>3 DEF InitFails, TypeOK, Fresh, Numbered, EndSeen, Waited, Whole, NobodyFailed, Payload
    <2>2. Accounted'
      BY <1>3 DEF InitFails, Fresh, Accounted, Holding, NobodyFailed
    <2> QED BY <2>1, <2>2
  <1>4. CASE MultipartComplete(done, ok)
    <2>1. TypeOK' /\ Fresh' /\ Numbered' /\ EndSeen'
      BY <1>4 DEF MultipartComplete, TypeOK, Fresh, Numbered, EndSeen, NobodyFailed
    <2>2. Waited' /\ Whole'
      BY <1>4 DEF MultipartComplete, TypeOK, Waited, Whole, Payload, NobodyFailed
    <2>3. Accounted'
      BY <1>4 DEF MultipartComplete, Accounted, Holding, NobodyFailed
    <2> QED BY <2>1, <2>2, <2>3
  <1>5. CASE MultipartAbort(ok)
    <2>1. TypeOK' /\ Fresh' /\ Numbered' /\ EndSeen'
      BY <1>5 DEF MultipartAbort, TypeOK, Fresh, Numbered, EndSeen, NobodyFailed
    <2>2. Waited' /\ Whole'
      BY <1>5 DEF MultipartAbort, TypeOK, Waited, Whole, Payload, NobodyFailed
    <2>3. Accounted'
      BY <1>5 DEF MultipartAbort, Accounted, Holding, NobodyFailed
    <2> QED BY <2>1, <2>2, <2>3
  <1> QED BY <1>2, <1>3, <1>4, <1>5

\* A worker that fails spoils the upload: nothing is claimed of it any more.
LEMMA FailInv ==
  ASSUME IInv, NEW w \in Workers, ReadFails(w) \/ SendFails(w)
  PROVE  IInv'
  <1> USE DEF IInv
  <1>1. phase = "parts"
    BY WorkingPhase DEF ReadFails, SendFails
  <1>2. pc'[w] = "failed" /\ ~NobodyFailed'
    BY DEF ReadFails, SendFails, GoTo, TypeOK, NobodyFailed
  <1>3. TypeOK'
    <2>1. CASE ReadFails(w)
      BY <2>1 DEF ReadFails, GoTo, TypeOK
    <2>2. CASE SendFails(w)
      <3>1. stored' \subseteq Parts
        BY <2>2 DEF SendFails, TypeOK, Accounted, Parts, NoPart
      <3> QED BY <2>2, <3>1 DEF SendFails, GoTo, TypeOK
    <2> QED BY <2>1, <2>2
  <1>4. Fresh' /\ Numbered' /\ EndSeen' /\ Waited' /\ Accounted'
    BY <1>1, <1>2 DEF ReadFails, SendFails, GoTo, TypeOK, Fresh, Numbered, EndSeen, Waited, Accounted
  <1>5. Whole'
    BY <1>1, <1>2 DEF ReadFails, SendFails, Whole, Payload
  <1> QED BY <1>3, <1>4, <1>5
-------------------------------------------------------------------------
\* A worker takes the next chunk, or sees that there is none.
LEMMA NextPartInv ==
  ASSUME IInv, NEW w \in Workers, NextPart(w)
  PROVE  IInv'
  <1> USE DEF IInv
  <1>1. phase = "parts"
    BY WorkingPhase DEF NextPart
  <1>2. CASE pos < size
    <2>1. /\ pos' = pos + 1 /\ lastPartNumber' = lastPartNumber + 1
          /\ part' = [part EXCEPT ![w] = [num |-> lastPartNumber + 1, chunk |-> pos + 1]]
          /\ pc' = [pc EXCEPT ![w] = "send"]
          /\ UNCHANGED <<size, phase, uploadedParts, stored, object, result>>
      BY <1>2 DEF NextPart, GoTo
    <2>2. TypeOK'
      <3>1. [num |-> lastPartNumber + 1, chunk |-> pos + 1] \in Parts
        BY DEF Parts, TypeOK
      <3> QED BY <1>2, <2>1, <3>1 DEF TypeOK
    <2>3. NobodyFailed' => NobodyFailed /\ lastPartNumber = pos
      BY <1>2, <2>1 DEF TypeOK, NobodyFailed, Numbered, NextPart
    <2>4. Fresh' /\ Numbered' /\ Waited' /\ Whole'
      BY <1>1, <2>1, <2>3 DEF TypeOK, Fresh, Numbered, Waited, Whole, Payload
    <2>5. EndSeen'
      BY <1>2, <2>1 DEF TypeOK, EndSeen
    <2>6. Accounted'
      <3> SUFFICES ASSUME NobodyFailed' PROVE
            /\ \A v \in Workers : Holding(v)' => \E i \in 1..pos' : part'[v] = Own(i)
            /\ uploadedParts' \subseteq {Own(i) : i \in 1..pos'}
            /\ \A i \in 1..pos' : Own(i) \in uploadedParts'
                                  \/ \E v \in Workers : Holding(v)' /\ part'[v] = Own(i)
        BY DEF Accounted
      <3>1. part'[w] = Own(pos') /\ Holding(w)'
        BY <2>1, <2>3 DEF TypeOK, Own, Holding
      <3>2. \A v \in Workers \ {w} : part'[v] = part[v] /\ (Holding(v)' <=> Holding(v))
        BY <2>1 DEF TypeOK, Holding
      <3>3. 1..pos' = 1..pos \cup {pos'} /\ pos' \in 1..pos'
        BY <2>1 DEF TypeOK
      <3>4. ~Holding(w)
        BY DEF NextPart, Holding
      <3>5. \A v \in Workers : Holding(v)' => \E i \in 1..pos' : part'[v] = Own(i)
        BY <2>3, <3>1, <3>2, <3>3 DEF Accounted
      <3>6. uploadedParts' \subseteq {Own(i) : i \in 1..pos'}
        BY <2>1, <2>3, <3>3 DEF Accounted
      <3>7. \A i \in 1..pos' : Own(i) \in uploadedParts'
                               \/ \E v \in Workers : Holding(v)' /\ part'[v] = Own(i)
        BY <1>1, <2>1, <2>3, <3>1, <3>2, <3>3, <3>4 DEF Accounted
      <3> QED BY <3>5, <3>6, <3>7
    <2> QED BY <2>2, <2>4, <2>5, <2>6
  <1>3. CASE ~(pos < size)
    <2>1. /\ lastPartNumber' = lastPartNumber + 1 /\ pc' = [pc EXCEPT ![w] = "done"]
          /\ UNCHANGED <<size, phase, pos, part, uploadedParts, stored, object, result>>
      BY <1>3 DEF NextPart, GoTo
    <2>2. pos = size /\ pc[w] = "next"
      BY <1>3 DEF TypeOK, NextPart
    <2>3. TypeOK' /\ Fresh' /\ Numbered' /\ EndSeen' /\ Waited' /\ Whole'
      BY <1>1, <2>1, <2>2 DEF TypeOK, Fresh, Numbered, EndSeen, Waited, Whole, Payload
    <2>4. NobodyFailed' => NobodyFailed
      BY <2>1, <2>2 DEF TypeOK, NobodyFailed
    <2>5. \A v \in Workers : Holding(v)' <=> Holding(v)
      BY <2>1, <2>2 DEF TypeOK, Holding
    <2>6. Accounted'
      BY <2>1, <2>4, <2>5 DEF Accounted
    <2> QED BY <2>3, <2>6
  <1> QED BY <1>2, <1>3

\* A part is sent: nothing changes hands.
LEMMA SendInv ==
  ASSUME IInv, NEW w \in Workers, Send(w)
  PROVE  IInv'
  <1> USE DEF IInv
  <1>1. phase = "parts"
    BY WorkingPhase DEF Send
  <1>2. /\ pc' = [pc EXCEPT ![w] = "list"] /\ pc[w] = "send"
        /\ stored' = stored \cup {part[w]}
        /\ UNCHANGED <<size, phase, pos, lastPartNumber, part, uploadedParts, object, result>>
    BY DEF Send, GoTo
  <1>3. TypeOK'
    <2>1. part[w] \in Parts
      BY DEF TypeOK, Parts, NoPart
    <2> QED BY <1>2, <2>1 DEF TypeOK
  <1>4. Fresh' /\ EndSeen' /\ Waited' /\ Whole'
    BY <1>1, <1>2 DEF TypeOK, Fresh, EndSeen, Waited, Whole, Payload
  <1>5. NobodyFailed' => NobodyFailed
    BY <1>2 DEF TypeOK, NobodyFailed
  <1>6. Numbered'
    BY <1>2, <1>5 DEF Numbered
  <1>7. \A v \in Workers : Holding(v)' <=> Holding(v)
    BY <1>2 DEF TypeOK, Holding
  <1>8. Accounted'
    BY <1>2, <1>5, <1>7 DEF Accounted
  <1> QED BY <1>3, <1>4, <1>6, <1>8

\* A part goes from the worker's hands to the list.
LEMMA ListPartInv ==
  ASSUME IInv, NEW w \in Workers, ListPart(w)
  PROVE  IInv'
  <1> USE DEF IInv
  <1>1. phase = "parts"
    BY WorkingPhase DEF ListPart
  <1>2. /\ pc' = [pc EXCEPT ![w] = IF w = First THEN "done" ELSE "next"] /\ pc[w] = "list"
        /\ uploadedParts' = uploadedParts \cup {part[w]}
        /\ UNCHANGED <<size, phase, pos, lastPartNumber, part, stored, object, result>>
    BY DEF ListPart, GoTo
  <1>3. TypeOK'
    <2>1. part[w] \in Parts
      BY DEF TypeOK, Parts, NoPart
    <2> QED BY <1>2, <2>1 DEF TypeOK
  <1>4. Fresh' /\ EndSeen' /\ Waited' /\ Whole'
    BY <1>1, <1>2 DEF TypeOK, Fresh, EndSeen, Waited, Whole, Payload
  <1>5. NobodyFailed' => NobodyFailed
    BY <1>2 DEF TypeOK, NobodyFailed
  <1>6. Numbered'
    BY <1>2, <1>5 DEF Numbered
  <1>7. Holding(w) /\ \A v \in Workers : IF v = w THEN ~Holding(v)' ELSE Holding(v)' <=> Holding(v)
    BY <1>2 DEF TypeOK, Holding
  <1>8. Accounted'
    <2> SUFFICES ASSUME NobodyFailed' PROVE
          /\ \A v \in Workers : Holding(v)' => \E i \in 1..pos : part[v] = Own(i)
          /\ uploadedParts' \subseteq {Own(i) : i \in 1..pos}
          /\ \A i \in 1..pos : Own(i) \in uploadedParts'
                               \/ \E v \in Workers : Holding(v)' /\ part[v] = Own(i)
      BY <1>2 DEF Accounted
    <2>1. \A v \in Workers : Holding(v)' => \E i \in 1..pos : part[v] = Own(i)
      BY <1>5, <1>7 DEF Accounted
    <2>2. uploadedParts' \subseteq {Own(i) : i \in 1..pos}
      BY <1>2, <1>5, <1>7 DEF Accounted
    <2>3. \A i \in 1..pos : Own(i) \in uploadedParts'
                            \/ \E v \in Workers : Holding(v)' /\ part[v] = Own(i)
      BY <1>1, <1>2, <1>5, <1>7 DEF Accounted
    <2> QED BY <2>1, <2>2, <2>3
  <1> QED BY <1>3, <1>4, <1>6, <1>8

\* When nobody has failed and all are done, the list is the payload.
LEMMA WaitInv ==
  ASSUME ConstantsAssumption, IInv, Wait
  PROVE  IInv'
  <1> USE DEF IInv
  <1>1. TypeOK' /\ Fresh' /\ Numbered' /\ EndSeen' /\ Waited'
    BY DEF Wait, TypeOK, Fresh, Numbered, EndSeen, Waited, NobodyFailed
  <1>2. NobodyFailed' <=> NobodyFailed
    BY DEF Wait, NobodyFailed
  <1>3. \A w \in Workers : ~Holding(w) /\ ~Holding(w)'
    BY DEF Wait, Holding
  <1>4. Accounted'
    BY <1>2, <1>3 DEF Wait, Accounted
  <1>5. CASE NobodyFailed
    <2>1. pos = size
      BY <1>5 DEF ConstantsAssumption, Wait, EndSeen, NobodyFailed
    <2>2. uploadedParts = {Own(i) : i \in 1..pos}
      BY <1>3, <1>5 DEF Wait, Accounted
    <2>3. uploadedParts = Payload
      BY <2>1, <2>2 DEF Own, Payload
    <2> QED BY <1>1, <1>2, <1>4, <1>5, <2>3 DEF Wait, Whole, Payload
  <1>6. CASE ~NobodyFailed
    <2>1. phase' = "abort"
      BY <1>6 DEF Wait, NobodyFailed
    <2> QED BY <1>1, <1>4, <2>1 DEF Wait, Whole, Payload
  <1> QED BY <1>5, <1>6

\* The invariant is inductive.
LEMMA StepInv == ConstantsAssumption /\ IInv /\ [Next]_vars => IInv'
  <1> SUFFICES ASSUME ConstantsAssumption, IInv, [Next]_vars PROVE IInv'
    OBVIOUS
  <1>1. CASE \E done, ok \in BOOLEAN : SingleUpload(done, ok) \/ MultipartComplete(done, ok)
    BY <1>1, EndInv
  <1>2. CASE MultipartInit
    BY <1>2, BeginInv
  <1>3. CASE InitFails
    BY <1>3, EndInv
  <1>4. CASE \E w \in Workers : WorkerStep(w)
    BY <1>4, NextPartInv, SendInv, ListPartInv, FailInv DEF WorkerStep
  <1>5. CASE Wait
    BY <1>5, WaitInv
  <1>6. CASE \E ok \in BOOLEAN : MultipartAbort(ok)
    BY <1>6, EndInv
  <1>7. CASE UNCHANGED vars
    <2> USE <1>7 DEF vars, IInv
    <2>1. TypeOK' /\ Fresh' /\ EndSeen' /\ Waited' /\ Whole'
      BY DEF TypeOK, Fresh, EndSeen, Waited, Whole, NobodyFailed, Payload
    <2>2. Numbered' /\ Accounted'
      BY DEF Numbered, Accounted, Holding, NobodyFailed
    <2> QED BY <2>1, <2>2
  <1> QED BY <1>1, <1>2, <1>3, <1>4, <1>5, <1>6, <1>7 DEF Next

\* Every reachable state satisfies the invariant (uploader.go, Upload).
THEOREM Inductive ==
  ASSUME ConstantsAssumption
  PROVE  Spec => []IInv
  BY InitInv, StepInv, PTL DEF Spec

\* An object that S3 has is the whole payload in its order, and Upload succeeds only
\* with it (uploader.go:62-106).
THEOREM ObjectsAreWhole ==
  ASSUME ConstantsAssumption
  PROVE  Spec => []UploadIsWhole
  <1>1. IInv => UploadIsWhole
    BY DEF IInv, Whole, UploadIsWhole
  <1> QED BY Inductive, <1>1, PTL

\* After a returned Upload, whose abort has succeeded if it failed, S3 keeps no part
\* and no worker sends one (uploader.go:78-103).
THEOREM NoPartsAreLeft ==
  ASSUME ConstantsAssumption
  PROVE  Spec => []NothingLeftAtS3
  <1>1. IInv => NothingLeftAtS3
    BY DEF IInv, Waited, NothingLeftAtS3
  <1> QED BY Inductive, <1>1, PTL

=============================================================================
