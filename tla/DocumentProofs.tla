---------------------------- MODULE DocumentProofs ----------------------------
(***************************************************************************)
(* What the document pipeline keeps, for every number of requests,         *)
(* schedulers, copies and faults.                                          *)
(*                                                                         *)
(* A claim compares only extracted_json, and a worker whose lease ran out  *)
(* goes on with the locals it has read.  So the invariant says what every  *)
(* worker's locals hold by where it is (WorkerFits), what the row refers   *)
(* to of the copies that are left (CopiesKnown), and that the copies sent, *)
(* those about to be sent and those the row still asks for are together    *)
(* no more than the retries allow (SubmissionsCounted).                    *)
(***************************************************************************)
EXTENDS DocumentPipeline, FiniteSetTheorems, TLAPS

-----------------------------------------------------------------------------
(* The inductive invariant.                                                 *)

\* Stages before the original is released, and stages that follow its release.
Unreleased == {"none", "queued", "scanning", "scan_waiting"}
Reached    == {"starting", "reading", "complete"}

Awaited == {"poll_scan", "save_waiting", "save_receipt", "drop_copy", "renew", "put",
            "save_verdict"}
Removing == Deleting \ {"d_start", "d_read", "d_claim"}
Cleaning == {"c_claim", "c_drop", "c_save"}

\* Where a worker has a claim that it may still save under.
Holding == (Processing \ {"claim"}) \cup {"catch", "c_drop", "c_save"} \cup Removing

\* Where the locals of a worker came from a document in process.
InHand == Processing \cup {"catch", "interrupt"} \cup Cleaning

\* What holds of the row and of every worker's copy of it.
Coherent(r) ==
  /\ r.json.scan <= sent.scan /\ r.json.op <= sent.result
  /\ r.json.removed => ~object.exists
  /\ r.json.stage \in {"scanned"} \cup Reached => r.json.scan = 0
  /\ r.json.stage = "complete" => r.json.text
  /\ whole => r.json.error # "incomplete"

\* What holds of a document in process: an extraction is asked for only once the
\* file has been found clean, and it is found clean once its scan copy is gone.
InProcess(r) ==
  /\ r.scan = "clean" => r.json.scan = 0 /\ verdict = "clean"
  /\ r.json.stage = "none" => r.json.scan = 0
  /\ r.json.op # 0 \/ r.json.stage \in Reached => r.scan = "clean" /\ r.security = "clean"
  /\ r.json.stage \in Unreleased => r.json.op = 0

\* A first extraction is still to be submitted.
Unread(r) == whole /\ r.json.stage \in {"scanned", "starting"} => r.json.op = 0

\* The stage in the locals, by where the worker is.
StageFits(p, stage) ==
  /\ p = "get" => stage \in {"queued", "scan_waiting", "scanned"}
  /\ p \in {"drop_scan", "save_scanning"} => stage = "queued"
  /\ p \in {"submit_scan", "save_scan"} => stage = "scanning"
  /\ p \in Awaited => stage = "scan_waiting"
  /\ p = "save_starting" => stage = "scanned"
  /\ p \in {"submit_result", "save_reading"} => stage = "starting"
  /\ p \in {"poll_result", "save_again", "save_complete"} => stage = "reading"
  /\ p \in {"drop_result", "save_final"} \cup Cleaning => stage = "complete"
  /\ p = "interrupt" => stage \in Stopped
  /\ p \in Removing \cup {"d_claim"} => stage = "none"

\* What a worker knows, wherever it is.
Informed(p, l) ==
  /\ Coherent(l)
  /\ p \in InHand => InProcess(l)
  /\ p \in InHand \ {"save_reading", "catch"} => Unread(l)
  /\ StageFits(p, l.json.stage)
  /\ p \in {"save_scanning", "submit_scan", "renew", "put", "save_verdict"} => l.json.scan = 0
  /\ p = "get" /\ l.json.stage = "queued" => l.json.scan = 0
  /\ p = "claim" => l.json.stage # "blocked" /\ (l.json.stage \in Stopped <=> l.again)
  /\ p \in {"put", "save_verdict"} =>
        /\ l.scan = verdict
        /\ l.security = IF verdict = "clean" THEN "clean" ELSE "rejected"
  /\ p = "save_starting" => l.scan = "clean" /\ l.security = "clean"
  /\ p = "save_complete" => l.json.text

\* A worker whose claim still stands refers to what the row refers to, unless it
\* has seen the copy go.
Standing(p, l) ==
  /\ p \notin {"catch"} => row.json.stage = l.json.stage
  /\ row.json.scan \in scans => l.json.scan = row.json.scan
  /\ whole /\ row.json.op \in results => l.json.op = row.json.op

WorkerFits(w) ==
  /\ Informed(pc[w], job[w])
  /\ row.json.lock = w /\ pc[w] \in Holding => Standing(pc[w], job[w])
  /\ pc[w] \in Removing => ~Present
  /\ pc[w] = "t_claim" => w \in Schedulers

RowFits ==
  /\ Coherent(row)
  /\ IF Present THEN InProcess(row) /\ Unread(row) /\ object.exists
     ELSE row.json.stage = "none" /\ ~linked
  /\ row.status = "gone" => row.json.scan = 0 /\ row.json.op = 0 /\ ~object.exists
  /\ object.security = "clean" => verdict = "clean"

\* The row refers to whatever is left of what it ever referred to.
CopiesKnown ==
  /\ scans \cup tracked.scan \subseteq 1..sent.scan
  /\ results \cup tracked.result \subseteq 1..sent.result
  /\ scans \cap tracked.scan \subseteq {row.json.scan}
  /\ whole => results \cap tracked.result \subseteq {row.json.op}

\* Whoever may submit without a further retry.
At(l) == {w \in Workers : pc[w] = l}
ScanDue == IF Present /\ row.json.stage \in {"none", "queued"} THEN 1 ELSE 0
ResultDue == IF Present /\ row.json.stage \in Unreleased \cup {"scanned"} THEN 1 ELSE 0

SubmissionsCounted ==
  /\ IsFiniteSet(At("submit_scan")) /\ IsFiniteSet(At("submit_result"))
  /\ sent.scan + Cardinality(At("submit_scan")) + ScanDue <= 1 + retries
  /\ sent.result + Cardinality(At("submit_result")) + ResultDue <= 1 + retries

DocumentInv ==
  /\ TypeOK /\ RowFits /\ CopiesKnown /\ SubmissionsCounted
  /\ \A w \in Workers : WorkerFits(w)
-----------------------------------------------------------------------------
(* Records and moves.                                                       *)

Points == Processing \cup Deleting \cup Other

\* The parts of the invariant, and what its types say, at hand.
LEMMA Facts ==
  ASSUME DocumentInv
  PROVE  /\ TypeOK /\ RowFits /\ CopiesKnown /\ SubmissionsCounted
         /\ \A v \in Workers : WorkerFits(v)
         /\ row \in DocumentRows /\ row.json \in Documents
         /\ \A v \in Workers : job[v] \in Locals /\ job[v].json \in Documents
                               /\ pc[v] \in Points
         /\ sent.scan \in Nat /\ sent.result \in Nat /\ retries \in Nat
         /\ Nobody \notin Workers
BY WorkerAssumption, CountAssumption
DEF DocumentInv, TypeOK, DocumentRows, Locals, Copies, Workers, Points

\* A document refers to its copies by number; 0 is no copy.
LEMMA Numbers ==
  ASSUME NEW j \in Documents
  PROVE  j.scan \in Nat /\ j.op \in Nat
BY CountAssumption DEF Documents, Copies

\* What the invariant asks of the extracted_json column.
SameRefs(k, j) ==
  /\ k.stage = j.stage /\ k.op = j.op /\ k.scan = j.scan
  /\ k.text = j.text /\ k.removed = j.removed /\ k.error = j.error

\* Taking and giving back the lock changes nothing else of a document.
LEMMA LockEdits ==
  ASSUME NEW j \in Documents, NEW w \in Workers
  PROVE  /\ Locked(w, j) \in Documents /\ SameRefs(Locked(w, j), j) /\ Locked(w, j).lock = w
         /\ Unlocked(j) \in Documents /\ SameRefs(Unlocked(j), j)
         /\ Unlocked(j).lock = Nobody /\ ~Unlocked(j).live
<1>1. Locked(w, j) \in Documents /\ Unlocked(j) \in Documents
  BY DEF Locked, Unlocked, Documents
<1>2. /\ SameRefs(Locked(w, j), j) /\ Locked(w, j).lock = w
      /\ SameRefs(Unlocked(j), j) /\ Unlocked(j).lock = Nobody /\ ~Unlocked(j).live
  BY DEF Locked, Unlocked, Documents, SameRefs
<1> QED BY <1>1, <1>2

\* A worker with nothing in hand holds an empty document.
LEMMA NothingDone == NoJob \in Locals /\ NoJob.json = Empty /\ NoJob.scan = "pending"
                     /\ Empty \in Documents /\ Empty.stage = "none" /\ Empty.op = 0
                     /\ Empty.scan = 0 /\ Empty.lock = Nobody /\ ~Empty.live
                     /\ ~Empty.removed /\ Empty.error = "none"
<1>1. Empty \in Documents /\ Empty.stage = "none" /\ Empty.op = 0
      /\ Empty.scan = 0 /\ Empty.lock = Nobody /\ ~Empty.live
      /\ ~Empty.removed /\ Empty.error = "none"
  BY CountAssumption DEF Empty, Documents, Copies
<1>2. NoJob \in Locals /\ NoJob.json = Empty /\ NoJob.scan = "pending"
  <2> HIDE DEF Empty
  <2> QED BY <1>1 DEF NoJob, Locals, Statuses, Scans, Securities, Extractions
<1> QED BY <1>1, <1>2

\* Worker w goes to p with the locals l.
Moves(w, p, l) ==
  /\ pc' \in [Workers -> Points] /\ job' \in [Workers -> Locals]
  /\ pc'[w] = p /\ job'[w] = l
  /\ \A v \in Workers \ {w} : pc'[v] = pc[v] /\ job'[v] = job[v]

\* A worker goes on with the locals it has, or with new ones.
LEMMA Going ==
  ASSUME TypeOK, NEW w \in Workers, NEW p \in Points, Goto(w, p)
  PROVE  /\ UNCHANGED job => Moves(w, p, job[w])
         /\ \A l \in Locals : job' = [job EXCEPT ![w] = l] => Moves(w, p, l)
BY DEF Goto, Moves, TypeOK, Points

\* A call that ends leaves its worker idle, or at the end of a tick.
LEMMA Ending ==
  ASSUME TypeOK, NEW w \in Workers
  PROVE  /\ End(w) => Moves(w, "idle", NoJob)
         /\ Return(w) => \E p \in {"idle", "t_finish"} : Moves(w, p, NoJob)
<1>1. "idle" \in Points /\ "t_finish" \in Points
  BY DEF Points, Other
<1>2. End(w) => Moves(w, "idle", NoJob)
  BY <1>1, Going, NothingDone DEF End
<1>3. Goto(w, "t_finish") /\ job' = [job EXCEPT ![w] = NoJob] => Moves(w, "t_finish", NoJob)
  BY <1>1, Going, NothingDone
<1> QED BY <1>2, <1>3 DEF Return

-----------------------------------------------------------------------------
(* What other workers may rely on.                                          *)

\* What no step takes back.
Onward ==
  /\ UNCHANGED file
  /\ sent'.scan \in Nat /\ sent'.result \in Nat
  /\ sent.scan <= sent'.scan /\ sent.result <= sent'.result
  /\ object'.exists => object.exists
  /\ \A k \in scans' \ scans : k > sent.scan
  /\ \A k \in results' \ results : k > sent.result
  /\ ~Present => ~Present'

\* The claim of v, if it has one, is as it was.
ClaimStands(v) ==
  row'.json.lock = v =>
     /\ row.json.lock = v
     /\ row'.json.stage = row.json.stage /\ row'.json.scan = row.json.scan
     /\ row'.json.op = row.json.op

\* What a document says of the provider stays true as copies are only added.
LEMMA CoherentStays ==
  ASSUME Onward, NEW r, Coherent(r), r.json.scan \in Nat, r.json.op \in Nat,
         sent.scan \in Nat, sent.result \in Nat
  PROVE  /\ r.json.scan <= sent'.scan /\ r.json.op <= sent'.result
         /\ r.json.removed => ~object'.exists
         /\ r.json.stage \in {"scanned"} \cup Reached => r.json.scan = 0
         /\ r.json.stage = "complete" => r.json.text
         /\ whole' => r.json.error # "incomplete"
BY DEF Onward, Coherent, file

\* A worker that does not move keeps fitting what it knows, while its claim stands.
LEMMA OthersFit ==
  ASSUME DocumentInv, Onward, NEW v \in Workers, pc'[v] = pc[v], job'[v] = job[v],
         ClaimStands(v)
  PROVE  WorkerFits(v)'
<1>1. /\ Informed(pc[v], job[v])
      /\ row.json.lock = v /\ pc[v] \in Holding => Standing(pc[v], job[v])
      /\ pc[v] \in Removing => ~Present
      /\ pc[v] = "t_claim" => v \in Schedulers
      /\ row.json.scan \in Nat /\ row.json.op \in Nat /\ sent.scan \in Nat /\ sent.result \in Nat
      /\ row.json.scan <= sent.scan /\ row.json.op <= sent.result
      /\ job[v].json.scan \in Nat /\ job[v].json.op \in Nat
  BY Facts, Numbers DEF WorkerFits, RowFits, Coherent
<1>2. Coherent(job[v])'
  BY <1>1, CoherentStays DEF Informed, Coherent
<1>3. Informed(pc[v], job[v])'
  BY <1>1, <1>2 DEF Informed, Onward, file, InProcess, Unread
<1>4. row'.json.lock = v /\ pc'[v] \in Holding => Standing(pc[v], job[v])'
  <2> SUFFICES ASSUME row'.json.lock = v, pc[v] \in Holding
               PROVE  Standing(pc[v], job[v])'
    OBVIOUS
  <2>1. /\ row.json.lock = v /\ Standing(pc[v], job[v])
        /\ row'.json.stage = row.json.stage /\ row'.json.scan = row.json.scan
        /\ row'.json.op = row.json.op
    BY <1>1 DEF ClaimStands
  <2>2. /\ row.json.scan \in scans' => row.json.scan \in scans
        /\ row.json.op \in results' => row.json.op \in results
    BY <1>1 DEF Onward
  <2> QED BY <2>1, <2>2 DEF Standing, Onward, file
<1>5. pc'[v] \in Removing => ~Present'
  BY <1>1 DEF Onward
<1> QED BY <1>1, <1>3, <1>4, <1>5 DEF WorkerFits

-----------------------------------------------------------------------------
(* Counting who is about to submit.                                         *)

\* How the number of workers at a point changes when one worker moves.
LEMMA CountKept ==
  ASSUME NEW w \in Workers, NEW p, NEW l, Moves(w, p, l), NEW x, IsFiniteSet(At(x))
  PROVE  /\ p # x => IsFiniteSet(At(x)') /\ Cardinality(At(x)') <= Cardinality(At(x))
         /\ p # x /\ pc[w] = x => Cardinality(At(x)') = Cardinality(At(x)) - 1
         /\ p = x /\ pc[w] # x => /\ IsFiniteSet(At(x)')
                                  /\ Cardinality(At(x)') = Cardinality(At(x)) + 1
         /\ Cardinality(At(x)) \in Nat
         /\ IsFiniteSet(At(x)') => Cardinality(At(x)') \in Nat
<1>1. Cardinality(At(x)) \in Nat /\ (IsFiniteSet(At(x)') => Cardinality(At(x)') \in Nat)
  BY FS_CardinalityType
<1>2. p # x => At(x)' = At(x) \ {w}
  BY DEF Moves, At
<1>3. p = x => At(x)' = At(x) \cup {w}
  BY DEF Moves, At
<1>4. w \in At(x) <=> pc[w] = x
  BY DEF At
<1> QED BY <1>1, <1>2, <1>3, <1>4, FS_AddElement, FS_RemoveElement
-----------------------------------------------------------------------------
(* Steps that leave the row alone.                                          *)

Submitting == {"submit_scan", "submit_result"}

FaultsFit == UNCHANGED faults \/ Fault

\* Faults stay within their bound.
LEMMA FaultsTyped == ASSUME TypeOK, FaultsFit PROVE faults' \in 0..MaxFaults
BY CountAssumption DEF TypeOK, FaultsFit, Fault

\* Copies may go, and so may the original of a document in deletion.
OnlyLosses ==
  /\ scans' \subseteq scans /\ results' \subseteq results
  /\ object' \in [exists : BOOLEAN, security : Securities]
  /\ object'.exists => object.exists
  /\ Present => object'.exists = object.exists
  /\ object'.security = "clean" => verdict = "clean"

\* Nothing is lost where neither the object nor the copies change.
LEMMA NoLosses ==
  ASSUME DocumentInv, UNCHANGED <<object, scans, results>>
  PROVE  OnlyLosses
BY Facts DEF OnlyLosses, RowFits, TypeOK

\* The new state of w, against a row that stays.
Prepared(w, p, l) ==
  /\ Informed(p, l)'
  /\ row.json.lock = w /\ p \in Holding => Standing(p, l)'
  /\ p \in Removing => ~Present
  /\ p = "t_claim" => w \in Schedulers

\* What a worker knows depends on the row only through its own copy.
LEMMA StillInformed ==
  ASSUME NEW p, NEW l, Informed(p, l), l.json.removed => ~object'.exists,
         UNCHANGED <<file, sent>>
  PROVE  Informed(p, l)'
BY DEF Informed, Coherent, InProcess, Unread, file

\* A step that leaves the row alone, moves one worker and submits nothing.
LEMMA QuietStep ==
  ASSUME DocumentInv, NEW w \in Workers, NEW p, NEW l, Moves(w, p, l),
         p \notin Submitting, Prepared(w, p, l), OnlyLosses, FaultsFit,
         leading' \subseteq Schedulers,
         UNCHANGED <<row, linked, file, sent, tracked, retries>>
  PROVE  DocumentInv'
<1>1. Onward
  BY Facts DEF Onward, OnlyLosses, Present
<1>2. \A v \in Workers : ClaimStands(v)
  BY DEF ClaimStands
<1>3. \A v \in Workers : WorkerFits(v)'
  <2>1. ASSUME NEW v \in Workers, v # w PROVE WorkerFits(v)'
    BY <1>1, <1>2, <2>1, OthersFit DEF Moves
  <2>2. Informed(p, l)' /\ pc'[w] = p /\ job'[w] = l
    BY DEF Prepared, Moves
  <2>3. WorkerFits(w)'
    BY <2>2 DEF Prepared, WorkerFits, Present
  <2> QED BY <2>1, <2>3
<1>4. TypeOK'
  BY Facts, FaultsTyped DEF TypeOK, Moves, Points, OnlyLosses, file
<1>5. RowFits'
  <2>1. RowFits /\ verdict' = verdict /\ whole' = whole
    BY Facts DEF file
  <2>2. Coherent(row)'
    BY <2>1 DEF RowFits, Coherent, OnlyLosses
  <2> QED BY <2>1, <2>2 DEF RowFits, OnlyLosses, InProcess, Unread, Present
<1>6. CopiesKnown'
  BY Facts DEF CopiesKnown, OnlyLosses, file
<1>7. SubmissionsCounted'
  <2>1. SubmissionsCounted /\ ScanDue \in {0, 1} /\ ResultDue \in {0, 1}
        /\ sent.scan \in Nat /\ sent.result \in Nat /\ retries \in Nat
    BY Facts DEF ScanDue, ResultDue
  <2>2. ScanDue' = ScanDue /\ ResultDue' = ResultDue
    BY DEF ScanDue, ResultDue, Present
  <2>3. /\ IsFiniteSet(At("submit_scan")') /\ IsFiniteSet(At("submit_result")')
        /\ Cardinality(At("submit_scan")') <= Cardinality(At("submit_scan"))
        /\ Cardinality(At("submit_result")') <= Cardinality(At("submit_result"))
        /\ Cardinality(At("submit_scan")') \in Nat /\ Cardinality(At("submit_scan")) \in Nat
        /\ Cardinality(At("submit_result")') \in Nat
        /\ Cardinality(At("submit_result")) \in Nat
    BY <2>1, CountKept DEF SubmissionsCounted, Submitting
  <2> QED BY <2>1, <2>2, <2>3 DEF SubmissionsCounted
<1> QED BY <1>3, <1>4, <1>5, <1>6, <1>7 DEF DocumentInv

\* A worker that gives up or is evicted knows nothing.
LEMMA Forgets ==
  ASSUME DocumentInv, NEW w \in Workers, NEW p \in {"idle", "t_finish"},
         UNCHANGED <<file, sent>>
  PROVE  Prepared(w, p, NoJob) /\ p \notin Submitting
<1>1. /\ p \notin InHand /\ p \notin Removing /\ p \notin Holding /\ p \notin Submitting
      /\ p \notin Awaited /\ p \notin Cleaning
  BY DEF InHand, Removing, Holding, Processing, Deleting, Cleaning, Submitting, Awaited
<1>2. Coherent(NoJob)
  BY NothingDone, Facts DEF Coherent, Reached
<1>3. Informed(p, NoJob)
  BY <1>1, <1>2 DEF Informed, StageFits
<1> QED BY <1>1, <1>3, NothingDone, StillInformed DEF Prepared

\* The end of a request or of a tick's work, without a trace.
LEMMA EndStep ==
  ASSUME DocumentInv, NEW w \in Workers, End(w) \/ Return(w), OnlyLosses, FaultsFit,
         leading' \subseteq Schedulers,
         UNCHANGED <<row, linked, file, sent, tracked, retries>>
  PROVE  DocumentInv'
<1>1. PICK p \in {"idle", "t_finish"} : Moves(w, p, NoJob)
  BY Facts, Ending
<1> QED BY <1>1, Forgets, QuietStep

\* A copy is made.
LEMMA SubmitStep ==
  ASSUME DocumentInv, NEW w \in Workers, NEW p, NEW l, Moves(w, p, l), pc[w] \in Submitting,
         p \notin Submitting, FaultsFit, Informed(p, l)',
         row.json.lock = w /\ p \in Holding => Standing(p, l)',
         p \notin Removing, p # "t_claim",
         \/ /\ pc[w] = "submit_scan" /\ sent.scan < MaxCopies
            /\ sent' = [sent EXCEPT !.scan = @ + 1] /\ scans' = scans \cup {sent.scan + 1}
            /\ results' = results
         \/ /\ pc[w] = "submit_result" /\ sent.result < MaxCopies
            /\ sent' = [sent EXCEPT !.result = @ + 1]
            /\ results' = results \cup {sent.result + 1} /\ scans' = scans,
         UNCHANGED <<row, linked, object, file, leading, tracked, retries>>
  PROVE  DocumentInv'
<1>1. /\ sent'.scan = sent.scan + (IF pc[w] = "submit_scan" THEN 1 ELSE 0)
      /\ sent'.result = sent.result + (IF pc[w] = "submit_result" THEN 1 ELSE 0)
      /\ sent' \in [scan : Copies, result : Copies]
      /\ scans' \subseteq 1..MaxCopies /\ results' \subseteq 1..MaxCopies
  <2>1. sent \in [scan : Copies, result : Copies] /\ scans \subseteq 1..MaxCopies
        /\ results \subseteq 1..MaxCopies /\ MaxCopies \in Nat
    BY Facts, CountAssumption DEF TypeOK
  <2>2. /\ sent'.scan = sent.scan + (IF pc[w] = "submit_scan" THEN 1 ELSE 0)
        /\ sent'.result = sent.result + (IF pc[w] = "submit_result" THEN 1 ELSE 0)
    <3>1. sent.scan \in Nat /\ sent.result \in Nat
      BY Facts
    <3>2. CASE pc[w] = "submit_scan"
      BY <2>1, <3>1, <3>2
    <3>3. CASE pc[w] = "submit_result"
      BY <2>1, <3>1, <3>3
    <3> QED BY <3>2, <3>3
  <2>3. sent' \in [scan : Copies, result : Copies]
    BY <2>1 DEF Copies
  <2>4. scans' \subseteq 1..MaxCopies /\ results' \subseteq 1..MaxCopies
    BY <2>1, Facts
  <2> QED BY <2>2, <2>3, <2>4
<1>2. Onward
  BY <1>1, Facts DEF Onward, Present
<1>3. \A v \in Workers : WorkerFits(v)'
  <2>1. ASSUME NEW v \in Workers, v # w PROVE WorkerFits(v)'
    BY <1>2, <2>1, OthersFit DEF Moves, ClaimStands
  <2>2. WorkerFits(w)'
    BY DEF WorkerFits, Moves
  <2> QED BY <2>1, <2>2
<1>4. TypeOK'
  BY <1>1, Facts, FaultsTyped DEF TypeOK, Moves, Points, file
<1>5. RowFits'
  <2>1. RowFits /\ verdict' = verdict /\ whole' = whole /\ Present' = Present
        /\ row.json.scan \in Nat /\ row.json.op \in Nat
    BY Facts, Numbers DEF file, Present
  <2>2. Coherent(row)'
    BY <1>2, <2>1, Facts, CoherentStays DEF RowFits, Coherent
  <2> QED BY <2>1, <2>2 DEF RowFits, InProcess, Unread
<1>6. CopiesKnown'
  <2>1. CopiesKnown /\ sent.scan \in Nat /\ sent.result \in Nat /\ whole' = whole
    BY Facts DEF file
  <2>2. tracked'.scan = tracked.scan /\ tracked'.result = tracked.result
    OBVIOUS
  <2> QED BY <1>1, <2>1, <2>2 DEF CopiesKnown
<1>7. SubmissionsCounted'
  <2>1. SubmissionsCounted /\ ScanDue \in {0, 1} /\ ResultDue \in {0, 1}
        /\ sent.scan \in Nat /\ sent.result \in Nat /\ retries \in Nat
    BY Facts DEF ScanDue, ResultDue
  <2>2. ScanDue' = ScanDue /\ ResultDue' = ResultDue
    BY DEF ScanDue, ResultDue, Present
  <2>3. /\ IsFiniteSet(At("submit_scan")') /\ IsFiniteSet(At("submit_result")')
        /\ Cardinality(At("submit_scan")') <= Cardinality(At("submit_scan"))
        /\ Cardinality(At("submit_result")') <= Cardinality(At("submit_result"))
        /\ pc[w] = "submit_scan" =>
              Cardinality(At("submit_scan")') = Cardinality(At("submit_scan")) - 1
        /\ pc[w] = "submit_result" =>
              Cardinality(At("submit_result")') = Cardinality(At("submit_result")) - 1
        /\ Cardinality(At("submit_scan")') \in Nat /\ Cardinality(At("submit_scan")) \in Nat
        /\ Cardinality(At("submit_result")') \in Nat
        /\ Cardinality(At("submit_result")) \in Nat
    BY <2>1, CountKept DEF SubmissionsCounted, Submitting
  <2> QED BY <1>1, <2>1, <2>2, <2>3 DEF SubmissionsCounted
<1> QED BY <1>3, <1>4, <1>5, <1>6, <1>7 DEF DocumentInv
-----------------------------------------------------------------------------
(* Steps that write the row.                                                *)

\* The row as it is written, before what it stands for is looked at.
RowTyped ==
  /\ row' \in DocumentRows
  /\ row'.json.lock = Nobody => ~row'.json.live

\* The parts of the invariant after a step that writes the row.
LEMMA RowStep ==
  ASSUME DocumentInv, RowTyped, RowFits', CopiesKnown', SubmissionsCounted',
         \A v \in Workers : WorkerFits(v)',
         pc' \in [Workers -> Points], job' \in [Workers -> Locals],
         FaultsFit, leading' \subseteq Schedulers, linked' \in BOOLEAN,
         tracked' \in [scan : SUBSET (1..MaxCopies), result : SUBSET (1..MaxCopies)],
         retries' \in Copies,
         UNCHANGED <<object, file, azure>>
  PROVE  DocumentInv'
<1>1. row'.json.stage = "complete" => row'.json.scan = 0 /\ row'.json.text
  BY DEF RowFits, Coherent, Reached
<1>2. TypeOK'
  BY <1>1, Facts, FaultsTyped DEF RowTyped, TypeOK, Points, file, azure
<1> QED BY <1>2 DEF DocumentInv

\* A write of the row takes nothing back.
LEMMA RowOnward ==
  ASSUME DocumentInv, UNCHANGED <<object, file, azure>>, ~Present => ~Present'
  PROVE  Onward
BY Facts DEF Onward, azure

\* The submissions in view do not change.
LEMMA CountStays ==
  ASSUME DocumentInv, \A x \in Submitting : At(x)' \subseteq At(x),
         ScanDue' <= ScanDue, ResultDue' <= ResultDue,
         UNCHANGED <<sent, retries>>
  PROVE  SubmissionsCounted'
<1>1. SubmissionsCounted /\ ScanDue \in {0, 1} /\ ResultDue \in {0, 1}
      /\ sent.scan \in Nat /\ sent.result \in Nat /\ retries \in Nat
  BY Facts DEF ScanDue, ResultDue
<1>2. ScanDue' \in {0, 1} /\ ResultDue' \in {0, 1}
  BY DEF ScanDue, ResultDue
<1>3. \A x \in Submitting : IsFiniteSet(At(x))
  BY <1>1 DEF SubmissionsCounted, Submitting
<1>4. ASSUME NEW x \in Submitting
      PROVE  /\ IsFiniteSet(At(x)') /\ Cardinality(At(x)') <= Cardinality(At(x))
             /\ Cardinality(At(x)) \in Nat /\ Cardinality(At(x)') \in Nat
  <2>1. IsFiniteSet(At(x)) /\ At(x)' \in SUBSET At(x)
    BY <1>3
  <2>2. IsFiniteSet(At(x)') /\ Cardinality(At(x)') <= Cardinality(At(x))
    BY <2>1, FS_Subset
  <2> QED BY <2>1, <2>2, FS_CardinalityType
<1>5. "submit_scan" \in Submitting /\ "submit_result" \in Submitting
  BY DEF Submitting
<1>6. /\ IsFiniteSet(At("submit_scan")') /\ IsFiniteSet(At("submit_result")')
      /\ Cardinality(At("submit_scan")') <= Cardinality(At("submit_scan"))
      /\ Cardinality(At("submit_result")') <= Cardinality(At("submit_result"))
      /\ Cardinality(At("submit_scan")') \in Nat /\ Cardinality(At("submit_scan")) \in Nat
      /\ Cardinality(At("submit_result")') \in Nat
      /\ Cardinality(At("submit_result")) \in Nat
  BY <1>4, <1>5
<1>7. sent' = sent /\ retries' = retries
  OBVIOUS
<1> HIDE <1>4
<1> QED BY <1>1, <1>2, <1>6, <1>7 DEF SubmissionsCounted

\* A worker that goes elsewhere leaves no more workers about to submit.
LEMMA NobodySubmits ==
  ASSUME NEW w \in Workers, NEW p, NEW l, Moves(w, p, l), p \notin Submitting
  PROVE  \A x \in Submitting : At(x)' \subseteq At(x)
BY DEF Moves, At

\* The row keeps what it refers to and what was found of it.
RowKept ==
  /\ RowTyped /\ SameRefs(row'.json, row.json)
  /\ row'.status = row.status /\ row'.scan = row.scan /\ row'.security = row.security
  /\ UNCHANGED <<linked, object, file, azure, tracked, retries>>

\* A write that keeps the stage and the references keeps what the row says.
LEMMA KeptFits ==
  ASSUME DocumentInv, RowKept
  PROVE  /\ RowFits' /\ CopiesKnown' /\ Onward /\ Present' = Present
         /\ ScanDue' = ScanDue /\ ResultDue' = ResultDue
         /\ \A v \in Workers : row'.json.lock = v /\ row.json.lock = v => ClaimStands(v)
<1>1. /\ row'.json.stage = row.json.stage /\ row'.json.op = row.json.op
      /\ row'.json.scan = row.json.scan /\ row'.json.text = row.json.text
      /\ row'.json.removed = row.json.removed /\ row'.json.error = row.json.error
      /\ Present' = Present
      /\ row'.status = row.status /\ row'.scan = row.scan /\ row'.security = row.security
      /\ UNCHANGED <<linked, object, sent, scans, results, tracked>>
      /\ verdict' = verdict /\ whole' = whole
  BY DEF RowKept, SameRefs, Present, file, azure
<1>2. RowFits'
  <2>1. RowFits
    BY Facts
  <2>2. Coherent(row)'
    BY <1>1, <2>1 DEF RowFits, Coherent
  <2> QED BY <1>1, <2>1, <2>2 DEF RowFits, InProcess, Unread
<1>3. CopiesKnown'
  BY <1>1, Facts DEF CopiesKnown
<1>4. Onward
  BY <1>1, RowOnward DEF RowKept
<1>5. ScanDue' = ScanDue /\ ResultDue' = ResultDue
  BY <1>1 DEF ScanDue, ResultDue
<1> QED BY <1>1, <1>2, <1>3, <1>4, <1>5 DEF ClaimStands

\* A step of w that only takes, renews or gives back a claim.
LEMMA ClaimStep ==
  ASSUME DocumentInv, NEW w \in Workers, NEW p, NEW l, Moves(w, p, l),
         p \notin Submitting, RowKept, FaultsFit, leading' \subseteq Schedulers,
         row'.json.lock \in {row.json.lock, w, Nobody},
         Informed(p, l),
         row'.json.lock = w /\ p \in Holding => Standing(p, l)',
         p \in Removing => ~Present, p # "t_claim"
  PROVE  DocumentInv'
<1>1. /\ RowFits' /\ CopiesKnown' /\ Onward /\ Present' = Present
      /\ ScanDue' = ScanDue /\ ResultDue' = ResultDue
      /\ ScanDue \in Nat /\ ResultDue \in Nat
  BY KeptFits DEF ScanDue, ResultDue
<1>2. SubmissionsCounted'
  BY <1>1, CountStays, NobodySubmits DEF RowKept, azure
<1>3. \A v \in Workers : WorkerFits(v)'
  <2>1. ASSUME NEW v \in Workers, v # w PROVE WorkerFits(v)'
    <3>1. ClaimStands(v)
      BY <2>1, Facts DEF ClaimStands, RowKept, SameRefs
    <3> QED BY <1>1, <2>1, <3>1, OthersFit DEF Moves
  <2>2. Informed(p, l)'
    BY DEF Informed, Coherent, InProcess, Unread, RowKept, file, azure
  <2>3. WorkerFits(w)'
    BY <1>1, <2>2 DEF WorkerFits, Moves
  <2> QED BY <2>1, <2>3
<1> QED BY <1>1, <1>2, <1>3, Facts, RowStep DEF RowKept, Moves, TypeOK

\* The lease or the retry lease changes, and no worker moves.
LEMMA LeaseStep ==
  ASSUME DocumentInv, RowKept, FaultsFit, leading' \subseteq Schedulers,
         row'.json.lock = row.json.lock, UNCHANGED <<pc, job>>
  PROVE  DocumentInv'
<1>1. /\ RowFits' /\ CopiesKnown' /\ Onward
      /\ ScanDue' = ScanDue /\ ResultDue' = ResultDue
      /\ ScanDue \in Nat /\ ResultDue \in Nat
  BY KeptFits DEF ScanDue, ResultDue
<1>2. SubmissionsCounted'
  BY <1>1, CountStays DEF RowKept, azure, At
<1>3. \A v \in Workers : WorkerFits(v)'
  BY <1>1, OthersFit DEF ClaimStands, RowKept, SameRefs
<1> QED BY <1>1, <1>2, <1>3, Facts, RowStep DEF RowKept, TypeOK, Points

\* What w has in hand is written, in the given stage, with the given findings.
Saves(w, stage, scan, security) ==
  /\ RowTyped /\ CanSave(w)
  /\ SameRefs(row'.json, [job[w].json EXCEPT !.stage = stage])
  /\ row'.json.lock \in {w, Nobody}
  /\ row'.status = row.status /\ row'.scan = scan /\ row'.security = security
  /\ tracked'.scan = tracked.scan \cup ({job[w].json.scan} \ {0})
  /\ tracked'.result = tracked.result \cup ({job[w].json.op} \ {0})
  /\ tracked' \in [scan : SUBSET (1..MaxCopies), result : SUBSET (1..MaxCopies)]
  /\ UNCHANGED <<linked, object, file, azure, leading, retries>>

\* A save that fits the worker's locals leaves a row that fits, and every worker too.
LEMMA SavedFits ==
  ASSUME DocumentInv, NEW w \in Workers, NEW stage, NEW scan, NEW security,
         pc[w] \in (Processing \ {"claim"}) \cup {"catch"},
         Saves(w, stage, scan, security),
         scan = "clean" => job[w].scan = "clean",
         job[w].json.op # 0 \/ stage \in Reached => scan = "clean" /\ security = "clean",
         stage \in {"scanned"} \cup Reached => job[w].json.scan = 0,
         stage = "complete" => job[w].json.text,
         stage \in Unreleased => job[w].json.op = 0, stage # "none",
         whole /\ stage \in {"scanned", "starting"} => job[w].json.op = 0
  PROVE  /\ RowFits' /\ CopiesKnown' /\ Onward /\ Present /\ Present'
         /\ \A v \in Workers \ {w} : ClaimStands(v)
         /\ row'.json.stage = stage /\ row'.json.scan = job[w].json.scan
         /\ row'.json.op = job[w].json.op
<1>1. /\ row'.json.stage = stage /\ row'.json.op = job[w].json.op
      /\ row'.json.scan = job[w].json.scan /\ row'.json.text = job[w].json.text
      /\ row'.json.removed = job[w].json.removed /\ row'.json.error = job[w].json.error
  <2>1. job[w].json \in Documents
    BY Facts
  <2> QED BY <2>1 DEF Saves, SameRefs, Documents
<1>2. Present /\ Present'
  BY DEF Saves, CanSave, Present
<1>3. /\ row.json.lock = w /\ row'.scan = scan /\ row'.security = security
      /\ UNCHANGED <<linked, object, sent, scans, results>>
      /\ verdict' = verdict /\ whole' = whole
  BY DEF Saves, CanSave, file, azure
<1>4. Standing(pc[w], job[w]) /\ Coherent(job[w]) /\ InProcess(job[w])
  BY <1>3, Facts DEF WorkerFits, Informed, Holding, InHand
<1>5. RowFits'
  <2>1. RowFits
    BY Facts
  <2>2. Coherent(row)'
    BY <1>1, <1>3, <1>4 DEF Coherent
  <2>3. InProcess(row)' /\ Unread(row)'
    BY <1>1, <1>3, <1>4 DEF InProcess, Unread
  <2> QED BY <1>2, <1>3, <2>1, <2>2, <2>3 DEF RowFits, Present
<1>6. CopiesKnown'
  <2>1. CopiesKnown /\ job[w].json.scan <= sent.scan /\ job[w].json.op <= sent.result
        /\ job[w].json.scan \in Nat /\ job[w].json.op \in Nat
        /\ sent.scan \in Nat /\ sent.result \in Nat
    BY <1>4, Facts, Numbers DEF Coherent
  <2>2. /\ tracked'.scan = tracked.scan \cup ({job[w].json.scan} \ {0})
        /\ tracked'.result = tracked.result \cup ({job[w].json.op} \ {0})
    BY DEF Saves
  <2>3. /\ scans \cup tracked'.scan \subseteq 1..sent.scan
        /\ results \cup tracked'.result \subseteq 1..sent.result
    BY <2>1, <2>2 DEF CopiesKnown
  <2>4. scans \cap tracked'.scan \subseteq {job[w].json.scan}
    BY <1>4, <2>1, <2>2 DEF CopiesKnown, Standing
  <2>5. whole => results \cap tracked'.result \subseteq {job[w].json.op}
    BY <1>4, <2>1, <2>2 DEF CopiesKnown, Standing
  <2> QED BY <1>1, <1>3, <2>3, <2>4, <2>5 DEF CopiesKnown
<1>7. Onward
  BY <1>2, RowOnward DEF Saves
<1>8. \A v \in Workers \ {w} : ClaimStands(v)
  BY Facts DEF Saves, ClaimStands
<1> QED BY <1>1, <1>2, <1>5, <1>6, <1>7, <1>8
-----------------------------------------------------------------------------
(* save() of processDocument.                                               *)

Stages == {"none", "queued", "scan_waiting", "scanned", "reading", "complete", "blocked"}
            \cup Stopped

SavePoints == {"save_scanning", "save_scan", "save_waiting", "save_receipt", "save_verdict",
               "save_starting", "save_reading", "save_again", "save_complete", "save_final"}

\* The points of the process a save is made from.
LEMMA PointSets ==
  /\ SavePoints \subseteq Processing \ {"claim"}
  /\ SavePoints \subseteq Holding /\ SavePoints \subseteq InHand
  /\ SavePoints \cap Submitting = {} /\ SavePoints \cap Removing = {}
  /\ Processing \cup Deleting \cup Other \subseteq Points
BY DEF SavePoints, Processing, Holding, InHand, Submitting, Removing, Deleting, Points, Other

\* Setting the stage changes nothing else of a document.
LEMMA StageEdit ==
  ASSUME NEW j \in Documents, NEW stage \in Stages
  PROVE  /\ [j EXCEPT !.stage = stage] \in Documents
         /\ [j EXCEPT !.stage = stage].stage = stage
         /\ [j EXCEPT !.stage = stage].op = j.op /\ [j EXCEPT !.stage = stage].scan = j.scan
         /\ [j EXCEPT !.stage = stage].text = j.text
         /\ [j EXCEPT !.stage = stage].removed = j.removed
         /\ [j EXCEPT !.stage = stage].error = j.error
<1>1. [j EXCEPT !.stage = stage] \in Documents
  BY DEF Documents, Stages
<1> QED BY <1>1 DEF Documents

\* Tracking remembers the copies a saved document refers to.
LEMMA TrackTyped ==
  ASSUME TypeOK, NEW j \in Documents, Track(j)
  PROVE  /\ tracked'.scan = tracked.scan \cup ({j.scan} \ {0})
         /\ tracked'.result = tracked.result \cup ({j.op} \ {0})
         /\ tracked' \in [scan : SUBSET (1..MaxCopies), result : SUBSET (1..MaxCopies)]
<1>1. /\ {j.scan} \ {0} \subseteq 1..MaxCopies /\ {j.op} \ {0} \subseteq 1..MaxCopies
  BY CountAssumption DEF Documents, Copies
<1>2. tracked.scan \subseteq 1..MaxCopies /\ tracked.result \subseteq 1..MaxCopies
  BY DEF TypeOK
<1> QED BY <1>1, <1>2 DEF Track

\* What saveDocument writes, and where its worker goes.
LEMMA Saved ==
  ASSUME DocumentInv, NEW w \in Workers, NEW stage \in Stages, NEW release \in BOOLEAN,
         NEW next, NEW lost, CanSave(w), Save(w, stage, release, next, lost)
  PROVE  /\ Saves(w, stage, job[w].scan, job[w].security)
         /\ next = "idle" => End(w)
         /\ next # "idle" => \E s \in Documents :
               /\ Goto(w, next) /\ job' = [job EXCEPT ![w].json = s]
               /\ SameRefs(s, [job[w].json EXCEPT !.stage = stage])
<1> DEFINE j == [job[w].json EXCEPT !.stage = stage]
           s == IF release THEN Unlocked(j) ELSE Locked(w, j)
<1>1. job[w].json \in Documents /\ job[w] \in Locals /\ row \in DocumentRows /\ TypeOK
  BY Facts
<1>2. j \in Documents /\ SameRefs(j, j)
  BY <1>1, StageEdit DEF SameRefs
<1> HIDE DEF j
<1>3. s \in Documents /\ SameRefs(s, j) /\ s.lock \in {w, Nobody} /\ (s.lock = Nobody => ~s.live)
  BY <1>2, Facts, LockEdits
<1>4. j.scan = job[w].json.scan /\ j.op = job[w].json.op
  BY <1>1, StageEdit DEF j
<1>5. /\ row' = [row EXCEPT !.json = s, !.scan = job[w].scan, !.security = job[w].security,
                           !.extraction = job[w].extraction]
      /\ Track(s)
      /\ IF next = "idle" THEN End(w)
         ELSE Goto(w, next) /\ job' = [job EXCEPT ![w].json = s]
      /\ UNCHANGED <<linked, object, file, azure, leading, retries>>
  BY DEF Save, j
<1> HIDE DEF s
<1>6. row' \in DocumentRows
  BY <1>1, <1>3, <1>5 DEF DocumentRows, Locals
<1>7. row'.json = s /\ row'.scan = job[w].scan /\ row'.security = job[w].security
      /\ row'.status = row.status
  BY <1>1, <1>5 DEF DocumentRows
<1>8. Saves(w, stage, job[w].scan, job[w].security)
  BY <1>1, <1>3, <1>4, <1>5, <1>6, <1>7, TrackTyped DEF Saves, RowTyped, SameRefs, j
<1> QED BY <1>3, <1>5, <1>8 DEF j

\* A save that is refused changes nothing; its copy may have to go.
LEMMA RefusedStep ==
  ASSUME DocumentInv, NEW w \in Workers, NEW stage, NEW release, NEW next,
         NEW lost \in {"idle", "undo_scan", "undo_result"}, ~CanSave(w),
         Save(w, stage, release, next, lost)
  PROVE  DocumentInv'
<1>1. /\ UNCHANGED <<row, linked, object, file, azure, leading, tracked, retries, faults>>
      /\ IF lost = "idle" THEN End(w) ELSE Goto(w, lost) /\ UNCHANGED job
  BY DEF Save
<1>2. OnlyLosses /\ FaultsFit /\ leading' \subseteq Schedulers
  BY <1>1, Facts, NoLosses DEF azure, FaultsFit, TypeOK
<1>3. CASE lost = "idle"
  BY <1>1, <1>2, <1>3, EndStep DEF azure
<1>4. CASE lost # "idle"
  <2>1. /\ lost \in Points /\ lost \notin Submitting /\ lost \notin InHand
        /\ lost \notin Holding /\ lost \notin Removing /\ lost \notin Awaited
        /\ lost \notin Cleaning
    BY <1>4 DEF Points, Other, Submitting, InHand, Holding, Removing, Awaited, Processing,
                Deleting, Cleaning
  <2>2. PICK l : l = job[w] /\ Moves(w, lost, l)
    BY <1>1, <1>4, <2>1, Facts, Going
  <2>3. Informed(lost, l) /\ (l.json.removed => ~object'.exists)
    BY <1>1, <1>4, <2>1, <2>2, Facts DEF WorkerFits, Informed, StageFits, Coherent
  <2>4. Informed(lost, l)'
    BY <1>1, <2>3, StillInformed DEF azure
  <2> QED BY <1>1, <1>2, <2>1, <2>2, <2>4, QuietStep DEF Prepared, azure
<1> QED BY <1>3, <1>4

\* A save that is taken, and where it leaves the worker.
LEMMA SaveStep ==
  ASSUME DocumentInv, NEW w \in Workers, NEW stage \in Stages, NEW release \in BOOLEAN,
         NEW next \in Points, NEW lost \in {"idle", "undo_scan", "undo_result"},
         Save(w, stage, release, next, lost), pc[w] \in SavePoints,
         job[w].json.op # 0 \/ stage \in Reached =>
            job[w].scan = "clean" /\ job[w].security = "clean",
         stage \in {"scanned"} \cup Reached => job[w].json.scan = 0,
         stage = "complete" => job[w].json.text,
         stage \in Unreleased => job[w].json.op = 0, stage # "none",
         whole /\ stage \in {"scanned", "starting"} => job[w].json.op = 0,
         next \notin Removing, next # "t_claim",
         \A l \in Locals : /\ Coherent(l) /\ InProcess(l) /\ Unread(l)
                           /\ SameRefs(l.json, [job[w].json EXCEPT !.stage = stage])
                           => next = "idle" \/ Informed(next, l),
         CanSave(w) /\ Present /\ Present' /\ row'.json.stage = stage
            /\ (\E l \in Locals : Moves(w, next, l))
            /\ UNCHANGED <<sent, retries>> => SubmissionsCounted'
  PROVE  DocumentInv'
<1>1. CASE ~CanSave(w)
  BY <1>1, RefusedStep
<1>2. CASE CanSave(w)
  <2>1. /\ Saves(w, stage, job[w].scan, job[w].security)
        /\ next = "idle" => End(w)
        /\ next # "idle" => \E s \in Documents :
              /\ Goto(w, next) /\ job' = [job EXCEPT ![w].json = s]
              /\ SameRefs(s, [job[w].json EXCEPT !.stage = stage])
    BY <1>2, Saved
  <2>2. /\ RowFits' /\ CopiesKnown' /\ Onward /\ Present /\ Present'
        /\ \A v \in Workers \ {w} : ClaimStands(v)
        /\ row'.json.stage = stage /\ row'.json.scan = job[w].json.scan
        /\ row'.json.op = job[w].json.op
    BY <2>1, PointSets, SavedFits
  <2>3. PICK l \in Locals :
           /\ Moves(w, next, l)
           /\ IF next = "idle" THEN l = NoJob
              ELSE /\ SameRefs(l.json, [job[w].json EXCEPT !.stage = stage])
                   /\ l.scan = job[w].scan /\ l.security = job[w].security
    <3>1. CASE next = "idle"
      BY <2>1, <3>1, Facts, Ending, NothingDone
    <3>2. CASE next # "idle"
      <4>1. PICK s \in Documents :
              /\ Goto(w, next) /\ job' = [job EXCEPT ![w].json = s]
              /\ SameRefs(s, [job[w].json EXCEPT !.stage = stage])
        BY <2>1, <3>2
      <4> DEFINE l == [job[w] EXCEPT !.json = s]
      <4>2. l \in Locals
        BY Facts DEF Locals
      <4>3. l.json = s /\ l.scan = job[w].scan /\ l.security = job[w].security
        BY Facts DEF Locals
      <4>4. job' = [job EXCEPT ![w] = l]
        BY <4>1
      <4> HIDE DEF l
      <4> QED BY <3>2, <4>1, <4>2, <4>3, <4>4, Facts, Going
    <3> QED BY <3>1, <3>2
  <2>4. SubmissionsCounted'
    BY <1>2, <2>2, <2>3 DEF Saves, azure, Save
  <2>5. WorkerFits(w)'
    <3>1. CASE next = "idle"
      <4>1. Coherent(NoJob)'
        BY <2>2, NothingDone DEF Coherent, Onward, Reached
      <4>2. /\ "idle" \notin InHand /\ "idle" \notin Removing /\ "idle" \notin Holding
            /\ "idle" \notin Awaited /\ "idle" \notin Cleaning
        BY DEF InHand, Removing, Holding, Processing, Deleting, Cleaning, Awaited
      <4> QED BY <2>3, <3>1, <4>1, <4>2 DEF WorkerFits, Informed, StageFits, Moves
    <3>2. CASE next # "idle"
      <4>1. /\ l.json.stage = stage /\ l.json.op = job[w].json.op
            /\ l.json.scan = job[w].json.scan /\ l.json.text = job[w].json.text
            /\ l.json.removed = job[w].json.removed /\ l.json.error = job[w].json.error
            /\ l.scan = job[w].scan /\ l.security = job[w].security
        BY <2>3, <3>2, Facts, StageEdit DEF SameRefs
      <4>2. Coherent(job[w]) /\ InProcess(job[w])
        BY PointSets, Facts DEF WorkerFits, Informed
      <4>3. Coherent(l) /\ InProcess(l) /\ Unread(l)
        BY <4>1, <4>2 DEF Coherent, InProcess, Unread
      <4>4. Informed(next, l)
        BY <2>3, <3>2, <4>3
      <4>5. Informed(next, l)'
        BY <4>4 DEF Informed, Coherent, InProcess, Unread, Save, file, azure
      <4>6. Standing(next, l)'
        BY <2>2, <4>1 DEF Standing
      <4> QED BY <2>3, <4>5, <4>6 DEF WorkerFits, Moves
    <3> QED BY <3>1, <3>2
  <2>6. \A v \in Workers : WorkerFits(v)'
    BY <2>2, <2>3, <2>5, OthersFit DEF Moves
  <2>7. /\ RowTyped /\ tracked' \in [scan : SUBSET (1..MaxCopies), result : SUBSET (1..MaxCopies)]
        /\ UNCHANGED <<linked, object, file, azure, leading, retries, faults>>
    BY <2>1 DEF Saves, Save
  <2> QED BY <2>2, <2>3, <2>4, <2>6, <2>7, Facts, RowStep DEF Moves, FaultsFit, TypeOK
<1> QED BY <1>1, <1>2
-----------------------------------------------------------------------------
(* The saves, one by one.                                                   *)

\* What the invariant says of one worker.
LEMMA Hands ==
  ASSUME DocumentInv, NEW w \in Workers
  PROVE  /\ Informed(pc[w], job[w]) /\ Coherent(job[w]) /\ StageFits(pc[w], job[w].json.stage)
         /\ pc[w] \in InHand => InProcess(job[w])
         /\ pc[w] \in InHand \ {"save_reading", "catch"} => Unread(job[w])
         /\ row.json.lock = w /\ pc[w] \in Holding => Standing(pc[w], job[w])
         /\ pc[w] \in Removing => ~Present
         /\ pc[w] = "t_claim" => w \in Schedulers
BY Facts DEF WorkerFits, Informed

\* A save that goes no earlier than the submission allows no new submission.
LEMMA SavesCounted ==
  ASSUME DocumentInv, NEW w \in Workers, NEW stage \in Stages, NEW next \in Points \ Submitting,
         pc[w] \in SavePoints, row.json.lock = w,
         stage \notin {"none", "queued"},
         stage \in Unreleased \cup {"scanned"} =>
            job[w].json.stage \in Unreleased \cup {"scanned"}
  PROVE  Present /\ Present' /\ row'.json.stage = stage
         /\ (\E l \in Locals : Moves(w, next, l))
         /\ UNCHANGED <<sent, retries>> => SubmissionsCounted'
<1> SUFFICES ASSUME Present, Present', row'.json.stage = stage,
                    NEW l \in Locals, Moves(w, next, l), UNCHANGED <<sent, retries>>
             PROVE  SubmissionsCounted'
  OBVIOUS
<1>1. row.json.stage = job[w].json.stage
  BY Hands, PointSets DEF Standing, SavePoints
<1>2. ScanDue' <= ScanDue /\ ResultDue' <= ResultDue
  BY <1>1 DEF ScanDue, ResultDue
<1> QED BY <1>2, CountStays, NobodySubmits

\* The save before the scan copy is made.
LEMMA SaveScanningStep ==
  ASSUME DocumentInv, NEW w \in Workers, SaveScanning(w) PROVE DocumentInv'
<1>1. /\ pc[w] = "save_scanning" /\ Save(w, "scanning", FALSE, "submit_scan", "idle")
      /\ "submit_scan" \in Points /\ "scanning" \in Stages /\ pc[w] \in SavePoints
      /\ "submit_scan" \notin Removing
  BY DEF SaveScanning, Points, Processing, Stages, Stopped, SavePoints, Removing, Deleting
<1>2. /\ job[w].json.stage = "queued" /\ job[w].json.scan = 0 /\ InProcess(job[w])
      /\ job[w].json.op = 0 /\ job[w].json \in Documents
  BY <1>1, Hands, Facts, PointSets DEF Informed, StageFits, InProcess, Unreleased
<1>3. ASSUME NEW l \in Locals, Coherent(l), InProcess(l), Unread(l),
             SameRefs(l.json, [job[w].json EXCEPT !.stage = "scanning"])
      PROVE  Informed("submit_scan", l)
  <2>1. l.json.stage = "scanning" /\ l.json.scan = 0
    BY <1>1, <1>2, <1>3, StageEdit DEF SameRefs
  <2> QED BY <1>3, <2>1 DEF Informed, StageFits, Removing, Deleting, Awaited, Cleaning
<1>4. CanSave(w) /\ Present /\ Present' /\ row'.json.stage = "scanning"
      /\ (\E l \in Locals : Moves(w, "submit_scan", l))
      /\ UNCHANGED <<sent, retries>> => SubmissionsCounted'
  <2> SUFFICES ASSUME CanSave(w), Present, Present', row'.json.stage = "scanning",
                      NEW l \in Locals, Moves(w, "submit_scan", l),
                      sent' = sent, retries' = retries
               PROVE  SubmissionsCounted'
    OBVIOUS
  <2>1. row.json.stage = "queued"
    BY <1>1, <1>2, Hands, PointSets DEF CanSave, Standing
  <2>2. ScanDue = 1 /\ ScanDue' = 0 /\ ResultDue = 1 /\ ResultDue' = 1
    BY <2>1 DEF ScanDue, ResultDue, Unreleased
  <2>3. /\ SubmissionsCounted /\ sent.scan \in Nat /\ sent.result \in Nat /\ retries \in Nat
    BY Facts
  <2>4. /\ IsFiniteSet(At("submit_scan")') /\ IsFiniteSet(At("submit_result")')
        /\ Cardinality(At("submit_scan")') = Cardinality(At("submit_scan")) + 1
        /\ Cardinality(At("submit_result")') <= Cardinality(At("submit_result"))
        /\ Cardinality(At("submit_scan")') \in Nat /\ Cardinality(At("submit_scan")) \in Nat
        /\ Cardinality(At("submit_result")') \in Nat
        /\ Cardinality(At("submit_result")) \in Nat
    BY <1>1, <2>3, CountKept DEF SubmissionsCounted
  <2> QED BY <2>2, <2>3, <2>4 DEF SubmissionsCounted
<1> QED BY <1>1, <1>2, <1>3, <1>4, SaveStep DEF Reached, Unreleased

\* The save before the extraction is submitted.
LEMMA SaveStartingStep ==
  ASSUME DocumentInv, NEW w \in Workers, SaveStarting(w) PROVE DocumentInv'
<1>1. /\ pc[w] = "save_starting" /\ Save(w, "starting", FALSE, "submit_result", "idle")
      /\ "submit_result" \in Points /\ "starting" \in Stages /\ pc[w] \in SavePoints
      /\ "submit_result" \notin Removing
  BY DEF SaveStarting, Points, Processing, Stages, Stopped, SavePoints, Removing, Deleting
<1>2. /\ job[w].json.stage = "scanned" /\ job[w].scan = "clean" /\ job[w].security = "clean"
      /\ job[w].json.scan = 0 /\ Unread(job[w]) /\ job[w].json \in Documents
  BY <1>1, Hands, Facts, PointSets DEF Informed, StageFits, Coherent
<1>3. ASSUME NEW l \in Locals, Coherent(l), InProcess(l), Unread(l),
             SameRefs(l.json, [job[w].json EXCEPT !.stage = "starting"])
      PROVE  Informed("submit_result", l)
  <2>1. l.json.stage = "starting" /\ l.json.scan = 0
    BY <1>1, <1>2, <1>3, StageEdit DEF SameRefs
  <2> QED BY <1>3, <2>1 DEF Informed, StageFits, Removing, Deleting, Awaited, Cleaning
<1>4. CanSave(w) /\ Present /\ Present' /\ row'.json.stage = "starting"
      /\ (\E l \in Locals : Moves(w, "submit_result", l))
      /\ UNCHANGED <<sent, retries>> => SubmissionsCounted'
  <2> SUFFICES ASSUME CanSave(w), Present, Present', row'.json.stage = "starting",
                      NEW l \in Locals, Moves(w, "submit_result", l),
                      sent' = sent, retries' = retries
               PROVE  SubmissionsCounted'
    OBVIOUS
  <2>1. row.json.stage = "scanned"
    BY <1>1, <1>2, Hands, PointSets DEF CanSave, Standing
  <2>2. ScanDue = 0 /\ ScanDue' = 0 /\ ResultDue = 1 /\ ResultDue' = 0
    BY <2>1 DEF ScanDue, ResultDue, Unreleased
  <2>3. /\ SubmissionsCounted /\ sent.scan \in Nat /\ sent.result \in Nat /\ retries \in Nat
    BY Facts
  <2>4. /\ IsFiniteSet(At("submit_scan")') /\ IsFiniteSet(At("submit_result")')
        /\ Cardinality(At("submit_scan")') <= Cardinality(At("submit_scan"))
        /\ Cardinality(At("submit_result")') = Cardinality(At("submit_result")) + 1
        /\ Cardinality(At("submit_scan")') \in Nat /\ Cardinality(At("submit_scan")) \in Nat
        /\ Cardinality(At("submit_result")') \in Nat
        /\ Cardinality(At("submit_result")) \in Nat
    BY <1>1, <2>3, CountKept DEF SubmissionsCounted
  <2> QED BY <2>2, <2>3, <2>4 DEF SubmissionsCounted
<1> QED BY <1>1, <1>2, <1>3, <1>4, SaveStep DEF Unread, Reached, Unreleased

\* The reference of the scan is saved, or a wait for Defender.
LEMMA SaveScanWaiting ==
  ASSUME DocumentInv, NEW w \in Workers, NEW release \in BOOLEAN,
         NEW next \in {"idle", "drop_copy"}, NEW lost \in {"idle", "undo_scan", "undo_result"},
         Save(w, "scan_waiting", release, next, lost),
         pc[w] \in {"save_scan", "save_waiting", "save_receipt"}
  PROVE  DocumentInv'
<1>1. /\ next \in Points \ Submitting /\ "scan_waiting" \in Stages /\ pc[w] \in SavePoints
      /\ next \notin Removing
  BY DEF Points, Processing, Other, Submitting, Stages, SavePoints, Removing, Deleting
<1>2. /\ job[w].json.stage \in {"scanning", "scan_waiting"} /\ InProcess(job[w])
      /\ job[w].json.op = 0 /\ job[w].json \in Documents
  BY <1>1, Hands, Facts, PointSets DEF StageFits, Awaited, InProcess, Unreleased
<1>3. ASSUME NEW l \in Locals, Coherent(l), InProcess(l), Unread(l),
             SameRefs(l.json, [job[w].json EXCEPT !.stage = "scan_waiting"])
      PROVE  next = "idle" \/ Informed(next, l)
  <2>1. l.json.stage = "scan_waiting"
    BY <1>1, <1>2, <1>3, StageEdit DEF SameRefs
  <2> QED BY <1>3, <2>1 DEF Informed, StageFits, Removing, Deleting, Awaited, Cleaning
<1>4. CanSave(w) /\ Present /\ Present' /\ row'.json.stage = "scan_waiting"
      /\ (\E l \in Locals : Moves(w, next, l))
      /\ UNCHANGED <<sent, retries>> => SubmissionsCounted'
  BY <1>1, <1>2, SavesCounted DEF CanSave, Unreleased
<1> QED BY <1>1, <1>2, <1>3, <1>4, SaveStep DEF Reached, Unreleased

\* The save of the scan's verdict.
LEMMA SaveVerdictStep ==
  ASSUME DocumentInv, NEW w \in Workers, SaveVerdict(w) PROVE DocumentInv'
<1> DEFINE stage == IF verdict = "clean" THEN "scanned" ELSE "blocked"
<1>1. /\ pc[w] = "save_verdict" /\ Save(w, stage, TRUE, "idle", "idle")
      /\ "idle" \in Points \ Submitting /\ stage \in Stages /\ pc[w] \in SavePoints
      /\ "idle" \notin Removing
  BY DEF SaveVerdict, Points, Other, Submitting, Stages, SavePoints, Removing, Deleting
<1>2. /\ job[w].json.stage = "scan_waiting" /\ job[w].json.op = 0 /\ job[w].json.scan = 0
      /\ job[w].scan = verdict /\ (verdict = "clean" => job[w].security = "clean")
  BY <1>1, Hands, Facts, PointSets DEF Informed, StageFits, Awaited, InProcess, Unreleased
<1>3. CanSave(w) /\ Present /\ Present' /\ row'.json.stage = stage
      /\ (\E l \in Locals : Moves(w, "idle", l))
      /\ UNCHANGED <<sent, retries>> => SubmissionsCounted'
  BY <1>1, <1>2, SavesCounted DEF CanSave, Unreleased
<1> QED BY <1>1, <1>2, <1>3, SaveStep DEF Reached, Unreleased

\* What follows the submission of an extraction.
LEMMA SaveExtraction ==
  ASSUME DocumentInv, NEW w \in Workers, NEW stage \in {"reading", "complete"},
         NEW release \in BOOLEAN,
         NEW next \in {"idle", "drop_result"}, NEW lost \in {"idle", "undo_scan", "undo_result"},
         Save(w, stage, release, next, lost),
         pc[w] \in {"save_reading", "save_again", "save_complete", "save_final"},
         stage = "complete" => pc[w] \in {"save_complete", "save_final"},
         next = "drop_result" => stage = "complete"
  PROVE  DocumentInv'
<1>1. /\ next \in Points \ Submitting /\ stage \in Stages /\ pc[w] \in SavePoints
      /\ next \notin Removing
  BY DEF Points, Processing, Other, Submitting, Stages, SavePoints, Removing, Deleting
<1>2. /\ job[w].json.stage \in Reached /\ InProcess(job[w]) /\ Coherent(job[w])
      /\ job[w].json \in Documents
      /\ stage = "complete" => job[w].json.text
  BY <1>1, Hands, Facts, PointSets DEF Informed, StageFits, Reached, Coherent
<1>3. ASSUME NEW l \in Locals, Coherent(l), InProcess(l), Unread(l),
             SameRefs(l.json, [job[w].json EXCEPT !.stage = stage])
      PROVE  next = "idle" \/ Informed(next, l)
  <2>1. l.json.stage = stage
    BY <1>1, <1>2, <1>3, StageEdit DEF SameRefs
  <2> QED BY <1>3, <2>1 DEF Informed, StageFits, Removing, Deleting, Awaited, Cleaning
<1>4. CanSave(w) /\ Present /\ Present' /\ row'.json.stage = stage
      /\ (\E l \in Locals : Moves(w, next, l))
      /\ UNCHANGED <<sent, retries>> => SubmissionsCounted'
  BY <1>1, <1>2, SavesCounted DEF CanSave, Unreleased, Reached
<1> QED BY <1>1, <1>2, <1>3, <1>4, SaveStep DEF Reached, Unreleased, InProcess, Coherent

\* Every save of a document in process.
LEMMA SavesStep ==
  ASSUME DocumentInv, NEW w \in Workers,
         \/ SaveScanning(w) \/ SaveScan(w) \/ SaveWaiting(w) \/ SaveReceipt(w)
         \/ SaveVerdict(w) \/ SaveStarting(w) \/ SaveReading(w) \/ SaveAgain(w)
         \/ SaveComplete(w) \/ SaveFinal(w)
  PROVE  DocumentInv'
<1>1. CASE SaveScan(w) \/ SaveWaiting(w) \/ SaveReceipt(w)
  BY <1>1, SaveScanWaiting DEF SaveScan, SaveWaiting, SaveReceipt
<1>2. CASE SaveReading(w) \/ SaveAgain(w) \/ SaveComplete(w) \/ SaveFinal(w)
  BY <1>2, SaveExtraction DEF SaveReading, SaveAgain, SaveComplete, SaveFinal
<1> QED BY <1>1, <1>2, SaveScanningStep, SaveVerdictStep, SaveStartingStep
-----------------------------------------------------------------------------
(* The other steps of processDocument.                                      *)

AtHand == (Processing \ {"claim"}) \ Submitting

\* A step of w with the document in hand, which it does not write.
LEMMA HandStep ==
  ASSUME DocumentInv, NEW w \in Workers, NEW p, NEW l \in Locals, Moves(w, p, l),
         pc[w] \in Processing \ {"claim"}, p \in AtHand \cup {"catch"},
         Coherent(l), InProcess(l), p # "catch" => Unread(l), StageFits(p, l.json.stage),
         p \in {"save_scanning", "renew", "put", "save_verdict"} => l.json.scan = 0,
         p = "get" /\ l.json.stage = "queued" => l.json.scan = 0,
         p \in {"put", "save_verdict"} =>
            /\ l.scan = verdict
            /\ l.security = IF verdict = "clean" THEN "clean" ELSE "rejected",
         p = "save_starting" => l.scan = "clean" /\ l.security = "clean",
         p = "save_complete" => l.json.text,
         l.json.removed = job[w].json.removed,
         p # "catch" => l.json.stage = job[w].json.stage,
         l.json.scan = job[w].json.scan \/ job[w].json.scan \notin scans',
         l.json.op = job[w].json.op \/ job[w].json.op \notin results',
         OnlyLosses, FaultsFit,
         UNCHANGED <<row, linked, file, sent, leading, tracked, retries>>
  PROVE  DocumentInv'
<1>1. p \notin Submitting /\ p \notin Removing /\ p # "t_claim"
  BY DEF AtHand, Processing, Submitting, Removing, Deleting
<1>2. pc[w] \in Holding /\ pc[w] # "catch"
  BY DEF Holding, Processing
<1>3. Informed(p, l)
  BY <1>1 DEF Informed, AtHand, Submitting
<1>4. row.json.lock = w => Standing(pc[w], job[w])
  BY <1>2, Hands
<1>5. ASSUME row.json.lock = w PROVE Standing(p, l)'
  <2>1. /\ row.json.stage = job[w].json.stage
        /\ row.json.scan \in scans => job[w].json.scan = row.json.scan
        /\ whole /\ row.json.op \in results => job[w].json.op = row.json.op
    BY <1>2, <1>4, <1>5 DEF Standing
  <2> QED BY <2>1 DEF Standing, OnlyLosses, file
<1>6. l.json.removed => ~object'.exists
  BY Hands DEF Coherent, OnlyLosses
<1>7. leading' \subseteq Schedulers
  BY Facts DEF TypeOK
<1> QED BY <1>1, <1>3, <1>5, <1>6, <1>7, StillInformed, QuietStep DEF Prepared


\* A worker goes on with what it has, or with a new copy of the column.
LEMMA Keeping ==
  ASSUME DocumentInv, NEW w \in Workers, NEW p \in Points, Goto(w, p), UNCHANGED job
  PROVE  Moves(w, p, job[w]) /\ job[w] \in Locals
BY Facts, Going

\* A worker goes on with its copy of extracted_json changed.
LEMMA Editing ==
  ASSUME DocumentInv, NEW w \in Workers, NEW p \in Points, Goto(w, p),
         NEW j \in Documents, job' = [job EXCEPT ![w].json = j]
  PROVE  \E l \in Locals : /\ Moves(w, p, l) /\ l.json = j
                           /\ l.scan = job[w].scan /\ l.security = job[w].security
<1> DEFINE l == [job[w] EXCEPT !.json = j]
<1>1. l \in Locals /\ l.json = j /\ l.scan = job[w].scan /\ l.security = job[w].security
  BY Facts DEF Locals
<1>2. job' = [job EXCEPT ![w] = l]
  OBVIOUS
<1> HIDE DEF l
<1> QED BY <1>1, <1>2, Facts, Going

\* Where the steps of processDocument lead.
LEMMA HandPoints ==
  /\ AtHand \cup {"catch"} \subseteq Points /\ AtHand \subseteq Processing \ {"claim"}
  /\ AtHand \subseteq InHand \ {"catch"}
  /\ (Processing \ {"claim"}) \subseteq InHand \cap Holding
  /\ {"get", "save_scanning", "save_starting", "save_receipt", "poll_scan", "save_waiting",
      "drop_copy", "drop_scan", "renew", "put", "save_verdict", "poll_result", "save_again",
      "save_complete", "drop_result", "save_final"} \subseteq AtHand
BY DEF AtHand, Points, Processing, Submitting, InHand, Holding, Other

\* A step without a fault loses nothing.
LEMMA NoFault ==
  ASSUME DocumentInv, UNCHANGED <<object, scans, results, faults>>
  PROVE  OnlyLosses /\ FaultsFit
BY NoLosses DEF FaultsFit

\* A scan copy, or a result, goes.
LEMMA CopiesGo ==
  ASSUME DocumentInv, UNCHANGED object, scans' \subseteq scans, results' \subseteq results
  PROVE  OnlyLosses
BY Facts DEF OnlyLosses, TypeOK, RowFits

\* The column once a copy is known to be gone, or a step has failed.
LEMMA ColumnEdits ==
  ASSUME NEW j \in Documents
  PROVE  /\ [j EXCEPT !.scan = 0, !.receipt = FALSE] \in Documents
         /\ [j EXCEPT !.scan = 0, !.receipt = FALSE, !.error = "none"] \in Documents
         /\ [j EXCEPT !.op = 0, !.cleanup = FALSE] \in Documents
         /\ [j EXCEPT !.op = 0, !.cleanup = FALSE, !.error = "none"] \in Documents
         /\ \A stage \in Stages, error \in {"none", "interrupted", "rescan", "incomplete"} :
               [j EXCEPT !.error = error, !.stage = stage] \in Documents
<1>1. 0 \in Copies
  BY CountAssumption DEF Copies
<1>2. [j EXCEPT !.scan = 0, !.receipt = FALSE] \in Documents
  BY <1>1 DEF Documents
<1>3. [j EXCEPT !.scan = 0, !.receipt = FALSE, !.error = "none"] \in Documents
  BY <1>1 DEF Documents
<1>4. [j EXCEPT !.op = 0, !.cleanup = FALSE] \in Documents
  BY <1>1 DEF Documents
<1>5. [j EXCEPT !.op = 0, !.cleanup = FALSE, !.error = "none"] \in Documents
  BY <1>1 DEF Documents
<1>6. \A stage \in Stages, error \in {"none", "interrupted", "rescan", "incomplete"} :
        [j EXCEPT !.error = error, !.stage = stage] \in Documents
  BY <1>1 DEF Documents, Stages
<1> QED BY <1>2, <1>3, <1>4, <1>5, <1>6

\* A copy of a scan is deleted.
LEMMA ScanGone ==
  ASSUME DocumentInv, NEW w \in Workers, DropScan(w) \/ DropCopy(w) PROVE DocumentInv'
<1> DEFINE p == IF pc[w] = "drop_scan" THEN "get" ELSE "renew"
           j == IF pc[w] = "drop_scan" THEN [job[w].json EXCEPT !.scan = 0, !.receipt = FALSE]
                ELSE [job[w].json EXCEPT !.scan = 0, !.receipt = FALSE, !.error = "none"]
<1>1. job \in [Workers -> Locals] /\ job[w] \in Locals /\ job[w].json \in Documents
  BY Facts DEF TypeOK
<1>2. /\ pc[w] \in {"drop_scan", "drop_copy"} /\ scans' = scans \ {job[w].json.scan}
      /\ Goto(w, p) /\ job' = [job EXCEPT ![w].json = j]
      /\ UNCHANGED <<row, linked, object, file, results, sent, leading, past, faults>>
  <2>1. CASE DropScan(w)
    BY <1>1, <2>1 DEF DropScan, Locals, Documents
  <2>2. CASE DropCopy(w)
    <3>1. /\ pc[w] = "drop_copy" /\ scans' = scans \ {job[w].json.scan} /\ Goto(w, "renew")
          /\ job' = [job EXCEPT ![w].json.scan = 0, ![w].json.receipt = FALSE,
                                ![w].json.error = "none"]
          /\ UNCHANGED <<row, linked, object, file, results, sent, leading, past, faults>>
      BY <2>2 DEF DropCopy
    <3>2. job' = [job EXCEPT ![w].json = [job[w].json EXCEPT !.scan = 0, !.receipt = FALSE,
                                                             !.error = "none"]]
      BY <1>1, <3>1 DEF Locals, Documents
    <3> QED BY <3>1, <3>2
  <2> QED BY <2>1, <2>2
<1>3. pc[w] \in AtHand /\ p \in AtHand /\ p \in Points /\ pc[w] \in Processing \ {"claim"}
  BY <1>2, HandPoints
<1>4. j \in Documents
  BY <1>1, ColumnEdits
<1>5. /\ j.stage = job[w].json.stage /\ j.op = job[w].json.op /\ j.scan = 0
      /\ j.text = job[w].json.text /\ j.removed = job[w].json.removed
      /\ j.error \in {job[w].json.error, "none"}
  BY <1>1 DEF Documents
<1> HIDE DEF j
<1>6. PICK l \in Locals : /\ Moves(w, p, l) /\ l.json = j
                          /\ l.scan = job[w].scan /\ l.security = job[w].security
  BY <1>2, <1>3, <1>4, Editing
<1>7. /\ Coherent(job[w]) /\ InProcess(job[w]) /\ Unread(job[w])
      /\ StageFits(pc[w], job[w].json.stage)
  BY <1>2, <1>3, HandPoints, Hands DEF AtHand
<1>8. Coherent(l) /\ InProcess(l) /\ Unread(l)
  BY <1>5, <1>6, <1>7, Facts DEF Coherent, InProcess, Unread
<1>9. StageFits(p, l.json.stage)
  BY <1>2, <1>5, <1>6, <1>7 DEF StageFits, Awaited, Removing, Deleting, Cleaning
<1>10. OnlyLosses /\ FaultsFit
  BY <1>2, CopiesGo DEF FaultsFit
<1> QED BY <1>2, <1>3, <1>5, <1>6, <1>8, <1>9, <1>10, HandStep DEF past
\* The removal of a finished extraction's result.
LEMMA DropResultStep ==
  ASSUME DocumentInv, NEW w \in Workers, DropResult(w) PROVE DocumentInv'
<1> DEFINE k == [job[w].json EXCEPT !.op = 0, !.cleanup = FALSE]
<1>1. job \in [Workers -> Locals] /\ job[w] \in Locals /\ job[w].json \in Documents
  BY Facts DEF TypeOK
<1>2. /\ pc[w] = "drop_result" /\ Goto(w, "save_final")
      /\ UNCHANGED <<row, linked, object, file, scans, sent, leading, past>>
      /\ \/ /\ results' = results \ {job[w].json.op} /\ UNCHANGED faults
            /\ job' = [job EXCEPT ![w].json.op = 0, ![w].json.cleanup = FALSE]
         \/ Fault /\ UNCHANGED <<results, job>>
  BY DEF DropResult
<1>3. /\ "save_final" \in AtHand /\ "save_final" \in Points /\ pc[w] \in AtHand
      /\ pc[w] \in Processing \ {"claim"}
  BY <1>2, HandPoints
<1>4. /\ k \in Documents /\ k.stage = job[w].json.stage /\ k.scan = job[w].json.scan
      /\ k.op = 0 /\ k.text = job[w].json.text /\ k.removed = job[w].json.removed
      /\ k.error = job[w].json.error
  <2>1. k \in Documents
    BY <1>1, ColumnEdits
  <2> QED BY <1>1, <2>1 DEF Documents
<1> HIDE DEF k
<1>5. /\ Coherent(job[w]) /\ InProcess(job[w]) /\ Unread(job[w])
      /\ job[w].json.stage = "complete"
  BY <1>2, <1>3, HandPoints, Hands DEF AtHand, StageFits
<1>6. FaultsFit /\ OnlyLosses
  <2>1. results' \subseteq results /\ scans' = scans /\ object' = object
    BY <1>2
  <2> QED BY <1>2, <2>1, CopiesGo DEF FaultsFit
<1>7. ASSUME NEW l \in Locals, Moves(w, "save_final", l), l.scan = job[w].scan,
             l.security = job[w].security,
             l.json = job[w].json \/ (l.json = k /\ job[w].json.op \notin results')
      PROVE  DocumentInv'
  <2>1. /\ l.json.stage = "complete" /\ l.json.scan = job[w].json.scan
        /\ l.json.text = job[w].json.text /\ l.json.removed = job[w].json.removed
        /\ l.json.error = job[w].json.error
        /\ l.json.op = job[w].json.op \/ (l.json.op = 0 /\ job[w].json.op \notin results')
    BY <1>4, <1>5, <1>7
  <2>2. Coherent(l) /\ InProcess(l) /\ Unread(l)
    BY <1>5, <1>7, <2>1, Facts DEF Coherent, InProcess, Unread
  <2>3. StageFits("save_final", l.json.stage)
    BY <2>1 DEF StageFits, Awaited, Removing, Deleting
  <2> QED BY <1>2, <1>3, <1>5, <1>6, <1>7, <2>1, <2>2, <2>3, HandStep DEF past
<1>8. CASE job' = [job EXCEPT ![w].json.op = 0, ![w].json.cleanup = FALSE]
           /\ results' = results \ {job[w].json.op}
  <2>1. job' = [job EXCEPT ![w].json = k]
    BY <1>1, <1>8 DEF k, Locals, Documents
  <2>2. PICK l \in Locals : /\ Moves(w, "save_final", l) /\ l.json = k
                            /\ l.scan = job[w].scan /\ l.security = job[w].security
    BY <1>2, <1>3, <1>4, <2>1, Editing
  <2> QED BY <1>7, <1>8, <2>2
<1>9. CASE UNCHANGED <<results, job>>
  BY <1>2, <1>3, <1>7, <1>9, Keeping
<1> QED BY <1>2, <1>8, <1>9

\* Steps that look at the original, at the scan or at the extraction.
LEMMA LooksStep ==
  ASSUME DocumentInv, NEW w \in Workers, NEW p, NEW l \in Locals, Moves(w, p, l),
         pc[w] \in {"get", "poll_scan", "poll_result"},
         p \in {"save_scanning", "save_starting", "save_receipt", "poll_scan",
                "save_waiting", "save_again", "save_complete", "catch"},
         l.scan = job[w].scan, l.security = job[w].security,
         /\ l.json.stage = job[w].json.stage /\ l.json.op = job[w].json.op
         /\ l.json.scan = job[w].json.scan /\ l.json.removed = job[w].json.removed,
         StageFits(p, l.json.stage),
         job[w].json.text => l.json.text,
         whole => l.json.error # "incomplete",
         p = "save_starting" => l.scan = "clean" /\ l.security = "clean",
         p = "save_complete" => l.json.text,
         UNCHANGED <<row, linked, object, file, azure, leading, past, faults>>
  PROVE  DocumentInv'
<1>1. /\ pc[w] \in Processing \ {"claim"} /\ p \in AtHand \cup {"catch"}
      /\ pc[w] \in InHand \ {"save_reading", "catch"}
  BY HandPoints DEF AtHand
<1>2. Coherent(job[w]) /\ InProcess(job[w]) /\ Unread(job[w])
      /\ Informed(pc[w], job[w])
  BY <1>1, Hands
<1>3. Coherent(l) /\ InProcess(l) /\ Unread(l)
  BY <1>2 DEF Coherent, InProcess, Unread
<1>4. p = "save_scanning" => l.json.scan = 0
  <2>1. p = "save_scanning" => pc[w] = "get" /\ l.json.stage = "queued"
    BY <1>2 DEF StageFits, Informed, Awaited
  <2> QED BY <1>2, <2>1 DEF Informed
<1>5. OnlyLosses /\ FaultsFit
  BY NoFault DEF azure
<1> QED BY <1>1, <1>3, <1>4, <1>5, HandStep DEF azure, past

\* The read of the stored original.
LEMMA GetOriginalStep ==
  ASSUME DocumentInv, NEW w \in Workers, GetOriginal(w) PROVE DocumentInv'
<1> DEFINE p == CASE job[w].json.stage = "queued"  -> "save_scanning"
                  [] job[w].json.stage = "scanned" -> "save_starting"
                  [] OTHER -> IF job[w].json.receipt THEN "save_receipt" ELSE "poll_scan"
<1>1. /\ pc[w] = "get" /\ ~MustThrow(w) /\ Goto(w, p) /\ UNCHANGED job
      /\ UNCHANGED <<row, linked, object, file, azure, leading, past, faults>>
  BY DEF GetOriginal
<1>2. job[w].json.stage \in {"queued", "scan_waiting", "scanned"} /\ Coherent(job[w])
  BY <1>1, Hands DEF StageFits
<1>3. /\ p \in {"save_scanning", "save_starting", "save_receipt", "poll_scan"}
      /\ p = "save_scanning" => job[w].json.stage = "queued"
      /\ p = "save_starting" => job[w].json.stage = "scanned"
      /\ p \in {"save_receipt", "poll_scan"} => job[w].json.stage = "scan_waiting"
  BY <1>2
<1>4. p \in Points
  BY <1>3, HandPoints
<1>5. p = "save_starting" => job[w].scan = "clean" /\ job[w].security = "clean"
  BY <1>1, <1>3 DEF MustThrow
<1> HIDE DEF p
<1>6. StageFits(p, job[w].json.stage)
  BY <1>3 DEF StageFits, Awaited, Removing, Deleting, Cleaning
<1>7. Moves(w, p, job[w]) /\ job[w] \in Locals
  BY <1>1, <1>4, Keeping
<1> QED BY <1>1, <1>2, <1>3, <1>5, <1>6, <1>7, LooksStep DEF Coherent

\* The look at the scan's result.
LEMMA PollScanStep ==
  ASSUME DocumentInv, NEW w \in Workers, PollScan(w) PROVE DocumentInv'
<1> DEFINE k == [job[w].json EXCEPT !.receipt = TRUE]
<1>1. /\ pc[w] = "poll_scan"
      /\ \/ Goto(w, "save_waiting") /\ UNCHANGED job
         \/ Goto(w, "save_receipt") /\ job' = [job EXCEPT ![w].json.receipt = TRUE]
      /\ UNCHANGED <<row, linked, object, file, azure, leading, past, faults>>
  BY DEF PollScan
<1>2. /\ job \in [Workers -> Locals] /\ job[w] \in Locals /\ job[w].json \in Documents
      /\ Coherent(job[w]) /\ job[w].json.stage = "scan_waiting"
      /\ {"save_waiting", "save_receipt"} \subseteq Points
  BY <1>1, Facts, Hands, HandPoints DEF TypeOK, StageFits, Awaited
<1>3. /\ k \in Documents /\ k.stage = job[w].json.stage /\ k.scan = job[w].json.scan
      /\ k.op = job[w].json.op /\ k.text = job[w].json.text
      /\ k.removed = job[w].json.removed /\ k.error = job[w].json.error
  BY <1>2 DEF Documents
<1> HIDE DEF k
<1>4. StageFits("save_waiting", "scan_waiting") /\ StageFits("save_receipt", "scan_waiting")
  BY DEF StageFits, Awaited, Removing, Deleting, Cleaning
<1>5. CASE Goto(w, "save_waiting") /\ UNCHANGED job
  <2>1. Moves(w, "save_waiting", job[w])
    BY <1>2, <1>5, Keeping
  <2> QED BY <1>1, <1>2, <1>4, <2>1, LooksStep DEF Coherent
<1>6. CASE Goto(w, "save_receipt") /\ job' = [job EXCEPT ![w].json.receipt = TRUE]
  <2>1. job' = [job EXCEPT ![w].json = k]
    BY <1>2, <1>6 DEF k, Locals
  <2>2. PICK l \in Locals : /\ Moves(w, "save_receipt", l) /\ l.json = k
                            /\ l.scan = job[w].scan /\ l.security = job[w].security
    BY <1>2, <1>3, <1>6, <2>1, Editing
  <2> QED BY <1>1, <1>2, <1>3, <1>4, <2>2, LooksStep DEF Coherent
<1> QED BY <1>1, <1>5, <1>6

\* The look at the extraction's result.
LEMMA PollResultStep ==
  ASSUME DocumentInv, NEW w \in Workers, PollResult(w) PROVE DocumentInv'
<1> DEFINE k == [job[w].json EXCEPT !.text = TRUE, !.cleanup = TRUE, !.error = "none"]
           l1 == [job[w] EXCEPT !.json = k, !.extraction = "complete"]
           i == [job[w].json EXCEPT !.error = "incomplete"]
<1>1. /\ pc[w] = "poll_result"
      /\ \/ Goto(w, "save_again") /\ UNCHANGED job
         \/ /\ Goto(w, "save_complete")
            /\ job' = [job EXCEPT ![w].json.text = TRUE, ![w].json.cleanup = TRUE,
                                  ![w].json.error = "none", ![w].extraction = "complete"]
         \/ ~whole /\ Goto(w, "catch") /\ job' = [job EXCEPT ![w].json.error = "incomplete"]
      /\ UNCHANGED <<row, linked, object, file, azure, leading, past, faults>>
  BY DEF PollResult
<1>2. /\ job \in [Workers -> Locals] /\ job[w] \in Locals /\ job[w].json \in Documents
      /\ Coherent(job[w]) /\ job[w].json.stage = "reading" /\ TypeOK
      /\ {"save_again", "save_complete", "catch"} \subseteq Points
  BY <1>1, Facts, Hands, HandPoints DEF TypeOK, StageFits
<1>3. /\ k \in Documents /\ k.stage = job[w].json.stage /\ k.scan = job[w].json.scan
      /\ k.op = job[w].json.op /\ k.text /\ k.error = "none"
      /\ k.removed = job[w].json.removed
  <2>1. k \in Documents
    BY <1>2 DEF Documents
  <2> QED BY <1>2, <2>1 DEF Documents
<1>4. /\ i \in Documents /\ i.stage = job[w].json.stage /\ i.scan = job[w].json.scan
      /\ i.op = job[w].json.op /\ i.text = job[w].json.text
      /\ i.removed = job[w].json.removed
  BY <1>2 DEF Documents
<1>5. StageFits("save_again", "reading") /\ StageFits("save_complete", "reading")
      /\ StageFits("catch", "reading")
  BY DEF StageFits, Awaited, Removing, Deleting, Cleaning
<1>6. CASE Goto(w, "save_again") /\ UNCHANGED job
  <2>1. Moves(w, "save_again", job[w])
    BY <1>2, <1>6, Keeping
  <2> QED BY <1>1, <1>2, <1>5, <2>1, LooksStep DEF Coherent
<1>7. CASE /\ Goto(w, "save_complete")
           /\ job' = [job EXCEPT ![w].json.text = TRUE, ![w].json.cleanup = TRUE,
                                 ![w].json.error = "none", ![w].extraction = "complete"]
  <2>1. job' = [job EXCEPT ![w] = l1]
    BY <1>2, <1>7 DEF Locals, Documents
  <2> HIDE DEF k
  <2>2. l1 \in Locals /\ l1.json = k /\ l1.scan = job[w].scan
        /\ l1.security = job[w].security
    BY <1>2, <1>3 DEF Locals, Extractions
  <2> HIDE DEF l1
  <2>3. Moves(w, "save_complete", l1)
    BY <1>2, <1>7, <2>1, <2>2, Going
  <2> QED BY <1>1, <1>2, <1>3, <1>5, <2>2, <2>3, LooksStep
<1>8. CASE ~whole /\ Goto(w, "catch") /\ job' = [job EXCEPT ![w].json.error = "incomplete"]
  <2>1. job' = [job EXCEPT ![w].json = i]
    BY <1>2, <1>8 DEF Locals
  <2> HIDE DEF i
  <2>2. PICK l \in Locals : /\ Moves(w, "catch", l) /\ l.json = i
                            /\ l.scan = job[w].scan /\ l.security = job[w].security
    BY <1>2, <1>4, <1>8, <2>1, Editing
  <2> QED BY <1>1, <1>2, <1>4, <1>5, <1>8, <2>2, LooksStep
<1> QED BY <1>1, <1>6, <1>7, <1>8

\* The original is released, or marked as rejected, by what the scan found.
LEMMA PutStep ==
  ASSUME DocumentInv, NEW w \in Workers, Put(w) PROVE DocumentInv'
<1> DEFINE l == [job[w] EXCEPT !.extraction =
                                 IF verdict = "clean" THEN "pending" ELSE "not_configured"]
<1>1. /\ pc[w] = "put"
      /\ IF object.exists
         THEN /\ object' = [object EXCEPT !.security = job[w].security]
              /\ job' = [job EXCEPT ![w] = l]
              /\ Goto(w, "save_verdict")
         ELSE End(w) /\ UNCHANGED object
      /\ UNCHANGED <<row, linked, file, azure, leading, past, faults>>
  BY DEF Put
<1>2. /\ job[w] \in Locals /\ TypeOK /\ "save_verdict" \in Points
      /\ pc[w] \in Processing \ {"claim"} /\ "save_verdict" \in AtHand
      /\ pc[w] \in InHand \ {"save_reading", "catch"}
  BY <1>1, Facts, HandPoints
<1>3. /\ Informed(pc[w], job[w]) /\ Coherent(job[w]) /\ InProcess(job[w]) /\ Unread(job[w])
      /\ job[w].json.stage = "scan_waiting" /\ job[w].json.scan = 0
      /\ job[w].scan = verdict
      /\ job[w].security = IF verdict = "clean" THEN "clean" ELSE "rejected"
  BY <1>1, <1>2, Hands DEF Informed, StageFits, Awaited
<1>4. CASE object.exists
  <2>1. l \in Locals /\ l.json = job[w].json /\ l.scan = job[w].scan
        /\ l.security = job[w].security
    BY <1>2 DEF Locals, Extractions
  <2> HIDE DEF l
  <2>2. Moves(w, "save_verdict", l)
    BY <1>1, <1>2, <1>4, <2>1, Going
  <2>3. /\ object' \in [exists : BOOLEAN, security : Securities]
        /\ object'.exists = object.exists /\ object'.security = job[w].security
    BY <1>1, <1>2, <1>4 DEF TypeOK, Locals
  <2>4. OnlyLosses /\ FaultsFit
    BY <1>1, <1>3, <2>3 DEF OnlyLosses, FaultsFit, azure
  <2>5. Coherent(l) /\ InProcess(l) /\ Unread(l) /\ StageFits("save_verdict", l.json.stage)
    BY <1>3, <2>1 DEF Coherent, InProcess, Unread, StageFits, Awaited, Removing, Deleting,
                      Cleaning
  <2> QED BY <1>1, <1>2, <1>3, <2>1, <2>2, <2>4, <2>5, HandStep DEF past, azure
<1>5. CASE ~object.exists
  <2>1. End(w) /\ UNCHANGED object
    BY <1>1, <1>5
  <2>2. OnlyLosses /\ FaultsFit /\ leading' \subseteq Schedulers
    BY <1>1, <1>2, <2>1, NoFault DEF azure, TypeOK
  <2> QED BY <1>1, <2>1, <2>2, EndStep DEF past, azure
<1> QED BY <1>4, <1>5

\* A submission whose answer says it was refused.
LEMMA UndoStep ==
  ASSUME DocumentInv, NEW w \in Workers, UndoScan(w) \/ UndoResult(w) PROVE DocumentInv'
<1>1. /\ UNCHANGED <<row, linked, object, file, sent, leading, past>> /\ End(w)
      /\ scans' \subseteq scans /\ results' \subseteq results /\ FaultsFit
  BY DEF UndoScan, UndoResult, FaultsFit
<1>2. OnlyLosses /\ leading' \subseteq Schedulers
  BY <1>1, Facts, CopiesGo DEF TypeOK
<1> QED BY <1>1, <1>2, EndStep DEF past

\* A call throws, and nothing is lost or made but perhaps a copy of a scan.
LEMMA CaughtStep ==
  ASSUME DocumentInv, NEW w \in Workers, NEW l \in Locals, Moves(w, "catch", l),
         pc[w] \in Processing \ {"claim"},
         l.scan = job[w].scan, l.security = job[w].security,
         /\ l.json.op = job[w].json.op /\ l.json.scan = job[w].json.scan
         /\ l.json.text = job[w].json.text /\ l.json.removed = job[w].json.removed,
         l.json.error # "incomplete",
         \/ l.json.stage = job[w].json.stage
         \/ pc[w] \in {"save_complete", "save_final"} /\ l.json.stage = "complete",
         scans' \subseteq scans, FaultsFit,
         UNCHANGED <<row, linked, object, file, results, sent, leading, tracked, retries>>
  PROVE  DocumentInv'
<1>1. pc[w] \in InHand /\ pc[w] # "catch"
  BY HandPoints DEF Processing
<1>2. /\ Coherent(job[w]) /\ InProcess(job[w]) /\ Informed(pc[w], job[w])
  BY <1>1, Hands
<1>3. pc[w] \in {"save_complete", "save_final"} =>
        job[w].json.stage \in Reached /\ job[w].json.text
  BY <1>2 DEF Informed, StageFits, Reached, Coherent
<1>4. Coherent(l) /\ InProcess(l)
  BY <1>2, <1>3 DEF Coherent, InProcess, Reached, Unreleased
<1>5. StageFits("catch", l.json.stage)
  BY DEF StageFits, Awaited, Removing, Deleting, Cleaning
<1>6. OnlyLosses
  BY CopiesGo
<1> QED BY <1>4, <1>5, <1>6, HandStep

\* The errors the process throws.
LEMMA ThrowStep ==
  ASSUME DocumentInv, NEW w \in Workers, Throw(w) PROVE DocumentInv'
<1>1. PICK error \in {"interrupted", "rescan"} :
        /\ pc[w] \in Processing \ {"claim", "drop_result"}
        /\ FaultsFit
        /\ job' = [job EXCEPT ![w].json.error = error,
                     ![w].json.stage = IF pc[w] \in {"save_complete", "save_final"}
                                       THEN "complete" ELSE @]
        /\ Goto(w, "catch")
        /\ UNCHANGED <<row, linked, object, file, azure, leading, past>>
  BY DEF Throw, FaultsFit
<1> DEFINE stage == IF pc[w] \in {"save_complete", "save_final"} THEN "complete"
                    ELSE job[w].json.stage
           k == [job[w].json EXCEPT !.error = error, !.stage = stage]
<1>2. job \in [Workers -> Locals] /\ job[w] \in Locals /\ job[w].json \in Documents
      /\ "catch" \in Points
  BY Facts, HandPoints DEF TypeOK
<1>3. stage \in Stages
  BY <1>2 DEF Documents, Stages
<1>4. job' = [job EXCEPT ![w].json = k]
  <2>1. job' = [job EXCEPT ![w].json.error = error, ![w].json.stage = stage]
    <3>1. CASE pc[w] \in {"save_complete", "save_final"}
      BY <1>1, <3>1
    <3>2. CASE pc[w] \notin {"save_complete", "save_final"}
      <4>1. job' = [job EXCEPT ![w].json.error = error, ![w].json.stage = @]
        BY <1>1, <3>2
      <4> QED BY <1>2, <3>2, <4>1 DEF Locals, Documents
    <3> QED BY <3>1, <3>2
  <2> HIDE DEF stage
  <2> QED BY <1>2, <2>1 DEF Locals, Documents
<1> HIDE DEF stage
<1>5. k \in Documents
  BY <1>2, <1>3, ColumnEdits
<1>6. /\ k.stage = stage /\ k.error = error /\ k.op = job[w].json.op
      /\ k.scan = job[w].json.scan /\ k.text = job[w].json.text
      /\ k.removed = job[w].json.removed
  BY <1>2 DEF Documents
<1> HIDE DEF k
<1>7. PICK l \in Locals : /\ Moves(w, "catch", l) /\ l.json = k
                          /\ l.scan = job[w].scan /\ l.security = job[w].security
  BY <1>1, <1>2, <1>4, <1>5, Editing, ZenonT(60)
<1> QED BY <1>1, <1>6, <1>7, CaughtStep DEF stage, azure, past

\* A submission reaches the provider.
LEMMA SubmitsStep ==
  ASSUME DocumentInv, NEW w \in Workers, SubmitScan(w) \/ SubmitResult(w) PROVE DocumentInv'
<1> DEFINE k1 == [job[w].json EXCEPT !.scan = sent.scan + 1, !.receipt = FALSE]
           l1 == [job[w] EXCEPT !.json = k1, !.scan = "pending", !.security = "quarantined"]
           k2 == [job[w].json EXCEPT !.op = sent.result + 1, !.error = "none"]
           l2 == [job[w] EXCEPT !.json = k2, !.extraction = "pending"]
<1>1. /\ job \in [Workers -> Locals] /\ job[w] \in Locals /\ job[w].json \in Documents
      /\ TypeOK /\ sent.scan \in Nat /\ sent.result \in Nat
      /\ row.json.scan \in Nat /\ row.json.op \in Nat
      /\ row.json.scan <= sent.scan /\ row.json.op <= sent.result
      /\ scans \subseteq 1..MaxCopies /\ results \subseteq 1..MaxCopies /\ MaxCopies \in Nat
  BY Facts, Numbers, CountAssumption DEF TypeOK, RowFits, Coherent
<1>2. CASE SubmitScan(w)
  <2>1. /\ pc[w] = "submit_scan" /\ sent.scan < MaxCopies /\ Goto(w, "save_scan")
        /\ sent' = [sent EXCEPT !.scan = @ + 1] /\ scans' = scans \cup {sent.scan + 1}
        /\ job' = [job EXCEPT ![w].json.scan = sent.scan + 1, ![w].json.receipt = FALSE,
                              ![w].scan = "pending", ![w].security = "quarantined"]
        /\ UNCHANGED <<row, linked, object, file, results, leading, past, faults>>
    BY <1>2 DEF SubmitScan
  <2>2. sent.scan + 1 \in Copies
    BY <1>1, <2>1 DEF Copies
  <2>3. k1 \in Documents
    BY <1>1, <2>2 DEF Documents
  <2>4. /\ k1.stage = job[w].json.stage /\ k1.scan = sent.scan + 1 /\ k1.op = job[w].json.op
        /\ k1.text = job[w].json.text /\ k1.removed = job[w].json.removed
        /\ k1.error = job[w].json.error
    BY <1>1 DEF Documents
  <2>5. job' = [job EXCEPT ![w] = l1]
    BY <1>1, <2>1 DEF Locals, Documents
  <2> HIDE DEF k1
  <2>6. l1 \in Locals /\ l1.json = k1 /\ l1.scan = "pending"
    BY <1>1, <2>3 DEF Locals, Scans, Securities
  <2> HIDE DEF l1
  <2>7. /\ "save_scan" \in Points /\ pc[w] \in InHand \ {"save_reading", "catch"}
        /\ pc[w] \in Holding /\ pc[w] # "catch" /\ pc[w] \in Submitting
        /\ "save_scan" \notin Submitting /\ "save_scan" \notin Removing
    BY <2>1 DEF Points, InHand, Holding, Processing, Submitting, Removing, Deleting
  <2>8. PICK l \in Locals :
           /\ Moves(w, "save_scan", l) /\ l.scan = "pending"
           /\ l.json.stage = job[w].json.stage /\ l.json.scan = sent.scan + 1
           /\ l.json.op = job[w].json.op /\ l.json.text = job[w].json.text
           /\ l.json.removed = job[w].json.removed /\ l.json.error = job[w].json.error
    <3>1. Moves(w, "save_scan", l1)
      BY <1>1, <2>1, <2>5, <2>6, <2>7, Going
    <3> QED BY <2>4, <2>6, <3>1
  <2>9. /\ Coherent(job[w]) /\ InProcess(job[w]) /\ job[w].json.stage = "scanning"
        /\ job[w].json.scan = 0 /\ job[w].json.op = 0
        /\ row.json.lock = w => Standing(pc[w], job[w])
    BY <2>1, <2>7, Hands DEF Informed, StageFits, InProcess, Unreleased
  <2>10. sent'.scan = sent.scan + 1 /\ sent'.result = sent.result
    BY <1>1, <2>1 DEF TypeOK
  <2>11. Informed("save_scan", l)'
    <3>1. Coherent(l)'
      BY <1>1, <2>1, <2>8, <2>9, <2>10 DEF Coherent, Reached, file
    <3>2. InProcess(l)' /\ Unread(l)'
      BY <2>8, <2>9 DEF InProcess, Unread, Reached, Unreleased
    <3>3. StageFits("save_scan", l.json.stage)
      BY <2>8, <2>9 DEF StageFits, Awaited, Removing, Deleting, Cleaning
    <3> QED BY <3>1, <3>2, <3>3 DEF Informed
  <2>12. ASSUME row.json.lock = w PROVE Standing("save_scan", l)'
    <3>1. row.json.scan \notin scans'
      BY <1>1, <2>1, <2>9, <2>12 DEF Standing
    <3> QED BY <2>1, <2>8, <2>7, <2>9, <2>12, <3>1 DEF Standing, file
  <2> QED BY <2>1, <2>7, <2>8, <2>11, <2>12, SubmitStep DEF FaultsFit, past
<1>3. CASE SubmitResult(w)
  <2>1. /\ pc[w] = "submit_result" /\ sent.result < MaxCopies /\ Goto(w, "save_reading")
        /\ sent' = [sent EXCEPT !.result = @ + 1]
        /\ results' = results \cup {sent.result + 1}
        /\ job' = [job EXCEPT ![w].json.op = sent.result + 1, ![w].json.error = "none",
                              ![w].extraction = "pending"]
        /\ UNCHANGED <<row, linked, object, file, scans, leading, past, faults>>
    BY <1>3 DEF SubmitResult
  <2>2. sent.result + 1 \in Copies
    BY <1>1, <2>1 DEF Copies
  <2>3. k2 \in Documents
    BY <1>1, <2>2 DEF Documents
  <2>4. /\ k2.stage = job[w].json.stage /\ k2.op = sent.result + 1
        /\ k2.scan = job[w].json.scan /\ k2.text = job[w].json.text
        /\ k2.removed = job[w].json.removed /\ k2.error = "none"
    BY <1>1 DEF Documents
  <2>5. job' = [job EXCEPT ![w] = l2]
    BY <1>1, <2>1 DEF Locals, Documents
  <2> HIDE DEF k2
  <2>6. l2 \in Locals /\ l2.json = k2 /\ l2.scan = job[w].scan
        /\ l2.security = job[w].security
    BY <1>1, <2>3 DEF Locals, Extractions
  <2> HIDE DEF l2
  <2>7. /\ "save_reading" \in Points /\ pc[w] \in InHand \ {"save_reading", "catch"}
        /\ pc[w] \in Holding /\ pc[w] # "catch" /\ pc[w] \in Submitting
        /\ "save_reading" \notin Submitting /\ "save_reading" \notin Removing
    BY <2>1 DEF Points, InHand, Holding, Processing, Submitting, Removing, Deleting
  <2>8. PICK l \in Locals :
           /\ Moves(w, "save_reading", l)
           /\ l.scan = job[w].scan /\ l.security = job[w].security
           /\ l.json.stage = job[w].json.stage /\ l.json.op = sent.result + 1
           /\ l.json.scan = job[w].json.scan /\ l.json.text = job[w].json.text
           /\ l.json.removed = job[w].json.removed /\ l.json.error = "none"
    <3>1. Moves(w, "save_reading", l2)
      BY <1>1, <2>1, <2>5, <2>6, <2>7, Going
    <3> QED BY <2>4, <2>6, <3>1
  <2>9. /\ Coherent(job[w]) /\ InProcess(job[w]) /\ job[w].json.stage = "starting"
        /\ whole => job[w].json.op = 0
        /\ row.json.lock = w => Standing(pc[w], job[w])
    BY <2>1, <2>7, Hands DEF Informed, StageFits, Unread
  <2>10. sent'.scan = sent.scan /\ sent'.result = sent.result + 1
    BY <1>1, <2>1 DEF TypeOK
  <2>11. Informed("save_reading", l)'
    <3>1. Coherent(l)'
      BY <1>1, <2>1, <2>8, <2>9, <2>10 DEF Coherent, Reached, file
    <3>2. InProcess(l)'
      BY <2>1, <2>8, <2>9 DEF InProcess, Reached, Unreleased, file
    <3>3. StageFits("save_reading", l.json.stage)
      BY <2>8, <2>9 DEF StageFits, Awaited, Removing, Deleting, Cleaning
    <3> QED BY <3>1, <3>2, <3>3 DEF Informed
  <2>12. ASSUME row.json.lock = w PROVE Standing("save_reading", l)'
    <3>1. ~(whole /\ row.json.op \in results')
      BY <1>1, <2>1, <2>9, <2>12 DEF Standing
    <3> QED BY <2>1, <2>8, <2>7, <2>9, <2>12, <3>1 DEF Standing, file
  <2> QED BY <2>1, <2>7, <2>8, <2>11, <2>12, SubmitStep DEF FaultsFit, past
<1> QED BY <1>2, <1>3

\* The provider did the work, its answer is lost.
LEMMA LoseAnswerStep ==
  ASSUME DocumentInv, NEW w \in Workers, LoseAnswer(w) PROVE DocumentInv'
<1> DEFINE k == [job[w].json EXCEPT !.error = "interrupted"]
<1>1. /\ Fault /\ Goto(w, "catch")
      /\ job' = [job EXCEPT ![w].json.error = "interrupted"]
      /\ UNCHANGED <<row, linked, object, file, leading, past>>
      /\ \/ /\ pc[w] = "submit_scan" /\ sent.scan < MaxCopies
            /\ sent' = [sent EXCEPT !.scan = @ + 1]
            /\ scans' = scans \cup {sent.scan + 1} /\ UNCHANGED results
         \/ /\ pc[w] = "submit_result" /\ sent.result < MaxCopies
            /\ sent' = [sent EXCEPT !.result = @ + 1]
            /\ results' = results \cup {sent.result + 1} /\ UNCHANGED scans
         \/ /\ pc[w] \in {"drop_scan", "drop_copy"}
            /\ scans' = scans \ {job[w].json.scan} /\ UNCHANGED <<results, sent>>
  BY DEF LoseAnswer
<1>2. /\ job \in [Workers -> Locals] /\ job[w] \in Locals /\ job[w].json \in Documents
      /\ TypeOK /\ sent.scan \in Nat /\ sent.result \in Nat /\ "catch" \in Points
      /\ row.json.scan <= sent.scan /\ row.json.op <= sent.result
      /\ row.json.scan \in Nat /\ row.json.op \in Nat
      /\ job[w].json.scan \in Nat /\ job[w].json.op \in Nat
  BY Facts, Numbers, HandPoints DEF TypeOK, RowFits, Coherent
<1>3. /\ k \in Documents /\ k.error = "interrupted" /\ k.stage = job[w].json.stage
      /\ k.op = job[w].json.op /\ k.scan = job[w].json.scan /\ k.text = job[w].json.text
      /\ k.removed = job[w].json.removed
  BY <1>2 DEF Documents
<1>4. job' = [job EXCEPT ![w].json = k]
  BY <1>1, <1>2 DEF Locals
<1> HIDE DEF k
<1>5. PICK l \in Locals : /\ Moves(w, "catch", l) /\ l.json = k
                          /\ l.scan = job[w].scan /\ l.security = job[w].security
  <2>1. Goto(w, "catch") /\ k \in Documents /\ "catch" \in Points
    BY <1>1, <1>2, <1>3
  <2> QED BY <1>4, <2>1, Editing
<1>6. CASE pc[w] \in {"drop_scan", "drop_copy"}
  <2>1. pc[w] \in Processing \ {"claim"}
    BY <1>6 DEF Processing
  <2>2. scans' \subseteq scans /\ UNCHANGED <<results, sent>>
    BY <1>1, <1>6
  <2> QED BY <1>1, <1>3, <1>5, <2>1, <2>2, CaughtStep DEF FaultsFit, past
<1>7. CASE pc[w] \in Submitting
  <2>1. /\ pc[w] \in InHand /\ pc[w] \in Holding /\ pc[w] # "catch"
        /\ "catch" \notin Submitting /\ "catch" \notin Removing
    BY <1>7 DEF Submitting, InHand, Holding, Processing, Removing, Deleting
  <2>2. /\ Coherent(job[w]) /\ InProcess(job[w])
        /\ row.json.lock = w => Standing(pc[w], job[w])
    BY <2>1, Hands
  <2>3. /\ sent'.scan \in {sent.scan, sent.scan + 1}
        /\ sent'.result \in {sent.result, sent.result + 1}
        /\ scans' \subseteq scans \cup {sent.scan + 1}
        /\ results' \subseteq results \cup {sent.result + 1}
    BY <1>1, <1>2 DEF TypeOK
  <2>4. Informed("catch", l)'
    <3>1. Coherent(l)'
      BY <1>1, <1>2, <1>3, <1>5, <2>2, <2>3 DEF Coherent, file
    <3>2. InProcess(l)'
      BY <1>1, <1>3, <1>5, <2>2 DEF InProcess, file
    <3>3. StageFits("catch", l.json.stage)
      BY DEF StageFits, Awaited, Removing, Deleting, Cleaning
    <3> QED BY <3>1, <3>2, <3>3 DEF Informed
  <2>5. ASSUME row.json.lock = w PROVE Standing("catch", l)'
    <3>1. /\ row.json.scan \in scans' => row.json.scan \in scans
          /\ row.json.op \in results' => row.json.op \in results
      BY <1>2, <2>3
    <3> QED BY <1>1, <1>3, <1>5, <2>2, <2>5, <3>1 DEF Standing, file
  <2>6. \/ /\ pc[w] = "submit_scan" /\ sent.scan < MaxCopies
           /\ sent' = [sent EXCEPT !.scan = @ + 1]
           /\ scans' = scans \cup {sent.scan + 1} /\ results' = results
        \/ /\ pc[w] = "submit_result" /\ sent.result < MaxCopies
           /\ sent' = [sent EXCEPT !.result = @ + 1]
           /\ results' = results \cup {sent.result + 1} /\ scans' = scans
    BY <1>1, <1>7 DEF Submitting
  <2> QED BY <1>1, <1>5, <1>7, <2>1, <2>4, <2>5, <2>6, SubmitStep DEF FaultsFit, past
<1> QED BY <1>1, <1>6, <1>7 DEF Submitting
-----------------------------------------------------------------------------
(* Reading the row, taking the claim and giving it back.                    *)

\* What a worker has read of the row.
LEMMA Snapped ==
  ASSUME DocumentInv, NEW again \in BOOLEAN
  PROVE  /\ Snapshot(again) \in Locals /\ Snapshot(again).json = row.json
         /\ Snapshot(again).scan = row.scan /\ Snapshot(again).security = row.security
         /\ Snapshot(again).again = again /\ Snapshot(again).status = row.status
         /\ Coherent(Snapshot(again))
         /\ Present => InProcess(Snapshot(again)) /\ Unread(Snapshot(again))
<1>1. /\ Snapshot(again) \in Locals /\ Snapshot(again).json = row.json
      /\ Snapshot(again).scan = row.scan /\ Snapshot(again).security = row.security
      /\ Snapshot(again).again = again /\ Snapshot(again).status = row.status
  BY Facts DEF Snapshot, Locals, DocumentRows
<1>2. Coherent(row) /\ (Present => InProcess(row) /\ Unread(row))
  BY Facts DEF RowFits
<1> HIDE DEF Snapshot
<1> QED BY <1>1, <1>2 DEF Coherent, InProcess, Unread, Snapshot

\* A step that only reads: the worker goes on with a copy of the row, or as it was.
LEMMA ReadStep ==
  ASSUME DocumentInv, NEW w \in Workers, NEW p, NEW l, Moves(w, p, l), Informed(p, l),
         p \notin Submitting, p \notin Holding, p \notin Removing, leading' \subseteq Schedulers,
         p = "t_claim" => w \in Schedulers, FaultsFit,
         UNCHANGED <<row, linked, object, file, azure, past>>
  PROVE  DocumentInv'
<1>1. OnlyLosses
  BY NoLosses DEF azure
<1>2. l.json.removed => ~object'.exists
  BY DEF Informed, Coherent
<1> QED BY <1>1, <1>2, StillInformed, QuietStep DEF Prepared, azure, past

\* The read that precedes a claim.
LEMMA ReadDocumentStep ==
  ASSUME DocumentInv, NEW w \in Workers, NEW again \in BOOLEAN, ReadDocument(w, again)
  PROVE  DocumentInv'
<1> DEFINE p == IF ~again /\ row.json.stage \in Stopped THEN "interrupt" ELSE "claim"
<1>1. /\ row.status = "review_required" /\ row.json.stage # "blocked"
      /\ IF again THEN row.json.stage \in Stopped ELSE row.json.stage # "failed"
      /\ job' = [job EXCEPT ![w] = Snapshot(again)] /\ Goto(w, p)
      /\ UNCHANGED <<row, linked, object, file, azure, leading, past, faults>>
  BY DEF ReadDocument
<1>2. Present /\ p \in {"interrupt", "claim"} /\ p \in Points /\ p \in InHand
      /\ p \notin Submitting /\ p \notin Holding /\ p \notin Removing
  BY <1>1 DEF Present, Points, Processing, Other, Submitting, Holding, Removing, Deleting, InHand
<1>3. PICK l \in Locals : l = Snapshot(again)
  BY Snapped
<1>4. Moves(w, p, l)
  BY <1>1, <1>2, <1>3, Facts, Going
<1>5. /\ Coherent(l) /\ InProcess(l) /\ Unread(l)
      /\ l.json = row.json /\ l.again = again
  BY <1>2, <1>3, Snapped
<1>6. Informed(p, l)
  BY <1>1, <1>2, <1>5 DEF Informed, StageFits, Awaited, Removing, Deleting, Cleaning
<1> QED BY <1>1, <1>2, <1>4, <1>6, Facts, ReadStep DEF TypeOK, FaultsFit

\* Requests for a cleanup or a deletion, and what is due for a tick.
LEMMA RequestStep ==
  ASSUME DocumentInv, NEW w \in Workers,
         RequestCleanup(w) \/ RequestDeletion(w) \/ (SelectDue(w) /\ w \in Schedulers)
  PROVE  DocumentInv'
<1>1. PICK p \in {"c_read", "d_start", "d_read", "t_claim"} :
        /\ Goto(w, p) /\ (p = "t_claim" => w \in Schedulers)
        /\ (UNCHANGED job \/ job' = [job EXCEPT ![w] = Snapshot(FALSE)])
        /\ UNCHANGED <<row, linked, object, file, azure, leading, past, faults>>
  <2>1. CASE RequestCleanup(w)
    BY <2>1 DEF RequestCleanup
  <2>2. CASE RequestDeletion(w)
    BY <2>2 DEF RequestDeletion
  <2>3. CASE SelectDue(w) /\ w \in Schedulers
    BY <2>3 DEF SelectDue
  <2> QED BY <2>1, <2>2, <2>3
<1>2. /\ p \in Points /\ p \notin Submitting /\ p \notin Holding /\ p \notin Removing
      /\ p \notin InHand /\ p \notin Awaited /\ p \notin Cleaning
  BY DEF Points, Processing, Other, Submitting, Holding, Removing, Deleting, InHand, Awaited,
         Cleaning
<1>3. PICK l \in Locals : Moves(w, p, l) /\ Coherent(l)
  <2>1. CASE UNCHANGED job
    BY <1>1, <1>2, <2>1, Keeping, Hands
  <2>2. CASE job' = [job EXCEPT ![w] = Snapshot(FALSE)]
    BY <1>1, <1>2, <2>2, Snapped, Facts, Going
  <2> QED BY <1>1, <2>1, <2>2
<1>4. Informed(p, l)
  BY <1>2, <1>3 DEF Informed, StageFits
<1> QED BY <1>1, <1>2, <1>3, <1>4, Facts, ReadStep DEF TypeOK, FaultsFit

\* A reader that finds nothing to do any more ends.
LEMMA NothingToDo ==
  ASSUME DocumentInv, NEW w \in Workers, End(w) \/ Return(w),
         UNCHANGED <<row, linked, object, file, azure, leading, past, faults>>
  PROVE  DocumentInv'
BY Facts, NoFault, EndStep DEF azure, past, TypeOK

\* The reads that precede a cleanup and a deletion's claim.
LEMMA ReadForCleanupStep ==
  ASSUME DocumentInv, NEW w \in Workers, ReadForCleanup(w) \/ ReadTombstone(w)
  PROVE  DocumentInv'
<1>1. /\ UNCHANGED <<row, linked, object, file, azure, leading, past, faults>>
      /\ \/ Return(w)
         \/ /\ job' = [job EXCEPT ![w] = Snapshot(FALSE)]
            /\ \/ Goto(w, "c_claim") /\ Present /\ row.json.stage = "complete"
               \/ Goto(w, "d_claim") /\ ~Present
  BY DEF ReadForCleanup, ReadTombstone, Cleanable, Completed, Present
<1>2. CASE Return(w)
  BY <1>1, <1>2, NothingToDo
<1>3. ASSUME NEW p \in {"c_claim", "d_claim"}, Goto(w, p),
             job' = [job EXCEPT ![w] = Snapshot(FALSE)],
             p = "c_claim" => Present /\ row.json.stage = "complete",
             p = "d_claim" => ~Present
      PROVE  DocumentInv'
  <2>1. p \in Points /\ p \notin Submitting /\ p \notin Holding /\ p \notin Removing
    BY DEF Points, Processing, Other, Submitting, Holding, Removing, Deleting
  <2>2. PICK l \in Locals : l = Snapshot(FALSE)
    BY Snapped
  <2>3. Moves(w, p, l)
    BY <1>3, <2>1, <2>2, Facts, Going
  <2>4. /\ Coherent(l) /\ l.json = row.json
        /\ p = "c_claim" => InProcess(l) /\ Unread(l)
    BY <1>3, <2>2, Snapped
  <2>5. ~Present => row.json.stage = "none"
    BY Facts DEF RowFits
  <2>6. Informed(p, l)
    <3>1. p = "d_claim" => p \notin InHand
      BY DEF InHand, Processing, Cleaning
    <3>2. StageFits(p, l.json.stage)
      BY <1>3, <2>4, <2>5 DEF StageFits, Awaited, Removing, Deleting, Cleaning
    <3> QED BY <2>4, <3>1, <3>2 DEF Informed
  <2> QED BY <1>1, <2>1, <2>3, <2>6, Facts, ReadStep DEF TypeOK, FaultsFit
<1> QED BY <1>1, <1>2, <1>3

\* A copy of the row with its claim taken or given back.
LEMMA RowEdits ==
  ASSUME DocumentInv, NEW w \in Workers
  PROVE  /\ row' = [row EXCEPT !.json = Locked(w, @)] =>
               RowTyped /\ SameRefs(row'.json, row.json) /\ row'.json.lock = w
         /\ row' = [row EXCEPT !.json = Unlocked(@)] =>
               RowTyped /\ SameRefs(row'.json, row.json) /\ row'.json.lock = Nobody
         /\ \A x \in {w, Nobody} : row' = [row EXCEPT !.json.retry = x] =>
               /\ RowTyped /\ SameRefs(row'.json, row.json)
               /\ row'.json.lock = row.json.lock
         /\ \A x \in BOOLEAN : row' = [row EXCEPT !.json.live = x]
                               /\ (x => row.json.lock # Nobody) =>
               /\ RowTyped /\ SameRefs(row'.json, row.json)
               /\ row'.json.lock = row.json.lock
<1>1. /\ row \in DocumentRows /\ row.json \in Documents /\ w \in Workers /\ w # Nobody
      /\ row.json.lock = Nobody => ~row.json.live
  BY Facts DEF TypeOK
<1>2. ASSUME NEW j \in Documents, row' = [row EXCEPT !.json = j], SameRefs(j, row.json),
             j.lock = Nobody => ~j.live
      PROVE  RowTyped /\ SameRefs(row'.json, row.json) /\ row'.json = j
  <2>1. row' \in DocumentRows /\ row'.json = j
    BY <1>1, <1>2 DEF DocumentRows
  <2> QED BY <1>2, <2>1 DEF RowTyped
<1>3. /\ Locked(w, row.json) \in Documents /\ SameRefs(Locked(w, row.json), row.json)
      /\ Locked(w, row.json).lock = w
      /\ Unlocked(row.json) \in Documents /\ SameRefs(Unlocked(row.json), row.json)
      /\ Unlocked(row.json).lock = Nobody /\ ~Unlocked(row.json).live
  BY <1>1, LockEdits
<1>4. ASSUME NEW x \in {w, Nobody}
      PROVE  /\ [row.json EXCEPT !.retry = x] \in Documents
             /\ SameRefs([row.json EXCEPT !.retry = x], row.json)
             /\ [row.json EXCEPT !.retry = x].lock = row.json.lock
             /\ [row.json EXCEPT !.retry = x].live = row.json.live
  BY <1>1 DEF Documents, SameRefs
<1>5. ASSUME NEW x \in BOOLEAN
      PROVE  /\ [row.json EXCEPT !.live = x] \in Documents
             /\ SameRefs([row.json EXCEPT !.live = x], row.json)
             /\ [row.json EXCEPT !.live = x].lock = row.json.lock
             /\ [row.json EXCEPT !.live = x].live = x
  BY <1>1 DEF Documents, SameRefs
<1>6. /\ row' = [row EXCEPT !.json = Locked(w, @)] => row' = [row EXCEPT !.json = Locked(w, row.json)]
      /\ row' = [row EXCEPT !.json = Unlocked(@)] => row' = [row EXCEPT !.json = Unlocked(row.json)]
      /\ \A x : row' = [row EXCEPT !.json.retry = x] =>
                   row' = [row EXCEPT !.json = [row.json EXCEPT !.retry = x]]
      /\ \A x : row' = [row EXCEPT !.json.live = x] =>
                   row' = [row EXCEPT !.json = [row.json EXCEPT !.live = x]]
  OBVIOUS
<1>7. row' = [row EXCEPT !.json = Locked(w, @)] =>
         RowTyped /\ SameRefs(row'.json, row.json) /\ row'.json.lock = w
  BY <1>1, <1>2, <1>3, <1>6
<1>8. row' = [row EXCEPT !.json = Unlocked(@)] =>
         RowTyped /\ SameRefs(row'.json, row.json) /\ row'.json.lock = Nobody
  BY <1>2, <1>3, <1>6
<1>9. ASSUME NEW x \in {w, Nobody}, row' = [row EXCEPT !.json.retry = x]
      PROVE  /\ RowTyped /\ SameRefs(row'.json, row.json)
             /\ row'.json.lock = row.json.lock
  <2>1. PICK j : j = [row.json EXCEPT !.retry = x]
    OBVIOUS
  <2>2. /\ j \in Documents /\ SameRefs(j, row.json) /\ j.lock = row.json.lock
        /\ j.live = row.json.live
    BY <1>4, <2>1
  <2>3. row' = [row EXCEPT !.json = j]
    BY <1>6, <1>9, <2>1
  <2> QED BY <1>1, <1>2, <2>2, <2>3
<1>10. ASSUME NEW x \in BOOLEAN, row' = [row EXCEPT !.json.live = x],
              x => row.json.lock # Nobody
       PROVE  /\ RowTyped /\ SameRefs(row'.json, row.json)
              /\ row'.json.lock = row.json.lock
  <2>1. row' = [row EXCEPT !.json = [row.json EXCEPT !.live = x]]
    BY <1>6, <1>10
  <2> QED BY <1>1, <1>2, <1>5, <1>10, <2>1
<1> QED BY <1>7, <1>8, <1>9, <1>10

\* The renewal of the lease before the original is released.
LEMMA RenewStep ==
  ASSUME DocumentInv, NEW w \in Workers, Renew(w) PROVE DocumentInv'
<1> DEFINE l0 == [job[w] EXCEPT !.scan = verdict,
                    !.security = IF verdict = "clean" THEN "clean" ELSE "rejected"]
<1>1. /\ pc[w] = "renew" /\ UNCHANGED <<linked, object, file, azure, leading, past, faults>>
      /\ IF CanSave(w)
         THEN /\ row' = [row EXCEPT !.json.live = TRUE] /\ Goto(w, "put")
              /\ job' = [job EXCEPT ![w].scan = verdict,
                           ![w].security = IF verdict = "clean" THEN "clean" ELSE "rejected"]
         ELSE End(w) /\ UNCHANGED row
  BY DEF Renew
<1>2. CASE ~CanSave(w)
  BY <1>1, <1>2, NothingToDo
<1>3. CASE CanSave(w)
  <2>1. /\ job \in [Workers -> Locals] /\ job[w] \in Locals /\ TypeOK
        /\ verdict \in {"clean", "blocked"} /\ row.json.lock = w /\ w # Nobody
    BY <1>3, Facts DEF TypeOK, CanSave
  <2>2. RowKept /\ row'.json.lock = w
    <3>1. RowTyped /\ SameRefs(row'.json, row.json) /\ row'.json.lock = w
      BY <1>1, <1>3, <2>1, RowEdits
    <3> QED BY <1>1, <1>3, <3>1, Facts DEF RowKept, DocumentRows, past
  <2>3. job' = [job EXCEPT ![w] = l0]
    BY <1>1, <1>3, <2>1 DEF Locals
  <2>4. l0 \in Locals /\ l0.json = job[w].json /\ l0.scan = verdict
        /\ l0.security = IF verdict = "clean" THEN "clean" ELSE "rejected"
    BY <2>1 DEF Locals, Scans, Securities
  <2> HIDE DEF l0
  <2>5. PICK l \in Locals :
          /\ Moves(w, "put", l) /\ l.json = job[w].json /\ l.scan = verdict
          /\ l.security = IF verdict = "clean" THEN "clean" ELSE "rejected"
    BY <1>1, <1>3, <2>1, <2>3, <2>4, Going, HandPoints
  <2>6. /\ Coherent(job[w]) /\ InProcess(job[w]) /\ Unread(job[w])
        /\ job[w].json.stage = "scan_waiting" /\ job[w].json.scan = 0
        /\ Standing("renew", job[w])
    BY <1>1, <2>1, Hands, HandPoints DEF Informed, StageFits, Awaited
  <2>7. Coherent(l) /\ InProcess(l) /\ Unread(l) /\ StageFits("put", l.json.stage)
    BY <2>5, <2>6 DEF Coherent, InProcess, Unread, Reached, Unreleased, StageFits, Awaited,
                      Removing, Deleting, Cleaning
  <2>8. Informed("put", l)
    BY <2>5, <2>6, <2>7 DEF Informed
  <2>9. Standing("put", l)'
    BY <1>1, <2>2, <2>5, <2>6 DEF Standing, RowKept, SameRefs, file, azure
  <2>10. "put" \notin Submitting /\ "put" \notin Removing
    BY DEF Submitting, Removing, Deleting
  <2> QED BY <1>1, <2>1, <2>2, <2>5, <2>8, <2>9, <2>10, ClaimStep DEF FaultsFit, TypeOK
<1> QED BY <1>2, <1>3

\* The claim of a cleanup or of a deletion.
LEMMA ClaimsRow ==
  ASSUME DocumentInv, NEW w \in Workers,
         NEW p \in {"c_drop", "d_original", "d_result", "d_scan", "d_finish"},
         p = "c_drop" => pc[w] = "c_claim",
         p # "c_drop" => pc[w] = "d_claim" /\ ~Present,
         Same(w), row' = [row EXCEPT !.json = Locked(w, @)],
         job' = [job EXCEPT ![w].json = Locked(w, @)], Goto(w, p),
         UNCHANGED <<linked, object, file, azure, leading, past, faults>>
  PROVE  DocumentInv'
<1>1. /\ job[w].json = row.json /\ row.json \in Documents /\ TypeOK
      /\ p \in Points /\ p \notin Submitting
  BY Facts DEF Same, Points, Deleting, Other, Submitting
<1>2. RowKept /\ row'.json.lock = w /\ row'.json = Locked(w, row.json)
  <2>1. RowTyped /\ SameRefs(row'.json, row.json) /\ row'.json.lock = w
    BY RowEdits
  <2>2. /\ row'.status = row.status /\ row'.scan = row.scan /\ row'.security = row.security
        /\ row'.json = Locked(w, row.json)
    BY Facts DEF DocumentRows
  <2> QED BY <2>1, <2>2 DEF RowKept, past
<1>3. Locked(w, row.json) \in Documents /\ SameRefs(Locked(w, row.json), row.json)
  BY <1>1, LockEdits
<1>4. job' = [job EXCEPT ![w].json = Locked(w, row.json)]
  BY <1>1
<1>5. PICK l \in Locals : /\ Moves(w, p, l) /\ l.json = Locked(w, row.json)
                          /\ l.scan = job[w].scan /\ l.security = job[w].security
  BY <1>1, <1>3, <1>4, Editing
<1>6. /\ l.json.stage = job[w].json.stage /\ l.json.op = job[w].json.op
      /\ l.json.scan = job[w].json.scan /\ l.json.text = job[w].json.text
      /\ l.json.removed = job[w].json.removed /\ l.json.error = job[w].json.error
  BY <1>1, <1>3, <1>5 DEF SameRefs
<1>7. /\ Coherent(job[w]) /\ StageFits(pc[w], job[w].json.stage)
      /\ p = "c_drop" => InProcess(job[w]) /\ Unread(job[w])
  BY Hands DEF InHand, Cleaning
<1>8. Informed(p, l)
  <2>1. Coherent(l) /\ (p = "c_drop" => InProcess(l) /\ Unread(l))
    BY <1>5, <1>6, <1>7 DEF Coherent, InProcess, Unread
  <2>2. StageFits(p, l.json.stage)
    BY <1>6, <1>7 DEF StageFits, Awaited, Removing, Deleting, Cleaning
  <2>3. p # "c_drop" => p \notin InHand
    BY DEF InHand, Processing, Cleaning
  <2> QED BY <2>1, <2>2, <2>3 DEF Informed
<1>9. Standing(p, l)'
  BY <1>2, <1>5 DEF Standing
<1>10. p \in Removing => ~Present
  BY DEF Removing, Deleting
<1> QED BY <1>1, <1>2, <1>5, <1>8, <1>9, <1>10, ClaimStep DEF FaultsFit, TypeOK

\* The claim of a finished document whose result is still to be removed.
LEMMA ClaimCleanupStep ==
  ASSUME DocumentInv, NEW w \in Workers, ClaimCleanup(w) PROVE DocumentInv'
<1>1. CASE Same(w) /\ Present
  BY <1>1, ClaimsRow DEF ClaimCleanup
<1>2. CASE ~(Same(w) /\ Present)
  BY <1>2, NothingToDo DEF ClaimCleanup
<1> QED BY <1>1, <1>2

\* The claim of a tombstone.
LEMMA ClaimDeletionStep ==
  ASSUME DocumentInv, NEW w \in Workers, ClaimDeletion(w) PROVE DocumentInv'
<1>1. CASE Same(w) /\ row.status = "deletion_pending"
  <2>1. PICK p \in {"d_original", "d_result", "d_scan", "d_finish"} : Goto(w, p)
    BY <1>1 DEF ClaimDeletion, NextCopy
  <2>2. /\ row' = [row EXCEPT !.json = Locked(w, @)]
        /\ job' = [job EXCEPT ![w].json = Locked(w, @)]
        /\ pc[w] = "d_claim" /\ ~Present
        /\ UNCHANGED <<linked, object, file, azure, leading, past, faults>>
    BY <1>1 DEF ClaimDeletion, Same, Present
  <2> QED BY <1>1, <2>1, <2>2, ClaimsRow
<1>2. CASE ~(Same(w) /\ row.status = "deletion_pending")
  BY <1>2, NothingToDo DEF ClaimDeletion
<1> QED BY <1>1, <1>2

\* A claim, or the retry lease of a tick, is given back.
LEMMA GivesBack ==
  ASSUME DocumentInv, NEW w \in Workers, RowKept, row'.json.lock \in {row.json.lock, Nobody},
         End(w) \/ Return(w) \/ (\E p \in {"c_read", "d_read", "t_finish"} :
                                    Goto(w, p) /\ job' = [job EXCEPT ![w] = NoJob]),
         FaultsFit, leading' \subseteq Schedulers
  PROVE  DocumentInv'
<1>1. PICK p \in {"idle", "c_read", "d_read", "t_finish"}, l \in Locals :
        l = NoJob /\ Moves(w, p, l)
  <2>1. CASE End(w) \/ Return(w)
    BY <2>1, Facts, Ending, NothingDone
  <2>2. CASE \E p \in {"c_read", "d_read", "t_finish"} :
                Goto(w, p) /\ job' = [job EXCEPT ![w] = NoJob]
    <3>1. \A p \in {"c_read", "d_read", "t_finish"} : p \in Points
      BY DEF Points, Deleting, Other
    <3> QED BY <2>2, <3>1, Facts, Going, NothingDone
  <2> QED BY <2>1, <2>2
<1>2. /\ p \notin InHand /\ p \notin Removing /\ p \notin Holding /\ p \notin Submitting
      /\ p \notin Awaited /\ p \notin Cleaning
  BY DEF InHand, Removing, Holding, Processing, Deleting, Cleaning, Submitting, Awaited
<1>3. Coherent(l)
  BY <1>1, NothingDone, Facts DEF Coherent, Reached
<1>4. Informed(p, l)
  BY <1>1, <1>2, <1>3 DEF Informed, StageFits
<1> QED BY <1>1, <1>2, <1>4, ClaimStep

\* The release of a deletion's lease, and the bookkeeping of a tick.
LEMMA ReleaseStep ==
  ASSUME DocumentInv, NEW w \in Workers, ReleaseDeletion(w) \/ FinishTick(w) \/ ClaimRetry(w)
  PROVE  DocumentInv'
<1>1. /\ UNCHANGED <<linked, object, file, azure, past>> /\ FaultsFit
      /\ \/ UNCHANGED row
         \/ row' = [row EXCEPT !.json = Unlocked(@)]
         \/ \E x \in {w, Nobody} : row' = [row EXCEPT !.json.retry = x]
  BY DEF ReleaseDeletion, FinishTick, ClaimRetry, FaultsFit
<1>2. leading' \subseteq Schedulers
  <2>1. CASE ClaimRetry(w)
    <3>1. leading \subseteq Schedulers /\ w \in Schedulers
      BY <2>1, Facts, Hands DEF TypeOK, ClaimRetry
    <3> QED BY <2>1, <3>1 DEF ClaimRetry
  <2> QED BY <2>1, Facts DEF ReleaseDeletion, FinishTick, TypeOK
<1>3. RowKept /\ row'.json.lock \in {row.json.lock, Nobody}
  <2>1. CASE UNCHANGED row
    BY <1>1, <2>1, Facts DEF RowKept, RowTyped, SameRefs, TypeOK, past
  <2>2. CASE row' = [row EXCEPT !.json = Unlocked(@)]
    BY <1>1, <2>2, Facts, RowEdits DEF RowKept, DocumentRows, past
  <2>3. CASE \E x \in {w, Nobody} : row' = [row EXCEPT !.json.retry = x]
    BY <1>1, <2>3, Facts, RowEdits DEF RowKept, DocumentRows, past
  <2> QED BY <1>1, <2>1, <2>2, <2>3
<1>4. End(w) \/ Return(w) \/ (\E p \in {"c_read", "d_read", "t_finish"} :
                                 Goto(w, p) /\ job' = [job EXCEPT ![w] = NoJob])
  BY DEF ReleaseDeletion, FinishTick, ClaimRetry
<1> QED BY <1>1, <1>2, <1>3, <1>4, GivesBack
-----------------------------------------------------------------------------
(* Steps that change what the row stands for.                               *)

\* A step in which one worker writes the row and moves.
LEMMA WriteStep ==
  ASSUME DocumentInv, NEW w \in Workers, NEW p, NEW l, Moves(w, p, l),
         RowTyped, RowFits', CopiesKnown', SubmissionsCounted', FaultsFit,
         linked' \in BOOLEAN, retries' \in Copies,
         tracked' \in [scan : SUBSET (1..MaxCopies), result : SUBSET (1..MaxCopies)],
         ~Present => ~Present', row'.json.lock \in {w, Nobody},
         Informed(p, l), row'.json.lock = w /\ p \in Holding => Standing(p, l)',
         p \in Removing => ~Present', p # "t_claim",
         UNCHANGED <<object, file, azure, leading>>
  PROVE  DocumentInv'
<1>1. Onward
  BY RowOnward
<1>2. \A v \in Workers : WorkerFits(v)'
  <2>1. ASSUME NEW v \in Workers, v # w PROVE WorkerFits(v)'
    <3>1. ClaimStands(v)
      BY <2>1, Facts DEF ClaimStands
    <3> QED BY <1>1, <2>1, <3>1, OthersFit DEF Moves
  <2>2. Informed(p, l)'
    BY StillInformed DEF Informed, Coherent, azure
  <2>3. WorkerFits(w)'
    BY <2>2 DEF WorkerFits, Moves
  <2> QED BY <2>1, <2>3
<1> QED BY <1>2, Facts, RowStep DEF Moves, TypeOK

\* A worker that ends.
LEMMA Ended ==
  ASSUME DocumentInv, NEW w \in Workers, End(w) \/ Return(w)
  PROVE  \E p \in {"idle", "t_finish"}, l \in Locals :
           /\ Moves(w, p, l) /\ l = NoJob /\ Informed(p, l)
           /\ p \notin Submitting /\ p \notin Holding /\ p \notin Removing /\ p # "t_claim"
<1>1. PICK p \in {"idle", "t_finish"}, l \in Locals : l = NoJob /\ Moves(w, p, l)
  BY Facts, Ending, NothingDone
<1>2. /\ p \notin InHand /\ p \notin Removing /\ p \notin Holding /\ p \notin Submitting
      /\ p \notin Awaited /\ p \notin Cleaning /\ p # "t_claim"
  BY DEF InHand, Removing, Holding, Processing, Deleting, Cleaning, Submitting, Awaited
<1>3. Coherent(l)
  BY <1>1, NothingDone, Facts DEF Coherent, Reached
<1>4. Informed(p, l)
  BY <1>1, <1>2, <1>3 DEF Informed, StageFits
<1> QED BY <1>1, <1>2, <1>4

\* The save that marks an expired stage as interrupted.
LEMMA MarkInterruptedStep ==
  ASSUME DocumentInv, NEW w \in Workers, MarkInterrupted(w) PROVE DocumentInv'
<1> DEFINE k == [Unlocked(row.json) EXCEPT !.stage = "failed", !.error = "interrupted"]
<1>1. /\ End(w) /\ UNCHANGED <<linked, object, file, azure, leading, past, faults>>
      /\ pc[w] = "interrupt"
      /\ row' = IF Same(w)
                THEN [row EXCEPT !.json = [Unlocked(@) EXCEPT !.stage = "failed",
                                                              !.error = "interrupted"]]
                ELSE row
  BY DEF MarkInterrupted
<1>2. CASE ~Same(w)
  BY <1>1, <1>2, NothingToDo
<1>3. CASE Same(w)
  <2>1. /\ row \in DocumentRows /\ row.json \in Documents /\ TypeOK
        /\ Unlocked(row.json) \in Documents /\ SameRefs(Unlocked(row.json), row.json)
        /\ Unlocked(row.json).lock = Nobody /\ ~Unlocked(row.json).live
    BY Facts, LockEdits
  <2>2. row' = [row EXCEPT !.json = k]
    BY <1>1, <1>3
  <2>3. /\ k \in Documents /\ k.stage = "failed" /\ k.error = "interrupted"
        /\ k.op = row.json.op /\ k.scan = row.json.scan /\ k.text = row.json.text
        /\ k.removed = row.json.removed /\ k.lock = Nobody /\ ~k.live
    <3> DEFINE u == Unlocked(row.json)
    <3>1. u \in Documents /\ SameRefs(u, row.json) /\ u.lock = Nobody /\ ~u.live
      BY <2>1
    <3>2. k = [u EXCEPT !.stage = "failed", !.error = "interrupted"]
      OBVIOUS
    <3> HIDE DEF u, k
    <3>3. k \in Documents
      BY <3>1, <3>2 DEF Documents, Stopped
    <3>4. /\ k.stage = "failed" /\ k.error = "interrupted"
          /\ k.op = u.op /\ k.scan = u.scan /\ k.text = u.text
          /\ k.removed = u.removed /\ k.lock = u.lock /\ k.live = u.live
      BY <3>1, <3>2 DEF Documents
    <3> QED BY <3>1, <3>3, <3>4 DEF SameRefs
  <2> HIDE DEF k
  <2>4. /\ row' \in DocumentRows /\ row'.json = k
        /\ row'.status = row.status /\ row'.scan = row.scan /\ row'.security = row.security
    BY <2>1, <2>2, <2>3 DEF DocumentRows
  <2>5. Present' = Present /\ Present /\ RowTyped
    <3>1. row.json.stage \in Stopped
      BY <1>1, <1>3, Hands DEF StageFits, Same
    <3>2. Present
      BY <3>1, Facts DEF RowFits, Stopped
    <3> QED BY <2>3, <2>4, <3>2 DEF Present, RowTyped
  <2>6. RowFits'
    <3>1. RowFits /\ InProcess(row) /\ verdict' = verdict
      BY <1>1, <2>5, Facts DEF RowFits, file
    <3>2. Coherent(row)'
      BY <1>1, <2>3, <2>4, <3>1 DEF RowFits, Coherent, Reached, azure
    <3>3. InProcess(row)' /\ Unread(row)'
      BY <1>1, <2>3, <2>4, <3>1 DEF InProcess, Unread, Reached, Unreleased
    <3> QED BY <1>1, <2>4, <2>5, <3>1, <3>2, <3>3 DEF RowFits, Present
  <2>7. CopiesKnown'
    BY <1>1, <2>3, <2>4, Facts DEF CopiesKnown, azure, past, file
  <2>8. PICK p \in {"idle", "t_finish"}, l \in Locals :
          /\ Moves(w, p, l) /\ Informed(p, l)
          /\ p \notin Submitting /\ p \notin Holding /\ p \notin Removing /\ p # "t_claim"
    BY <1>1, Ended
  <2>9. SubmissionsCounted'
    <3>1. ScanDue' <= ScanDue /\ ResultDue' <= ResultDue
      BY <2>3, <2>4 DEF ScanDue, ResultDue, Unreleased
    <3> QED BY <1>1, <2>8, <3>1, CountStays, NobodySubmits DEF azure, past
  <2> QED BY <1>1, <2>1, <2>3, <2>4, <2>5, <2>6, <2>7, <2>8, <2>9, WriteStep
          DEF FaultsFit, TypeOK, past
<1> QED BY <1>2, <1>3

\* The catch block: whatever was found before the error is kept.
LEMMA CatchStep ==
  ASSUME DocumentInv, NEW w \in Workers, Catch(w) PROVE DocumentInv'
<1> DEFINE done == job[w].scan \in {"clean", "blocked"}
           full == job[w].json.stage = "complete" /\ job[w].json.text
           stage == IF full THEN "complete" ELSE "failed"
           u == Unlocked(job[w].json)
           s == [u EXCEPT !.stage = stage]
           scan == IF done THEN job[w].scan ELSE "failed"
           security == IF done THEN job[w].security ELSE "quarantined"
           extraction == IF full THEN job[w].extraction
                         ELSE IF job[w].scan = "clean" THEN "failed" ELSE "not_configured"
<1>1. /\ pc[w] = "catch" /\ End(w)
      /\ IF CanSave(w)
         THEN /\ row' = [row EXCEPT !.json = s, !.scan = scan, !.security = security,
                                    !.extraction = extraction]
              /\ Track(s)
         ELSE UNCHANGED <<row, tracked>>
      /\ UNCHANGED <<linked, object, file, azure, leading, retries, faults>>
  BY DEF Catch
<1>2. CASE ~CanSave(w)
  BY <1>1, <1>2, NothingToDo DEF past
<1>3. CASE CanSave(w)
  <2>1. /\ row \in DocumentRows /\ job[w] \in Locals /\ job[w].json \in Documents /\ TypeOK
        /\ u \in Documents /\ SameRefs(u, job[w].json) /\ u.lock = Nobody /\ ~u.live
    BY Facts, LockEdits
  <2> HIDE DEF u
  <2>2. stage \in Stages /\ stage \in {"complete", "failed"}
    BY DEF Stages, Stopped
  <2>3. /\ scan \in Scans /\ security \in Securities /\ extraction \in Extractions
    BY <2>1 DEF Locals, Scans, Securities, Extractions
  <2>4. /\ s \in Documents /\ SameRefs(s, [job[w].json EXCEPT !.stage = stage])
        /\ s.lock = Nobody /\ ~s.live /\ s.scan = job[w].json.scan /\ s.op = job[w].json.op
    <3> HIDE DEF stage
    <3>1. s \in Documents
      BY <2>1, <2>2, StageEdit
    <3>2. s.lock = u.lock /\ s.live = u.live
      BY <2>1 DEF Documents
    <3> QED BY <2>1, <2>2, <3>1, <3>2, StageEdit DEF SameRefs
  <2>5. /\ Coherent(job[w]) /\ InProcess(job[w])
    BY <1>1, Hands DEF InHand
  <2>6. /\ scan = "clean" => job[w].scan = "clean"
        /\ job[w].json.op # 0 \/ stage \in Reached => scan = "clean" /\ security = "clean"
        /\ stage \in {"scanned"} \cup Reached => job[w].json.scan = 0
        /\ stage = "complete" => job[w].json.text
        /\ stage \notin Unreleased /\ stage \notin {"none", "scanned", "starting"}
    <3>1. scan = "clean" => job[w].scan = "clean"
      OBVIOUS
    <3>2. stage \in Reached => job[w].json.stage = "complete" /\ job[w].json.text
      BY DEF Reached
    <3>3. job[w].scan = "clean" => scan = "clean" /\ security = job[w].security
      OBVIOUS
    <3> HIDE DEF scan, security
    <3>4. job[w].json.op # 0 \/ stage \in Reached => scan = "clean" /\ security = "clean"
      BY <2>5, <3>2, <3>3 DEF InProcess, Reached
    <3>5. /\ stage \in {"scanned"} \cup Reached => job[w].json.scan = 0
          /\ stage = "complete" => job[w].json.text
      BY <2>2, <2>5, <3>2 DEF Coherent, Reached
    <3> QED BY <2>2, <3>1, <3>4, <3>5 DEF Unreleased
  <2> HIDE DEF s, stage, scan, security, extraction
  <2>7. row' = [row EXCEPT !.json = s, !.scan = scan, !.security = security,
                           !.extraction = extraction]
    BY <1>1, <1>3
  <2>8. row' \in DocumentRows
    BY <2>1, <2>3, <2>4, <2>7 DEF DocumentRows
  <2>9. /\ row'.json = s /\ row'.scan = scan /\ row'.security = security
        /\ row'.status = row.status
    BY <2>1, <2>7 DEF DocumentRows
  <2>10. Saves(w, stage, scan, security)
    <3>1. Track(s)
      BY <1>1, <1>3
    <3> QED BY <1>1, <1>3, <2>1, <2>4, <2>8, <2>9, <3>1, TrackTyped DEF Saves, RowTyped
  <2>11. /\ RowFits' /\ CopiesKnown' /\ Present /\ Present' /\ row'.json.stage = stage
    <3>1. pc[w] \in (Processing \ {"claim"}) \cup {"catch"}
      BY <1>1
    <3> QED BY <2>6, <2>10, <3>1, SavedFits
  <2>12. PICK p \in {"idle", "t_finish"}, l \in Locals :
          /\ Moves(w, p, l) /\ Informed(p, l)
          /\ p \notin Submitting /\ p \notin Holding /\ p \notin Removing /\ p # "t_claim"
    BY <1>1, Ended
  <2>13. SubmissionsCounted'
    <3>1. ScanDue' <= ScanDue /\ ResultDue' <= ResultDue
      BY <2>6, <2>11 DEF ScanDue, ResultDue, Unreleased
    <3> QED BY <1>1, <2>12, <3>1, CountStays, NobodySubmits DEF azure
  <2>14. RowTyped /\ row'.json.lock = Nobody
         /\ tracked' \in [scan : SUBSET (1..MaxCopies), result : SUBSET (1..MaxCopies)]
    BY <2>4, <2>9, <2>10 DEF Saves
  <2> QED BY <1>1, <2>1, <2>11, <2>12, <2>13, <2>14, WriteStep DEF FaultsFit, TypeOK
<1> QED BY <1>2, <1>3

\* The column as claimed, and the step that follows.
LEMMA Resumes ==
  ASSUME DocumentInv, NEW w \in Workers, pc[w] = "claim", Same(w), Present
  PROVE  /\ Resumed(w) \in Documents /\ Resumed(w).op = row.json.op
         /\ row.json.stage = "none" => row.json.op = 0 /\ row.json.scan = 0
         /\ Resumed(w).scan = row.json.scan /\ Resumed(w).stage # "none"
         /\ Resumed(w).removed => row.json.removed
         /\ Resumed(w).stage = "complete" => Resumed(w).text
         /\ whole => Resumed(w).error # "incomplete"
         /\ Resumed(w).stage \in {"scanned"} \cup Reached => row.json.scan = 0
         /\ Resumed(w).stage \in Reached => job[w].scan = "clean" /\ job[w].security = "clean"
                                            /\ row.scan = "clean" /\ row.security = "clean"
         /\ Resumed(w).stage \in Unreleased => row.json.op = 0
         /\ whole /\ Resumed(w).stage \in {"scanned", "starting"} => row.json.op = 0
         /\ Resumed(w).stage \in {"queued", "scan_waiting", "scanned", "reading", "complete"}
         /\ ~job[w].again /\ row.json.stage \notin {"none", "queued"} =>
               Resumed(w).stage \notin {"none", "queued"}
         /\ ~job[w].again /\ row.json.stage \notin Unreleased \cup {"scanned"} =>
               Resumed(w).stage \notin Unreleased \cup {"scanned"}
<1> DEFINE l == job[w]
<1>1. /\ l \in Locals /\ l.json \in Documents /\ l.json = row.json
      /\ Coherent(l) /\ InProcess(l) /\ Unread(l)
      /\ InProcess(row) /\ Unread(row)
      /\ l.json.stage # "blocked" /\ (l.json.stage \in Stopped <=> l.again)
  <2>1. pc[w] \in InHand \ {"save_reading", "catch"}
    BY DEF InHand, Processing
  <2> QED BY <2>1, Facts, Hands DEF Same, Informed, RowFits
<1>2. CASE l.json.stage = "none"
  <2>1. Resumed(w) = [Empty EXCEPT !.stage = "queued"] /\ ~l.again
    BY <1>1, <1>2 DEF Resumed, Stopped
  <2>2. Empty \in Documents /\ Empty.op = 0 /\ Empty.scan = 0 /\ ~Empty.removed
        /\ Empty.error = "none" /\ "queued" \in Stages
    BY NothingDone DEF Stages
  <2> HIDE DEF Empty
  <2>3. PICK e : e = Empty
    OBVIOUS
  <2>4. /\ Resumed(w) \in Documents /\ Resumed(w).stage = "queued" /\ Resumed(w).op = 0
        /\ Resumed(w).scan = 0 /\ ~Resumed(w).removed /\ Resumed(w).error = "none"
    BY <2>1, <2>2, StageEdit
  <2>5. row.json.op = 0 /\ row.json.scan = 0 /\ row.json.stage = "none"
    BY <1>1, <1>2 DEF InProcess, Unreleased
  <2> HIDE DEF Resumed
  <2> QED BY <2>1, <2>4, <2>5 DEF Reached, Unreleased
<1>3. CASE l.json.stage # "none" /\ l.again
  <2> DEFINE stage == RetryStage(l.json, l.scan, l.security)
  <2>1. Resumed(w) = [l.json EXCEPT !.stage = stage, !.error = "none"]
    BY <1>3 DEF Resumed
  <2>2. stage \in Stages /\ stage \in {"reading", "scanned", "scan_waiting", "queued"}
    BY DEF RetryStage, Stages
  <2>3. /\ Resumed(w) \in Documents /\ Resumed(w).stage = stage /\ Resumed(w).op = l.json.op
        /\ Resumed(w).scan = l.json.scan /\ Resumed(w).error = "none"
        /\ Resumed(w).removed = l.json.removed
    <3> HIDE DEF stage
    <3>1. Resumed(w) \in Documents
      BY <1>1, <2>1, <2>2 DEF Documents, Stages
    <3> QED BY <1>1, <2>1, <3>1 DEF Documents
  <2>4. /\ stage \in {"reading", "scanned"} => l.scan = "clean" /\ l.security = "clean"
        /\ stage = "reading" => l.json.op # 0
        /\ stage = "scanned" => l.json.op = 0 \/ l.json.error = "incomplete"
        /\ stage \in {"scan_waiting", "queued"} => ~(l.scan = "clean" /\ l.security = "clean")
    BY DEF RetryStage
  <2> HIDE DEF stage, Resumed
  <2>5. stage \in {"reading", "scanned"} => row.json.scan = 0
    BY <1>1, <2>4 DEF InProcess
  <2>6. stage = "reading" => row.scan = "clean" /\ row.security = "clean"
    BY <1>1, <2>4 DEF InProcess
  <2>7. stage \in {"scan_waiting", "queued"} => row.json.op = 0
    BY <1>1, <2>4 DEF InProcess
  <2>8. whole /\ stage = "scanned" => row.json.op = 0
    BY <1>1, <2>4 DEF Coherent
  <2> QED BY <1>1, <1>3, <2>2, <2>3, <2>4, <2>5, <2>6, <2>7, <2>8 DEF Reached, Unreleased
<1>4. CASE l.json.stage # "none" /\ ~l.again
  <2>1. Resumed(w) = l.json
    BY <1>4 DEF Resumed
  <2>2. l.json.stage \in {"queued", "scan_waiting", "scanned", "reading", "complete"}
    BY <1>1, <1>4 DEF Documents, Stopped
  <2> HIDE DEF Resumed
  <2> QED BY <1>1, <1>4, <2>1, <2>2 DEF Coherent, InProcess, Unread, Reached, Unreleased
<1> QED BY <1>2, <1>3, <1>4

\* The claim of a document, which compares only extracted_json.
LEMMA ClaimsDocument ==
  ASSUME DocumentInv, NEW w \in Workers, Claim(w) PROVE DocumentInv'
<1> DEFINE j == Locked(w, Resumed(w))
           first == FirstStep(j)
<1>1. /\ pc[w] = "claim" /\ (job[w].again => retries < MaxCopies)
      /\ IF Same(w) /\ row.status = "review_required"
         THEN /\ row' = [row EXCEPT !.json = j] /\ job' = [job EXCEPT ![w].json = j]
              /\ retries' = IF job[w].again THEN retries + 1 ELSE retries
              /\ Goto(w, first)
         ELSE End(w) /\ UNCHANGED <<row, retries>>
      /\ UNCHANGED <<linked, object, file, azure, leading, tracked, faults>>
  BY DEF Claim
<1>2. CASE ~(Same(w) /\ row.status = "review_required")
  BY <1>1, <1>2, NothingToDo DEF past
<1>3. CASE Same(w) /\ row.status = "review_required"
  <2>1. /\ row \in DocumentRows /\ row.json \in Documents /\ TypeOK /\ Present
        /\ job[w].json = row.json /\ RowFits
        /\ Coherent(job[w]) /\ InProcess(job[w]) /\ Unread(job[w])
        /\ Coherent(row) /\ InProcess(row)
    <3>1. pc[w] \in InHand \ {"save_reading", "catch"}
      BY <1>1 DEF InHand, Processing
    <3> QED BY <1>3, <3>1, Facts, Hands DEF Same, Present, RowFits
  <2> DEFINE r == Resumed(w)
  <2>2. /\ r \in Documents /\ r.op = row.json.op /\ r.scan = row.json.scan
        /\ r.removed => row.json.removed
        /\ r.stage = "complete" => r.text
        /\ whole => r.error # "incomplete"
        /\ r.stage \in {"scanned"} \cup Reached => row.json.scan = 0
        /\ r.stage \in Reached => job[w].scan = "clean" /\ job[w].security = "clean"
                                  /\ row.scan = "clean" /\ row.security = "clean"
        /\ r.stage \in Unreleased => row.json.op = 0
        /\ whole /\ r.stage \in {"scanned", "starting"} => row.json.op = 0
        /\ r.stage \in {"queued", "scan_waiting", "scanned", "reading", "complete"}
    BY <1>1, <1>3, <2>1, Resumes
  <2>3. /\ ~job[w].again /\ row.json.stage \notin {"none", "queued"} =>
               r.stage \notin {"none", "queued"}
        /\ ~job[w].again /\ row.json.stage \notin Unreleased \cup {"scanned"} =>
               r.stage \notin Unreleased \cup {"scanned"}
    BY <1>1, <1>3, <2>1, Resumes
  <2> HIDE DEF r
  <2>4. j \in Documents /\ SameRefs(j, r) /\ j.lock = w
    BY <2>2, LockEdits DEF r
  <2> HIDE DEF j
  <2>5. /\ j.stage = r.stage /\ j.op = row.json.op /\ j.scan = row.json.scan
        /\ j.text = r.text /\ j.removed = r.removed /\ j.error = r.error
    BY <2>2, <2>4 DEF SameRefs
  <2>6. /\ row' = [row EXCEPT !.json = j] /\ job' = [job EXCEPT ![w].json = j]
        /\ Goto(w, first)
        /\ retries' = IF job[w].again THEN retries + 1 ELSE retries
    BY <1>1, <1>3
  <2>7. /\ row' \in DocumentRows /\ row'.json = j
        /\ row'.status = row.status /\ row'.scan = row.scan /\ row'.security = row.security
    BY <2>1, <2>4, <2>6 DEF DocumentRows
  <2>8. PICK p \in {"drop_scan", "drop_result", "poll_result", "get"} :
        /\ p = first
        /\ p = "drop_scan" => j.stage = "queued"
        /\ p = "drop_result" => j.stage = "complete"
        /\ p = "poll_result" => j.stage = "reading"
        /\ p = "get" => j.stage \in {"queued", "scan_waiting", "scanned"}
                        /\ (j.stage = "queued" => j.scan = 0)
    <3>1. j.scan # 0 => j.stage \in {"queued", "scan_waiting"}
      BY <2>2, <2>5 DEF Reached
    <3> QED BY <2>2, <2>5, <3>1 DEF FirstStep
  <2> HIDE DEF first
  <2>9. p \in Points /\ p \notin Submitting /\ p \notin Removing /\ p # "t_claim"
    BY <2>8 DEF Points, Processing, Submitting, Removing, Deleting
  <2>10. PICK l \in Locals : /\ Moves(w, p, l) /\ l.json = j
                             /\ l.scan = job[w].scan /\ l.security = job[w].security
    <3>1. Goto(w, p) /\ job' = [job EXCEPT ![w].json = j] /\ j \in Documents /\ p \in Points
      BY <2>4, <2>6, <2>8, <2>9
    <3> QED BY <3>1, Editing
  <2>11. Informed(p, l)
    <3>1. Coherent(l)
      BY <2>1, <2>2, <2>5, <2>10 DEF Coherent, Reached
    <3>2. InProcess(l)
      BY <2>1, <2>2, <2>5, <2>10 DEF InProcess, Reached, Unreleased
    <3>3. Unread(l)
      BY <2>2, <2>5, <2>10 DEF Unread
    <3>4. StageFits(p, l.json.stage)
      BY <2>8, <2>10 DEF StageFits, Awaited, Removing, Deleting, Cleaning
    <3> QED BY <2>8, <2>10, <3>1, <3>2, <3>3, <3>4 DEF Informed
  <2>12. Standing(p, l)'
    BY <2>7, <2>10 DEF Standing
  <2>13. Present' /\ RowFits'
    <3>1. Present'
      BY <2>1, <2>7 DEF Present
    <3>2. Coherent(row)'
      BY <1>1, <2>1, <2>2, <2>5, <2>7 DEF Coherent, Reached, azure, file
    <3>3. InProcess(row)'
      BY <1>1, <2>1, <2>2, <2>5, <2>7 DEF InProcess, Reached, Unreleased, file
    <3>4. Unread(row)'
      BY <1>1, <2>2, <2>5, <2>7 DEF Unread, file
    <3> QED BY <1>1, <2>1, <3>1, <3>2, <3>3, <3>4 DEF RowFits, file, Present
  <2>14. CopiesKnown'
    BY <1>1, <2>5, <2>7, Facts DEF CopiesKnown, azure, file
  <2>15. retries' \in Copies
    BY <1>1, <2>1, <2>6, CountAssumption DEF TypeOK, Copies
  <2>16. SubmissionsCounted'
    <3>1. CASE ~job[w].again
      <4>1. retries' = retries /\ UNCHANGED sent
        BY <1>1, <2>6, <3>1 DEF azure
      <4>2. ScanDue' <= ScanDue /\ ResultDue' <= ResultDue
        BY <2>1, <2>3, <2>5, <2>7, <3>1 DEF ScanDue, ResultDue
      <4> QED BY <2>9, <2>10, <4>1, <4>2, CountStays, NobodySubmits
    <3>2. CASE job[w].again
      <4>1. retries' = retries + 1 /\ sent' = sent
        BY <1>1, <2>6, <3>2 DEF azure
      <4>2. /\ SubmissionsCounted /\ ScanDue \in {0, 1} /\ ResultDue \in {0, 1}
            /\ ScanDue' \in {0, 1} /\ ResultDue' \in {0, 1}
            /\ sent.scan \in Nat /\ sent.result \in Nat /\ retries \in Nat
        BY Facts DEF ScanDue, ResultDue
      <4>3. /\ IsFiniteSet(At("submit_scan")') /\ IsFiniteSet(At("submit_result")')
            /\ Cardinality(At("submit_scan")') <= Cardinality(At("submit_scan"))
            /\ Cardinality(At("submit_result")') <= Cardinality(At("submit_result"))
            /\ Cardinality(At("submit_scan")') \in Nat
            /\ Cardinality(At("submit_scan")) \in Nat
            /\ Cardinality(At("submit_result")') \in Nat
            /\ Cardinality(At("submit_result")) \in Nat
        BY <2>9, <2>10, <4>2, CountKept DEF SubmissionsCounted, Submitting
      <4> QED BY <4>1, <4>2, <4>3 DEF SubmissionsCounted
    <3> QED BY <3>1, <3>2
  <2>17. RowTyped
    BY <2>4, <2>7, Facts DEF RowTyped
  <2>18. /\ Moves(w, p, l) /\ row'.json.lock \in {w, Nobody} /\ FaultsFit
         /\ linked' \in BOOLEAN /\ UNCHANGED <<object, file, azure, leading>>
         /\ tracked' \in [scan : SUBSET (1..MaxCopies), result : SUBSET (1..MaxCopies)]
    BY <1>1, <2>1, <2>4, <2>7, <2>10 DEF FaultsFit, TypeOK
  <2>19. /\ p \in Removing => ~Present'
         /\ ~Present => ~Present'
         /\ row'.json.lock = w /\ p \in Holding => Standing(p, l)'
    BY <2>1, <2>9, <2>12
  <2> QED BY <2>9, <2>11, <2>13, <2>14, <2>15, <2>16, <2>17, <2>18, <2>19, WriteStep
<1> QED BY <1>2, <1>3
-----------------------------------------------------------------------------
(* Cleanup.                                                                 *)

\* The removal of a leftover result.
LEMMA CleanupResultStep ==
  ASSUME DocumentInv, NEW w \in Workers, CleanupResult(w) PROVE DocumentInv'
<1> DEFINE k == [job[w].json EXCEPT !.op = 0, !.cleanup = FALSE, !.error = "none"]
           n == [job[w].json EXCEPT !.cleanup = TRUE]
<1>1. job \in [Workers -> Locals] /\ job[w] \in Locals /\ job[w].json \in Documents
      /\ "c_save" \in Points /\ TypeOK
  BY Facts DEF TypeOK, Points, Other
<1>2. /\ pc[w] = "c_drop" /\ Goto(w, "c_save")
      /\ UNCHANGED <<row, linked, object, file, scans, sent, leading, past>>
      /\ \/ /\ results' = results \ {job[w].json.op} /\ UNCHANGED faults
            /\ job' = [job EXCEPT ![w].json.op = 0, ![w].json.cleanup = FALSE,
                                  ![w].json.error = "none"]
         \/ Fault /\ job' = [job EXCEPT ![w].json.cleanup = TRUE] /\ UNCHANGED results
  BY DEF CleanupResult
<1>3. /\ k \in Documents /\ k.stage = job[w].json.stage /\ k.scan = job[w].json.scan
      /\ k.op = 0 /\ k.text = job[w].json.text /\ k.removed = job[w].json.removed
      /\ k.error = "none"
  <2>1. k \in Documents
    BY <1>1, ColumnEdits
  <2> QED BY <1>1, <2>1 DEF Documents
<1>4. /\ n \in Documents /\ n.stage = job[w].json.stage /\ n.scan = job[w].json.scan
      /\ n.op = job[w].json.op /\ n.text = job[w].json.text
      /\ n.removed = job[w].json.removed /\ n.error = job[w].json.error
  <2>1. n \in Documents
    BY <1>1 DEF Documents
  <2> QED BY <1>1, <2>1 DEF Documents
<1>5. ASSUME job' = [job EXCEPT ![w].json.op = 0, ![w].json.cleanup = FALSE,
                                ![w].json.error = "none"]
      PROVE  job' = [job EXCEPT ![w].json = k]
  <2>1. job' = [job EXCEPT ![w].json = [job[w].json EXCEPT !.op = 0, !.cleanup = FALSE,
                                                           !.error = "none"]]
    BY <1>1, <1>5 DEF Locals, Documents
  <2> QED BY <2>1
<1>6. job' = [job EXCEPT ![w].json.cleanup = TRUE] => job' = [job EXCEPT ![w].json = n]
  BY <1>1 DEF Locals
<1> HIDE DEF k, n
<1>7. /\ Coherent(job[w]) /\ InProcess(job[w]) /\ Unread(job[w])
      /\ job[w].json.stage = "complete"
      /\ row.json.lock = w => Standing("c_drop", job[w])
  BY <1>2, Hands DEF InHand, Cleaning, StageFits, Holding
<1>8. FaultsFit /\ OnlyLosses /\ leading' \subseteq Schedulers
  <2>1. results' \subseteq results /\ scans' = scans /\ object' = object
    BY <1>2
  <2> QED BY <1>1, <1>2, <2>1, CopiesGo DEF FaultsFit, TypeOK
<1>9. PICK l \in Locals :
        /\ Moves(w, "c_save", l) /\ l.scan = job[w].scan /\ l.security = job[w].security
        /\ l.json.stage = job[w].json.stage /\ l.json.scan = job[w].json.scan
        /\ l.json.text = job[w].json.text /\ l.json.removed = job[w].json.removed
        /\ l.json.error \in {job[w].json.error, "none"}
        /\ l.json.op = job[w].json.op \/ (l.json.op = 0 /\ job[w].json.op \notin results')
  <2>1. CASE job' = [job EXCEPT ![w].json = k] /\ results' = results \ {job[w].json.op}
    <3>1. PICK l \in Locals : /\ Moves(w, "c_save", l) /\ l.json = k
                              /\ l.scan = job[w].scan /\ l.security = job[w].security
      BY <1>1, <1>2, <1>3, <2>1, Editing
    <3> QED BY <1>3, <2>1, <3>1
  <2>2. CASE job' = [job EXCEPT ![w].json = n]
    <3>1. PICK l \in Locals : /\ Moves(w, "c_save", l) /\ l.json = n
                              /\ l.scan = job[w].scan /\ l.security = job[w].security
      BY <1>1, <1>2, <1>4, <2>2, Editing
    <3> QED BY <1>4, <3>1
  <2> QED BY <1>2, <1>5, <1>6, <2>1, <2>2
<1>10. Informed("c_save", l)'
  <2>1. Coherent(l) /\ InProcess(l) /\ Unread(l)
    BY <1>7, <1>9, Facts DEF Coherent, InProcess, Unread
  <2>2. StageFits("c_save", l.json.stage)
    BY <1>7, <1>9 DEF StageFits, Awaited, Removing, Deleting
  <2>3. Informed("c_save", l)
    BY <2>1, <2>2 DEF Informed
  <2>4. l.json.removed => ~object'.exists
    BY <1>2, <2>1 DEF Coherent
  <2> QED BY <1>2, <2>3, <2>4, StillInformed
<1>11. ASSUME row.json.lock = w PROVE Standing("c_save", l)'
  <2>1. results' \subseteq results /\ scans' = scans
    BY <1>2
  <2> QED BY <1>2, <1>7, <1>9, <1>11, <2>1 DEF Standing, file
<1>12. "c_save" \notin Submitting /\ "c_save" \notin Removing
  BY DEF Submitting, Removing, Deleting
<1> QED BY <1>2, <1>8, <1>9, <1>10, <1>11, <1>12, QuietStep DEF Prepared, past

\* The row takes over what the worker has of the copies.
LEMMA TakesOver ==
  ASSUME DocumentInv, NEW w \in Workers, row.json.lock = w, pc[w] \in Holding \ {"catch"},
         SameRefs(row'.json, job[w].json),
         row'.status = row.status, row'.scan = row.scan, row'.security = row.security,
         row.status # "gone", Present => pc[w] \in Cleaning,
         UNCHANGED <<linked, object, file, azure, tracked>>
  PROVE  RowFits' /\ CopiesKnown' /\ Present' = Present
         /\ ScanDue' = ScanDue /\ ResultDue' = ResultDue
<1>1. /\ row'.json.stage = row.json.stage /\ row'.json.op = job[w].json.op
      /\ row'.json.scan = job[w].json.scan /\ row'.json.text = job[w].json.text
      /\ row'.json.removed = job[w].json.removed /\ row'.json.error = job[w].json.error
      /\ Coherent(job[w]) /\ Standing(pc[w], job[w]) /\ Present' = Present
      /\ Present => InProcess(job[w]) /\ row.json.stage = "complete"
      /\ row.json.stage = job[w].json.stage
  <2>1. Coherent(job[w]) /\ Standing(pc[w], job[w])
    BY Hands
  <2>2. row.json.stage = job[w].json.stage
    BY <2>1 DEF Standing
  <2>3. Present => InProcess(job[w]) /\ job[w].json.stage = "complete"
    BY Hands DEF InHand, StageFits
  <2> QED BY <2>1, <2>2, <2>3 DEF SameRefs, Present
<1>2. row.json.scan \in Nat /\ row.json.op \in Nat /\ job[w].json.scan \in Nat
      /\ job[w].json.op \in Nat /\ RowFits /\ CopiesKnown
      /\ verdict' = verdict /\ whole' = whole
  BY Facts, Numbers DEF file
<1>3. Coherent(row)'
  BY <1>1, <1>2 DEF Coherent, azure
<1>4. Present => InProcess(row)' /\ Unread(row)'
  BY <1>1, <1>2 DEF RowFits, InProcess, Unread, Reached, Unreleased, Coherent
<1>5. RowFits'
  BY <1>1, <1>2, <1>3, <1>4 DEF RowFits
<1>6. CopiesKnown'
  <2>1. scans \subseteq 1..MaxCopies /\ results \subseteq 1..MaxCopies
    BY Facts DEF TypeOK
  <2>2. scans \cap tracked.scan \subseteq {job[w].json.scan}
    BY <1>1, <1>2, <2>1 DEF CopiesKnown, Standing
  <2>3. whole => results \cap tracked.result \subseteq {job[w].json.op}
    BY <1>1, <1>2, <2>1 DEF CopiesKnown, Standing
  <2> QED BY <1>1, <1>2, <2>2, <2>3 DEF CopiesKnown, azure
<1>7. ScanDue' = ScanDue /\ ResultDue' = ResultDue
  BY <1>1 DEF ScanDue, ResultDue
<1> QED BY <1>1, <1>5, <1>6, <1>7

\* The save after a leftover result is gone.
LEMMA SaveCleanupStep ==
  ASSUME DocumentInv, NEW w \in Workers, SaveCleanup(w) PROVE DocumentInv'
<1>1. PICK j \in {job[w].json, row.json} :
        /\ pc[w] = "c_save" /\ Return(w) /\ FaultsFit
        /\ row' = IF Present /\ row.json.lock = w
                  THEN [row EXCEPT !.json = Unlocked(j)] ELSE row
        /\ UNCHANGED <<linked, object, file, azure, leading, past>>
  BY DEF SaveCleanup, FaultsFit
<1>2. /\ row \in DocumentRows /\ row.json \in Documents /\ job[w].json \in Documents /\ TypeOK
      /\ j \in Documents /\ leading' \subseteq Schedulers
  BY <1>1, Facts DEF TypeOK
<1>3. CASE ~(Present /\ row.json.lock = w)
  <2>1. UNCHANGED row
    BY <1>1, <1>3
  <2>2. OnlyLosses
    BY <1>1, NoLosses DEF azure
  <2> QED BY <1>1, <1>2, <2>1, <2>2, EndStep DEF azure, past
<1>4. CASE Present /\ row.json.lock = w
  <2>1. /\ Unlocked(j) \in Documents /\ SameRefs(Unlocked(j), j)
        /\ Unlocked(j).lock = Nobody /\ ~Unlocked(j).live
    BY <1>2, LockEdits
  <2>2. row' = [row EXCEPT !.json = Unlocked(j)]
    BY <1>1, <1>4
  <2>3. /\ row' \in DocumentRows /\ row'.json = Unlocked(j) /\ row'.status = row.status
        /\ row'.scan = row.scan /\ row'.security = row.security
    BY <1>2, <2>1, <2>2 DEF DocumentRows
  <2>4. RowTyped /\ row'.json.lock = Nobody /\ SameRefs(row'.json, j)
    BY <2>1, <2>3 DEF RowTyped
  <2>5. CASE j = row.json
    <3>1. RowKept
      BY <1>1, <2>3, <2>4, <2>5 DEF RowKept, past
    <3> QED BY <1>1, <1>2, <2>4, <3>1, GivesBack
  <2>6. CASE j = job[w].json
    <3>1. pc[w] \in Holding \ {"catch"} /\ pc[w] \in Cleaning /\ row.status # "gone"
      BY <1>1, <1>4 DEF Holding, Cleaning, Present
    <3>2. RowFits' /\ CopiesKnown' /\ Present' = Present
          /\ ScanDue' = ScanDue /\ ResultDue' = ResultDue
      BY <1>1, <1>4, <2>3, <2>4, <2>6, <3>1, TakesOver DEF past
    <3>3. PICK p \in {"idle", "t_finish"}, l \in Locals :
            /\ Moves(w, p, l) /\ Informed(p, l)
            /\ p \notin Submitting /\ p \notin Holding /\ p \notin Removing /\ p # "t_claim"
      BY <1>1, Ended
    <3>4. SubmissionsCounted'
      <4>1. ScanDue' <= ScanDue /\ ResultDue' <= ResultDue
        BY <3>2 DEF ScanDue, ResultDue
      <4> QED BY <1>1, <3>3, <4>1, CountStays, NobodySubmits DEF azure, past
    <3> QED BY <1>1, <1>2, <2>4, <3>2, <3>3, <3>4, WriteStep DEF TypeOK, past
  <2> QED BY <2>5, <2>6
<1> QED BY <1>3, <1>4
-----------------------------------------------------------------------------
(* Deletion.                                                                *)

\* The request to delete, which turns the document into a tombstone.
LEMMA StartDeletionStep ==
  ASSUME DocumentInv, NEW w \in Workers, StartDeletion(w) PROVE DocumentInv'
<1> DEFINE k == [Empty EXCEPT !.op = job[w].json.op, !.scan = job[w].json.scan]
<1>1. /\ pc[w] = "d_start" /\ UNCHANGED <<linked, object, file, azure, leading, past, faults>>
      /\ IF Same(w) /\ MayDelete
         THEN /\ row' = [row EXCEPT !.status = "deletion_pending", !.security = "quarantined",
                                    !.json = k]
              /\ Goto(w, "d_read")
              /\ job' = [job EXCEPT ![w] = NoJob]
         ELSE End(w) /\ UNCHANGED row
  BY DEF StartDeletion
<1>2. CASE ~(Same(w) /\ MayDelete)
  BY <1>1, <1>2, NothingToDo
<1>3. CASE Same(w) /\ MayDelete
  <2>1. /\ row \in DocumentRows /\ row.json \in Documents /\ TypeOK
        /\ job[w].json = row.json /\ Present /\ ~linked
        /\ row.json.op \in Copies /\ row.json.scan \in Copies
    BY <1>3, Facts DEF Same, MayDelete, Documents
  <2>2. /\ k \in Documents /\ k.stage = "none" /\ k.op = row.json.op /\ k.scan = row.json.scan
        /\ ~k.removed /\ k.error = "none" /\ k.lock = Nobody /\ ~k.live
    <3>1. k = [Empty EXCEPT !.op = row.json.op, !.scan = row.json.scan]
      BY <2>1
    <3>2. PICK e \in Documents : /\ e = Empty /\ e.stage = "none" /\ ~e.removed
                                 /\ e.error = "none" /\ e.lock = Nobody /\ ~e.live
      BY NothingDone
    <3>3. k = [e EXCEPT !.op = row.json.op, !.scan = row.json.scan]
      BY <3>1, <3>2
    <3> HIDE DEF k
    <3>4. k \in Documents
      BY <2>1, <3>3 DEF Documents
    <3> QED BY <3>2, <3>3, <3>4 DEF Documents
  <2> HIDE DEF k
  <2>3. /\ row' = [row EXCEPT !.status = "deletion_pending", !.security = "quarantined",
                              !.json = k]
        /\ Goto(w, "d_read") /\ job' = [job EXCEPT ![w] = NoJob]
    BY <1>1, <1>3
  <2>4. /\ row' \in DocumentRows
    BY <2>1, <2>2, <2>3 DEF DocumentRows, Statuses, Securities
  <2>5. row'.json = k /\ row'.status = "deletion_pending" /\ row'.scan = row.scan
    BY <2>1, <2>3 DEF DocumentRows
  <2>6. RowTyped /\ ~Present' /\ row'.json.lock = Nobody
    BY <2>2, <2>4, <2>5 DEF RowTyped, Present
  <2>7. RowFits'
    <3>1. Coherent(row)'
      BY <1>1, <2>2, <2>5, Facts DEF Coherent, RowFits, Reached, azure
    <3> QED BY <1>1, <2>1, <2>2, <2>5, <2>6, <3>1, Facts DEF RowFits, file
  <2>8. CopiesKnown'
    BY <1>1, <2>2, <2>5, Facts DEF CopiesKnown, azure, file, past
  <2>9. PICK p \in {"idle", "c_read", "d_read", "t_finish"}, l \in Locals :
          p = "d_read" /\ l = NoJob /\ Moves(w, p, l)
    <3>1. "d_read" \in Points
      BY DEF Points, Deleting
    <3> QED BY <2>1, <2>3, <3>1, Going, NothingDone
  <2>10. /\ p \notin InHand /\ p \notin Removing /\ p \notin Holding /\ p \notin Submitting
         /\ p \notin Awaited /\ p \notin Cleaning /\ p # "t_claim"
    BY <2>9 DEF InHand, Removing, Holding, Processing, Deleting, Cleaning, Submitting, Awaited
  <2>11. Informed(p, l)
    <3>1. Coherent(l)
      BY <2>9, NothingDone, Facts DEF Coherent, Reached
    <3> QED BY <2>9, <2>10, <3>1 DEF Informed, StageFits
  <2>12. SubmissionsCounted'
    <3>1. ScanDue' = 0 /\ ResultDue' = 0
      BY <2>6 DEF ScanDue, ResultDue
    <3>2. ScanDue' <= ScanDue /\ ResultDue' <= ResultDue
      BY <3>1 DEF ScanDue, ResultDue
    <3> QED BY <1>1, <2>9, <2>10, <3>2, CountStays, NobodySubmits DEF azure, past
  <2> QED BY <1>1, <2>1, <2>6, <2>7, <2>8, <2>9, <2>10, <2>11, <2>12, WriteStep
          DEF FaultsFit, TypeOK, past
<1> QED BY <1>2, <1>3

\* What a worker at the removal of copies knows.
LEMMA Remover ==
  ASSUME DocumentInv, NEW w \in Workers, pc[w] \in Removing
  PROVE  /\ Coherent(job[w]) /\ job[w].json.stage = "none" /\ ~Present
         /\ row.json.lock = w => Standing(pc[w], job[w])
         /\ pc[w] \notin InHand /\ pc[w] \in Holding /\ pc[w] # "catch"
<1>1. pc[w] \notin InHand /\ pc[w] \in Holding /\ pc[w] # "catch"
  BY DEF InHand, Holding, Processing, Cleaning, Removing, Deleting
<1> QED BY <1>1, Hands DEF StageFits

\* A step of w among the copies that the row is not told of yet.
LEMMA RemovalStep ==
  ASSUME DocumentInv, NEW w \in Workers, NEW p \in Removing, NEW l \in Locals, Moves(w, p, l),
         pc[w] \in Removing,
         l.json.stage = "none", l.json.error = job[w].json.error,
         l.json.removed => ~object'.exists,
         l.json.scan = job[w].json.scan
            \/ (l.json.scan = 0 /\ job[w].json.scan \notin scans'),
         l.json.op = job[w].json.op
            \/ (l.json.op = 0 /\ job[w].json.op \notin results'),
         OnlyLosses, FaultsFit, leading' \subseteq Schedulers,
         UNCHANGED <<row, linked, file, sent, tracked, retries>>
  PROVE  DocumentInv'
<1>1. /\ p \notin InHand /\ p \notin Submitting /\ p \notin Awaited /\ p \notin Cleaning
      /\ p # "t_claim" /\ p # "catch"
  BY DEF InHand, Processing, Cleaning, Removing, Deleting, Submitting, Awaited
<1>2. Coherent(l)'
  BY Remover, Facts DEF Coherent, Reached, file
<1>3. Informed(p, l)'
  BY <1>1, <1>2 DEF Informed, StageFits, Removing, Deleting
<1>4. ASSUME row.json.lock = w PROVE Standing(p, l)'
  <2>1. Standing(pc[w], job[w]) /\ pc[w] # "catch" /\ job[w].json.stage = "none"
    BY <1>4, Remover
  <2> QED BY <2>1 DEF Standing, OnlyLosses, file
<1> QED BY <1>1, <1>3, <1>4, Remover, QuietStep DEF Prepared

\* Recording that a copy is gone changes nothing else of a tombstone.
LEMMA RemovalEdits ==
  ASSUME NEW j \in Documents
  PROVE  /\ \E k \in Documents : /\ k = [j EXCEPT !.removed = TRUE]
                                 /\ k.stage = j.stage /\ k.error = j.error
                                 /\ k.scan = j.scan /\ k.op = j.op
         /\ \E k \in Documents : /\ k = [j EXCEPT !.op = 0]
                                 /\ k.stage = j.stage /\ k.error = j.error
                                 /\ k.scan = j.scan /\ k.op = 0 /\ k.removed = j.removed
         /\ \E k \in Documents : /\ k = [j EXCEPT !.scan = 0]
                                 /\ k.stage = j.stage /\ k.error = j.error
                                 /\ k.scan = 0 /\ k.op = j.op /\ k.removed = j.removed
<1>1. 0 \in Copies
  BY CountAssumption DEF Copies
<1>2. /\ [j EXCEPT !.removed = TRUE] \in Documents
      /\ [j EXCEPT !.op = 0] \in Documents
      /\ [j EXCEPT !.scan = 0] \in Documents
  BY <1>1 DEF Documents
<1>3. LET k == [j EXCEPT !.removed = TRUE] IN
         k.stage = j.stage /\ k.error = j.error /\ k.scan = j.scan /\ k.op = j.op
  BY DEF Documents
<1>4. LET k == [j EXCEPT !.op = 0] IN
         k.stage = j.stage /\ k.error = j.error /\ k.scan = j.scan /\ k.op = 0
         /\ k.removed = j.removed
  BY DEF Documents
<1>5. LET k == [j EXCEPT !.scan = 0] IN
         k.stage = j.stage /\ k.error = j.error /\ k.scan = 0 /\ k.op = j.op
         /\ k.removed = j.removed
  BY DEF Documents
<1> QED BY <1>2, <1>3, <1>4, <1>5

\* The removal of the object, of the scan copy and of the result.
LEMMA DeleteCopyStep ==
  ASSUME DocumentInv, NEW w \in Workers, DeleteCopy(w) PROVE DocumentInv'
<1> DEFINE p == CASE pc[w] = "d_original" -> "d_original_save"
                  [] pc[w] = "d_result" -> "d_result_save" [] OTHER -> "d_scan_save"
<1>1. /\ pc[w] \in {"d_original", "d_result", "d_scan"} /\ Goto(w, p)
      /\ UNCHANGED <<row, linked, file, sent, leading, past>>
      /\ \/ /\ UNCHANGED faults
            /\ \/ /\ pc[w] = "d_original"
                  /\ object' = [object EXCEPT !.exists = FALSE]
                  /\ job' = [job EXCEPT ![w].json.removed = TRUE]
                  /\ UNCHANGED <<scans, results>>
               \/ /\ pc[w] = "d_result" /\ results' = results \ {job[w].json.op}
                  /\ job' = [job EXCEPT ![w].json.op = 0]
                  /\ UNCHANGED <<object, scans>>
               \/ /\ pc[w] = "d_scan" /\ scans' = scans \ {job[w].json.scan}
                  /\ job' = [job EXCEPT ![w].json.scan = 0]
                  /\ UNCHANGED <<object, results>>
         \/ Fault /\ UNCHANGED <<object, scans, results, job>>
  BY DEF DeleteCopy
<1>2. /\ job \in [Workers -> Locals] /\ job[w] \in Locals /\ job[w].json \in Documents
      /\ TypeOK /\ leading' \subseteq Schedulers /\ 0 \in Copies
  BY <1>1, Facts, CountAssumption DEF TypeOK, Copies
<1>3. p \in Removing /\ p \in Points /\ pc[w] \in Removing
  BY <1>1 DEF Removing, Deleting, Points
<1> HIDE DEF p
<1>4. /\ Coherent(job[w]) /\ job[w].json.stage = "none" /\ ~Present
  BY <1>3, Remover
<1>5. FaultsFit
  BY <1>1 DEF FaultsFit
<1>6. OnlyLosses
  <2>1. scans' \subseteq scans /\ results' \subseteq results
    BY <1>1
  <2>2. /\ object' \in [exists : BOOLEAN, security : Securities]
        /\ object'.exists => object.exists
        /\ object'.security = "clean" => verdict = "clean"
    <3>1. /\ object \in [exists : BOOLEAN, security : Securities]
          /\ object.security = "clean" => verdict = "clean"
      BY Facts DEF TypeOK, RowFits
    <3>2. CASE object' = [object EXCEPT !.exists = FALSE]
      BY <3>1, <3>2
    <3>3. CASE object' = object
      BY <3>1, <3>3
    <3> QED BY <1>1, <3>2, <3>3
  <2> QED BY <1>4, <2>1, <2>2 DEF OnlyLosses
<1>7. PICK l \in Locals :
        /\ Moves(w, p, l) /\ l.json.stage = "none" /\ l.json.error = job[w].json.error
        /\ l.json.removed => ~object'.exists
        /\ l.json.scan = job[w].json.scan
              \/ (l.json.scan = 0 /\ job[w].json.scan \notin scans')
        /\ l.json.op = job[w].json.op \/ (l.json.op = 0 /\ job[w].json.op \notin results')
  <2>1. CASE /\ object' = [object EXCEPT !.exists = FALSE]
             /\ job' = [job EXCEPT ![w].json.removed = TRUE]
    <3>1. PICK k \in Documents :
            /\ k = [job[w].json EXCEPT !.removed = TRUE]
            /\ k.stage = job[w].json.stage /\ k.error = job[w].json.error
            /\ k.scan = job[w].json.scan /\ k.op = job[w].json.op
      BY <1>2, RemovalEdits
    <3>2. job' = [job EXCEPT ![w].json = k]
      BY <1>2, <2>1, <3>1 DEF Locals
    <3>3. PICK l \in Locals : Moves(w, p, l) /\ l.json = k
      BY <1>1, <1>3, <3>2, Editing, ZenonT(60)
    <3>4. ~object'.exists
      BY <1>2, <2>1 DEF TypeOK
    <3> QED BY <1>4, <3>1, <3>3, <3>4
  <2>2. CASE /\ results' = results \ {job[w].json.op} /\ UNCHANGED object
             /\ job' = [job EXCEPT ![w].json.op = 0]
    <3>1. PICK k \in Documents :
            /\ k = [job[w].json EXCEPT !.op = 0]
            /\ k.stage = job[w].json.stage /\ k.error = job[w].json.error
            /\ k.scan = job[w].json.scan /\ k.op = 0 /\ k.removed = job[w].json.removed
      BY <1>2, RemovalEdits
    <3>2. job' = [job EXCEPT ![w].json = k]
      BY <1>2, <2>2, <3>1 DEF Locals
    <3>3. PICK l \in Locals : Moves(w, p, l) /\ l.json = k
      BY <1>1, <1>3, <3>2, Editing, ZenonT(60)
    <3> QED BY <1>4, <2>2, <3>1, <3>3 DEF Coherent
  <2>3. CASE /\ scans' = scans \ {job[w].json.scan} /\ UNCHANGED object
             /\ job' = [job EXCEPT ![w].json.scan = 0]
    <3>1. PICK k \in Documents :
            /\ k = [job[w].json EXCEPT !.scan = 0]
            /\ k.stage = job[w].json.stage /\ k.error = job[w].json.error
            /\ k.scan = 0 /\ k.op = job[w].json.op /\ k.removed = job[w].json.removed
      BY <1>2, RemovalEdits
    <3>2. job' = [job EXCEPT ![w].json = k]
      BY <1>2, <2>3, <3>1 DEF Locals
    <3>3. PICK l \in Locals : Moves(w, p, l) /\ l.json = k
      BY <1>1, <1>3, <3>2, Editing, ZenonT(60)
    <3> QED BY <1>4, <2>3, <3>1, <3>3 DEF Coherent
  <2>4. CASE UNCHANGED <<object, job>>
    BY <1>1, <1>3, <1>4, <2>4, Keeping DEF Coherent
  <2> QED BY <1>1, <2>1, <2>2, <2>3, <2>4
<1> QED BY <1>1, <1>2, <1>3, <1>5, <1>6, <1>7, RemovalStep DEF past

\* The save after each removal.
LEMMA SaveDeletionStep ==
  ASSUME DocumentInv, NEW w \in Workers, SaveDeletion(w) PROVE DocumentInv'
<1>1. /\ pc[w] \in {"d_original_save", "d_result_save", "d_scan_save"}
      /\ IF Tombstone(w)
         THEN /\ row' = [row EXCEPT !.json = Locked(w, job[w].json)]
              /\ Goto(w, NextCopy(job[w].json, pc[w])) /\ UNCHANGED job
         ELSE Return(w) /\ UNCHANGED row
      /\ UNCHANGED <<linked, object, file, azure, leading, past, faults>>
  BY DEF SaveDeletion
<1>2. CASE ~Tombstone(w)
  BY <1>1, <1>2, NothingToDo
<1>3. CASE Tombstone(w)
  <2>1. /\ row \in DocumentRows /\ job[w].json \in Documents /\ TypeOK
        /\ row.json.lock = w /\ row.status = "deletion_pending"
        /\ pc[w] \in Removing /\ w # Nobody
    BY <1>1, <1>3, Facts DEF Tombstone, Removing, Deleting
  <2>2. PICK k \in Documents : /\ k = Locked(w, job[w].json)
                               /\ SameRefs(k, job[w].json) /\ k.lock = w
    BY <2>1, LockEdits
  <2>3. row' = [row EXCEPT !.json = k]
    BY <1>1, <1>3, <2>2
  <2>4. /\ row' \in DocumentRows /\ row'.json = k /\ row'.status = row.status
        /\ row'.scan = row.scan /\ row'.security = row.security
    BY <2>1, <2>3 DEF DocumentRows
  <2>5. /\ Coherent(job[w]) /\ job[w].json.stage = "none" /\ ~Present
        /\ Standing(pc[w], job[w]) /\ pc[w] \in Holding \ {"catch"}
    BY <2>1, Remover
  <2>6. RowFits' /\ CopiesKnown' /\ Present' = Present
        /\ ScanDue' = ScanDue /\ ResultDue' = ResultDue
    <3>1. SameRefs(row'.json, job[w].json) /\ row.status # "gone"
      BY <2>1, <2>2, <2>4
    <3> QED BY <1>1, <2>1, <2>4, <2>5, <3>1, TakesOver DEF past
  <2>7. PICK p \in {"d_result", "d_scan", "d_finish"} : Goto(w, p)
    BY <1>1, <1>3 DEF NextCopy
  <2>8. /\ p \in Points /\ p \notin InHand /\ p \notin Submitting /\ p \in Removing
        /\ p \notin Awaited /\ p \notin Cleaning /\ p # "t_claim"
    BY DEF Points, InHand, Processing, Cleaning, Removing, Deleting, Submitting, Awaited
  <2>9. PICK l \in Locals : l = job[w] /\ Moves(w, p, l)
    BY <1>1, <1>3, <2>7, <2>8, Keeping
  <2>10. Informed(p, l)
    BY <2>5, <2>8, <2>9 DEF Informed, StageFits, Removing, Deleting
  <2>11. Standing(p, l)'
    BY <2>2, <2>4, <2>9 DEF Standing, SameRefs
  <2>12. SubmissionsCounted'
    <3>1. ScanDue' <= ScanDue /\ ResultDue' <= ResultDue
      BY <2>6 DEF ScanDue, ResultDue
    <3> QED BY <1>1, <2>8, <2>9, <3>1, CountStays, NobodySubmits DEF azure, past
  <2>13. RowTyped /\ row'.json.lock = w
    BY <2>1, <2>2, <2>4 DEF RowTyped
  <2>14. /\ FaultsFit /\ linked' \in BOOLEAN /\ retries' \in Copies
         /\ UNCHANGED <<object, file, azure, leading>>
         /\ tracked' \in [scan : SUBSET (1..MaxCopies), result : SUBSET (1..MaxCopies)]
    BY <1>1, <2>1 DEF FaultsFit, TypeOK, past
  <2> QED BY <2>5, <2>6, <2>8, <2>9, <2>10, <2>11, <2>12, <2>13, <2>14, WriteStep
<1> QED BY <1>2, <1>3

\* A worker turns to giving its lease back.
LEMMA Releases ==
  ASSUME DocumentInv, NEW w \in Workers, Goto(w, "d_release"), UNCHANGED job, FaultsFit,
         UNCHANGED <<row, linked, object, file, azure, leading, past>>
  PROVE  DocumentInv'
<1>1. /\ "d_release" \in Points /\ TypeOK
      /\ "d_release" \notin Holding /\ "d_release" \notin Removing
      /\ "d_release" \notin InHand /\ "d_release" \notin Submitting
      /\ "d_release" \notin Awaited /\ "d_release" \notin Cleaning
  BY Facts DEF Removing, Deleting, Points, Other, Holding, Processing, InHand, Submitting,
               Awaited, Cleaning
<1>2. PICK l \in Locals : l = job[w] /\ Moves(w, "d_release", l)
  BY <1>1, Keeping
<1>3. Informed("d_release", l)
  BY <1>1, <1>2, Hands DEF Informed, StageFits
<1> QED BY <1>1, <1>2, <1>3, ReadStep DEF TypeOK

\* The last write of a deletion.
LEMMA FinishDeletionStep ==
  ASSUME DocumentInv, NEW w \in Workers, FinishDeletion(w) PROVE DocumentInv'
<1>1. /\ pc[w] = "d_finish"
      /\ IF ~Disposed(job[w].json) THEN Goto(w, "d_release") /\ UNCHANGED <<row, job>>
         ELSE /\ row' = IF Tombstone(w) THEN [row EXCEPT !.status = "gone", !.json = Empty]
                        ELSE row
              /\ Return(w)
      /\ UNCHANGED <<linked, object, file, azure, leading, past, faults>>
  BY DEF FinishDeletion
<1>2. pc[w] \in Removing /\ TypeOK
  BY <1>1, Facts DEF Removing, Deleting
<1>3. CASE ~Disposed(job[w].json)
  BY <1>1, <1>3, Releases DEF FaultsFit
<1>4. CASE Disposed(job[w].json) /\ ~Tombstone(w)
  BY <1>1, <1>4, NothingToDo
<1>5. CASE Disposed(job[w].json) /\ Tombstone(w)
  <2>1. /\ row \in DocumentRows /\ row.json.lock = w /\ ~Present /\ RowFits /\ CopiesKnown
        /\ Coherent(job[w]) /\ Standing(pc[w], job[w])
        /\ job[w].json.removed /\ job[w].json.op = 0 /\ job[w].json.scan = 0
        /\ scans \subseteq 1..MaxCopies /\ results \subseteq 1..MaxCopies
    BY <1>2, <1>5, Facts, Remover DEF Tombstone, Disposed, TypeOK
  <2>2. PICK e \in Documents : /\ e = Empty /\ e.stage = "none" /\ ~e.removed
                               /\ e.error = "none" /\ e.lock = Nobody /\ ~e.live
                               /\ e.op = 0 /\ e.scan = 0
    BY NothingDone
  <2>3. row' = [row EXCEPT !.status = "gone", !.json = e] /\ Return(w)
    BY <1>1, <1>5, <2>2
  <2>4. row' \in DocumentRows
    BY <2>1, <2>2, <2>3 DEF DocumentRows, Statuses
  <2>5. row'.json = e /\ row'.status = "gone"
    BY <2>1, <2>3 DEF DocumentRows
  <2>6. RowTyped /\ ~Present' /\ row'.json.lock = Nobody
    BY <2>2, <2>4, <2>5 DEF RowTyped, Present
  <2>7. RowFits'
    <3>1. Coherent(row)' /\ ~object'.exists
      BY <1>1, <2>1, <2>2, <2>5, Facts DEF Coherent, Reached, azure
    <3> QED BY <1>1, <2>1, <2>2, <2>5, <2>6, <3>1 DEF RowFits, file
  <2>8. CopiesKnown'
    <3>1. scans \cap tracked.scan \subseteq {0} /\ (whole => results \cap tracked.result \subseteq {0})
      BY <2>1 DEF CopiesKnown, Standing
    <3> QED BY <1>1, <2>1, <2>2, <2>5, <3>1 DEF CopiesKnown, azure, file, past
  <2>9. PICK p \in {"idle", "t_finish"}, l \in Locals :
          /\ Moves(w, p, l) /\ Informed(p, l)
          /\ p \notin Submitting /\ p \notin Holding /\ p \notin Removing /\ p # "t_claim"
    BY <2>3, Ended
  <2>10. SubmissionsCounted'
    <3>1. ScanDue' = 0 /\ ResultDue' = 0
      BY <2>6 DEF ScanDue, ResultDue
    <3>2. ScanDue' <= ScanDue /\ ResultDue' <= ResultDue
      BY <3>1 DEF ScanDue, ResultDue
    <3> QED BY <1>1, <2>9, <3>2, CountStays, NobodySubmits DEF azure, past
  <2> QED BY <1>1, <1>2, <2>1, <2>6, <2>7, <2>8, <2>9, <2>10, WriteStep
          DEF FaultsFit, TypeOK, past
<1> QED BY <1>3, <1>4, <1>5

\* The errors a deletion throws.
LEMMA ThrowDeletionStep ==
  ASSUME DocumentInv, NEW w \in Workers, ThrowDeletion(w) PROVE DocumentInv'
BY Releases DEF ThrowDeletion, FaultsFit

\* A worker dies.
LEMMA CrashStep ==
  ASSUME DocumentInv, NEW w \in Workers, Crash(w) PROVE DocumentInv'
<1>1. /\ End(w) /\ Fault /\ UNCHANGED <<row, linked, object, file, azure, leading, past>>
  BY DEF Crash
<1>2. OnlyLosses
  BY <1>1, NoLosses DEF azure
<1> QED BY <1>1, <1>2, Facts, EndStep DEF azure, past, FaultsFit, TypeOK

\* A lease or a retry's time runs out.
LEMMA ExpireStep ==
  ASSUME DocumentInv, ExpireLease \/ \E w \in Schedulers : ExpireRetry(w)
  PROVE  DocumentInv'
<1>1. /\ UNCHANGED <<linked, object, file, azure, past, pc, job>> /\ FaultsFit
      /\ UNCHANGED row \/ (row.json.live /\ row' = [row EXCEPT !.json.live = FALSE])
      /\ leading' \subseteq leading
  BY DEF ExpireLease, ExpireRetry, FaultsFit
<1>2. leading' \subseteq Schedulers
  BY <1>1, Facts DEF TypeOK
<1>3. RowKept /\ row'.json.lock = row.json.lock
  <2>1. CASE UNCHANGED row
    BY <1>1, <2>1, Facts DEF RowKept, RowTyped, SameRefs, TypeOK, past
  <2>2. CASE row.json.live /\ row' = [row EXCEPT !.json.live = FALSE]
    <3>1. RowTyped /\ SameRefs(row'.json, row.json) /\ row'.json.lock = row.json.lock
      <4>1. row.json.lock \in Workers
        BY <2>2, Facts DEF TypeOK, Documents
      <4> QED BY <2>2, <4>1, RowEdits
    <3> QED BY <1>1, <2>2, <3>1, Facts DEF RowKept, DocumentRows, past
  <2> QED BY <1>1, <2>1, <2>2
<1> QED BY <1>1, <1>2, <1>3, LeaseStep

\* Evidence is recorded.
LEMMA ApproveStep ==
  ASSUME DocumentInv, Approve PROVE DocumentInv'
<1>1. PICK status \in {"approved", "review_required"} :
        /\ Present /\ row.security = "clean" /\ row.scan = "clean"
        /\ linked' = TRUE /\ row' = [row EXCEPT !.status = status]
        /\ UNCHANGED <<object, file, azure, leading, past, faults, pc, job>>
  BY DEF Approve, RecordEvidence
<1>2. /\ row' \in DocumentRows /\ row'.json = row.json /\ row'.status = status
      /\ row'.scan = row.scan /\ row'.security = row.security
  BY <1>1, Facts DEF DocumentRows, Statuses
<1>3. Present' /\ RowTyped
  BY <1>1, <1>2, Facts DEF Present, RowTyped, TypeOK
<1>4. RowFits'
  <2>1. RowFits
    BY Facts
  <2>2. Coherent(row)' /\ InProcess(row)' /\ Unread(row)'
    BY <1>1, <1>2, <2>1 DEF RowFits, Coherent, InProcess, Unread, azure, file
  <2> QED BY <1>1, <1>2, <1>3, <2>1, <2>2 DEF RowFits, file, Present
<1>5. CopiesKnown'
  BY <1>1, <1>2, Facts DEF CopiesKnown, azure, file, past
<1>6. SubmissionsCounted'
  <2>1. ScanDue' = ScanDue /\ ResultDue' = ResultDue
    BY <1>1, <1>2, <1>3 DEF ScanDue, ResultDue
  <2>2. ScanDue' <= ScanDue /\ ResultDue' <= ResultDue
    BY <2>1 DEF ScanDue, ResultDue
  <2>3. \A x \in Submitting : At(x)' \subseteq At(x)
    BY <1>1 DEF At
  <2> QED BY <1>1, <2>2, <2>3, CountStays DEF azure, past
<1>7. Onward
  BY <1>1, <1>3, RowOnward
<1>8. \A v \in Workers : WorkerFits(v)'
  BY <1>1, <1>2, <1>7, OthersFit DEF ClaimStands
<1> QED BY <1>1, <1>3, <1>4, <1>5, <1>6, <1>8, Facts, RowStep DEF FaultsFit, TypeOK, past, Points
-----------------------------------------------------------------------------
(* The theorems.                                                            *)

\* The invariant holds of a document just taken in.
LEMMA InitFits == ASSUME Init PROVE DocumentInv
<1>1. /\ whole \in BOOLEAN /\ linked = FALSE /\ scans = {} /\ leading = {}
      /\ tracked = [scan |-> {}, result |-> results]
      /\ retries = 0 /\ faults = 0
      /\ pc = [w \in Workers |-> "idle"] /\ job = [w \in Workers |-> NoJob]
  BY DEF Init
<1>2. /\ Empty \in Documents /\ Empty.stage = "none" /\ Empty.op = 0 /\ Empty.scan = 0
      /\ Empty.lock = Nobody /\ ~Empty.live /\ ~Empty.removed /\ Empty.error = "none"
  BY NothingDone
<1>3. PICK j \in Documents :
        /\ row.json = j /\ j.lock = Nobody /\ ~j.live /\ ~j.removed /\ j.error = "none"
        /\ j.scan = 0
        /\ object = [exists |-> TRUE, security |-> row.security]
        /\ row.status = "review_required" /\ row \in DocumentRows
        /\ verdict \in {"clean", "blocked"}
        /\ \/ /\ j.stage = "none" /\ j.op = 0 /\ results = {}
              /\ sent = [scan |-> 0, result |-> 0]
              /\ row.security = "quarantined" /\ row.scan = "pending"
           \/ /\ j.stage = "complete" /\ j.op = 1 /\ j.text /\ results = {1}
              /\ sent = [scan |-> 1, result |-> 1] /\ verdict = "clean"
              /\ row.security = "clean" /\ row.scan = "clean"
  <2>1. CASE /\ row = [status |-> "review_required", security |-> "quarantined",
                       scan |-> "pending", extraction |-> "not_configured", json |-> Empty]
             /\ object = [exists |-> TRUE, security |-> "quarantined"]
             /\ verdict \in {"clean", "blocked"} /\ results = {}
             /\ sent = [scan |-> 0, result |-> 0]
    <3> HIDE DEF Empty
    <3> QED BY <1>2, <2>1 DEF DocumentRows, Statuses, Securities, Scans, Extractions
  <2>2. CASE /\ row = [status |-> "review_required", security |-> "clean", scan |-> "clean",
                       extraction |-> "complete",
                       json |-> [Empty EXCEPT !.stage = "complete", !.op = 1,
                                              !.cleanup = TRUE, !.text = TRUE]]
             /\ object = [exists |-> TRUE, security |-> "clean"]
             /\ verdict = "clean" /\ results = {1} /\ sent = [scan |-> 1, result |-> 1]
    <3> DEFINE k == [Empty EXCEPT !.stage = "complete", !.op = 1, !.cleanup = TRUE,
                                  !.text = TRUE]
    <3>1. 1 \in Copies
      BY CountAssumption DEF Copies
    <3>2. PICK e \in Documents : /\ e = Empty /\ e.scan = 0 /\ e.lock = Nobody /\ ~e.live
                                 /\ ~e.removed /\ e.error = "none"
      BY <1>2
    <3>3. k = [e EXCEPT !.stage = "complete", !.op = 1, !.cleanup = TRUE, !.text = TRUE]
      BY <3>2
    <3>4. k \in Documents
      <4> HIDE DEF k
      <4> QED BY <3>1, <3>3 DEF Documents
    <3>5. /\ k.stage = "complete" /\ k.op = 1 /\ k.text /\ k.scan = 0 /\ k.lock = Nobody
          /\ ~k.live /\ ~k.removed /\ k.error = "none"
      <4> HIDE DEF k
      <4> QED BY <3>2, <3>3 DEF Documents
    <3> HIDE DEF k
    <3>6. row = [status |-> "review_required", security |-> "clean", scan |-> "clean",
                 extraction |-> "complete", json |-> k]
      BY <2>2 DEF k
    <3> QED BY <2>2, <3>4, <3>5, <3>6 DEF DocumentRows, Statuses, Securities, Scans, Extractions
  <2> QED BY <2>1, <2>2 DEF Init
<1>4. Present /\ object.exists /\ object.security = row.security
  BY <1>3 DEF Present
<1>5. TypeOK
  <2>1. /\ NoJob \in Locals /\ "idle" \in Points /\ MaxCopies \in Nat \ {0} /\ MaxFaults \in Nat
        /\ row.security \in Securities
    BY <1>3, NothingDone, CountAssumption DEF Points, Other, DocumentRows
  <2>2. /\ object \in [exists : BOOLEAN, security : Securities]
        /\ pc \in [Workers -> Points] /\ job \in [Workers -> Locals]
    BY <1>1, <1>3, <2>1
  <2>3. /\ sent \in [scan : Copies, result : Copies] /\ results \subseteq 1..MaxCopies
        /\ tracked \in [scan : SUBSET (1..MaxCopies), result : SUBSET (1..MaxCopies)]
        /\ retries \in Copies /\ faults \in 0..MaxFaults
    BY <1>1, <1>3, <2>1 DEF Copies
  <2> QED BY <1>1, <1>3, <2>2, <2>3 DEF TypeOK, Points
<1>6. RowFits
  BY <1>1, <1>3, <1>4 DEF RowFits, Coherent, InProcess, Unread, Reached, Unreleased
<1>7. CopiesKnown
  BY <1>1, <1>3 DEF CopiesKnown
<1>8. SubmissionsCounted
  <2>1. At("submit_scan") = {} /\ At("submit_result") = {}
    BY <1>1 DEF At
  <2>2. /\ IsFiniteSet(At("submit_scan")) /\ Cardinality(At("submit_scan")) = 0
        /\ IsFiniteSet(At("submit_result")) /\ Cardinality(At("submit_result")) = 0
    BY <2>1, FS_EmptySet
  <2>3. /\ row.json.stage = "complete" => ScanDue = 0 /\ ResultDue = 0
        /\ ScanDue \in {0, 1} /\ ResultDue \in {0, 1}
    BY DEF ScanDue, ResultDue, Unreleased
  <2> QED BY <1>1, <1>3, <2>2, <2>3 DEF SubmissionsCounted
<1>9. ASSUME NEW w \in Workers PROVE WorkerFits(w)
  <2>1. pc[w] = "idle" /\ job[w] = NoJob
    BY <1>1
  <2>2. /\ pc[w] \notin InHand /\ pc[w] \notin Removing /\ pc[w] \notin Holding
        /\ pc[w] \notin Awaited /\ pc[w] \notin Cleaning
    BY <2>1 DEF InHand, Removing, Holding, Processing, Deleting, Cleaning, Awaited
  <2>3. Coherent(job[w])
    BY <1>3, <2>1, NothingDone DEF Coherent, Reached
  <2> QED BY <2>1, <2>2, <2>3 DEF WorkerFits, Informed, StageFits
<1> QED BY <1>5, <1>6, <1>7, <1>8, <1>9 DEF DocumentInv

\* Every step of the processing of a document.
LEMMA ProcessStep ==
  ASSUME DocumentInv, NEW w \in Workers, Process(w) PROVE DocumentInv'
<1>1. CASE MarkInterrupted(w) \/ Claim(w) \/ DropScan(w) \/ GetOriginal(w)
  BY <1>1, MarkInterruptedStep, ClaimsDocument, ScanGone, GetOriginalStep
<1>2. CASE SubmitScan(w) \/ UndoScan(w) \/ PollScan(w) \/ DropCopy(w) \/ Renew(w) \/ Put(w)
  BY <1>2, SubmitsStep, UndoStep, PollScanStep, ScanGone, RenewStep, PutStep
<1>3. CASE SubmitResult(w) \/ UndoResult(w) \/ PollResult(w) \/ DropResult(w) \/ Catch(w)
  BY <1>3, SubmitsStep, UndoStep, PollResultStep, DropResultStep, CatchStep
<1> QED BY <1>1, <1>2, <1>3, SavesStep DEF Process

\* The invariant holds at first, and every step keeps it.
LEMMA InvariantStep ==
  ASSUME DocumentInv, [Next]_vars PROVE DocumentInv'
<1>1. CASE UNCHANGED vars
  <2>1. UNCHANGED <<row, linked, object, file, azure, leading, past, faults, pc, job>>
    BY <1>1 DEF vars
  <2>2. RowKept
    BY <2>1, Facts DEF RowKept, RowTyped, SameRefs, TypeOK, past
  <2> QED BY <2>1, <2>2, Facts, LeaseStep DEF FaultsFit, TypeOK
<1>2. ASSUME NEW w \in Users, Begin(w) PROVE DocumentInv'
  BY <1>2, ReadDocumentStep, RequestStep DEF Begin, Workers
<1>3. ASSUME NEW w \in Schedulers, SelectDue(w) \/ ExpireRetry(w) PROVE DocumentInv'
  BY <1>3, RequestStep, ExpireStep DEF Workers
<1>4. ASSUME NEW w \in Workers, Advance(w) PROVE DocumentInv'
  <2>1. CASE Process(w)
    BY <2>1, ProcessStep
  <2>2. CASE Cleanup(w)
    BY <2>2, ReadForCleanupStep, ClaimCleanupStep, CleanupResultStep, SaveCleanupStep
    DEF Cleanup
  <2>3. CASE Delete(w)
    BY <2>3, StartDeletionStep, ReadForCleanupStep, ClaimDeletionStep, DeleteCopyStep,
       SaveDeletionStep, FinishDeletionStep, ReleaseStep DEF Delete
  <2>4. CASE Tick(w)
    BY <2>4, ReleaseStep DEF Tick
  <2> QED BY <1>4, <2>1, <2>2, <2>3, <2>4 DEF Advance
<1>5. ASSUME NEW w \in Workers, Fail(w) PROVE DocumentInv'
  BY <1>5, ThrowStep, LoseAnswerStep, ThrowDeletionStep, CrashStep DEF Fail
<1>6. CASE Approve \/ ExpireLease
  BY <1>6, ApproveStep, ExpireStep
<1> QED BY <1>1, <1>2, <1>3, <1>4, <1>5, <1>6 DEF Next

\* The invariant holds throughout, for any number of requests and schedulers, of
\* retries and of faults, however claims, saves, expired leases, crashes and lost
\* answers of processDocument, the cleanup and the deletion interleave.
THEOREM DocumentInvariant == Spec => []DocumentInv
<1>1. Init => DocumentInv
  BY InitFits
<1>2. DocumentInv /\ [Next]_vars => DocumentInv'
  BY InvariantStep
<1> QED BY <1>1, <1>2, PTL DEF Spec

\* What the invariant says of the properties.
LEMMA Kept == ASSUME DocumentInv
              PROVE  ReleaseIsSound /\ NoSilentResubmission /\ NothingSurvivesDeletion
                     /\ EvidenceIsKept
<1>1. /\ TypeOK /\ RowFits /\ CopiesKnown /\ SubmissionsCounted
      /\ sent.scan \in Nat /\ sent.result \in Nat /\ retries \in Nat
      /\ scans \subseteq 1..MaxCopies /\ results \subseteq 1..MaxCopies
  BY Facts DEF TypeOK
<1>2. ReleasedAfterScan
  <2>1. Downloadable => verdict = "clean" /\ row.json.scan = 0
    BY <1>1 DEF Downloadable, RowFits, InProcess
  <2> QED BY <1>1, <2>1 DEF ReleasedAfterScan, CopiesKnown
<1>3. NoSilentResubmission
  <2>1. /\ Cardinality(At("submit_scan")) \in Nat /\ Cardinality(At("submit_result")) \in Nat
        /\ ScanDue \in {0, 1} /\ ResultDue \in {0, 1}
    BY <1>1, FS_CardinalityType DEF SubmissionsCounted, ScanDue, ResultDue
  <2> QED BY <1>1, <2>1 DEF NoSilentResubmission, SubmissionsCounted
<1>4. NothingSurvivesDeletion
  <2>1. row.status = "gone" => row.json.scan = 0 /\ row.json.op = 0 /\ ~object.exists
    BY <1>1 DEF RowFits
  <2> QED BY <1>1, <2>1 DEF NothingSurvivesDeletion, DeletionLeavesNothing,
          DeletionLeavesNoResult, CopiesKnown
<1>5. EvidenceIsKept
  BY <1>1 DEF EvidenceIsKept, RowFits, Present
<1> QED BY <1>1, <1>2, <1>3, <1>4, <1>5 DEF ReleaseIsSound

\* An original can be downloaded only once it was found clean and its scan copy is
\* gone, even when a worker that lost its lease goes on with what it had read.
THEOREM ReleaseSound == Spec => []ReleaseIsSound
BY DocumentInvariant, Kept, PTL

\* A file is sent to the scan, and to the extraction, at most once and once more for
\* each retry somebody asked for: no claim after an expired lease, a crash or a lost
\* answer submits it again by itself.
THEOREM NeverSentTwice == Spec => []NoSilentResubmission
BY DocumentInvariant, Kept, PTL

\* Once a deletion reports the document gone, the stored original and every scan copy
\* the document ever knew of are gone, and, as long as extractions are whole, every
\* extraction result too: also when a worker was still processing it.
THEOREM NothingLeft == Spec => []NothingSurvivesDeletion
BY DocumentInvariant, Kept, PTL

\* An approved document is linked as evidence only while it exists: no deletion takes
\* it from under the link, and no late save brings a deleted one back.
THEOREM EvidenceKept == Spec => []EvidenceIsKept
BY DocumentInvariant, Kept, PTL

===============================================================================
