------------------------ MODULE ChunkDownloadProofs ------------------------
(***************************************************************************)
(* Proofs about ChunkDownload, for any chunks, size and bounds.            *)
(*                                                                         *)
(* What a fetch has hashed must be what the file holds: that is the        *)
(* inductive invariant Agrees.  A fetch that finds a partial file hashes   *)
(* it before it asks for the rest, one that is answered with the whole     *)
(* chunk drops both, and every other step that touches the file ends the   *)
(* fetch, so the two can be compared at the end by the hash alone.         *)
(***************************************************************************)
EXTENDS ChunkDownload, SequenceTheorems, TLAPS

\* What the hasher has seen is in the file, and the writer is where the server sends from.
Agrees(c) ==
    /\ tasks[c].pc \in {"asked", "body"} => tasks[c].hashed = file[c]
    /\ tasks[c].pc = "asked" => Len(file[c]) < Size
    /\ tasks[c].pc = "body" => Len(file[c]) = tasks[c].sent - 1

\* A fetched chunk is complete.
FetchedOK(c) == tasks[c].pc \in {"cached", "done"} => file[c] = Right

\* Nothing is fetched outside the download.
Quiet(c) == op # "download" => tasks[c].pc \in {"wait", "cached", "done"}

IInv == TypeOK /\ \A c \in Chunks : Agrees(c) /\ FetchedOK(c) /\ Quiet(c)

TaskType == [pc : Steps, attempt : 0..MaxAttempts - 1, sent : 1..Size + 1, hashed : Content]

-----------------------------------------------------------------------------
(* The values of the cache. *)

LEMMA RightIsContent == Right \in Content /\ Len(Right) = Size
  BY SizesAssumption DEF Right, Content

LEMMA EmptyIsContent == << >> \in Content /\ Len(<< >>) = 0
  BY DEF Content

LEMMA WaitingIsTask == Waiting \in TaskType
  BY SizesAssumption, EmptyIsContent DEF Waiting, TaskType, Steps, Running

\* A torn file is no longer than the file.
LEMMA TornIsContent ==
  ASSUME NEW f \in Content, NEW g \in Torn(f)
  PROVE  g \in Content /\ Len(g) <= Len(f)
<1>1. PICK l \in 0..Len(f), n \in 0..Len(f) :
        g = [i \in 1..l |-> IF i > n THEN Wrong ELSE f[i]]
  BY DEF Torn
<1>2. Len(f) \in Nat
  BY DEF Content
<1>3. l \in Nat
  BY <1>2
<1>4. \A i \in 1..l : (IF i > n THEN Wrong ELSE f[i]) \in 0..Size
  BY <1>2, SizesAssumption DEF Content, Wrong
<1>5. g \in [1..l -> 0..Size]
  BY <1>1, <1>4
<1>6. g \in Seq(0..Size)
  BY <1>5, <1>3, SeqDef
<1>7. Len(g) = l
  BY <1>1, <1>3, <1>6
<1> QED
  BY <1>2, <1>3, <1>6, <1>7 DEF Content

-----------------------------------------------------------------------------
(* Steps that leave the fetches where they are, or drop them all. *)

\* A step that ends the operation, and leaves files of at most the size, keeps the invariant.
LEMMA EndKeeps ==
  ASSUME IInv, Ends,
         file' \in [Chunks -> Content], \A c \in Chunks : Len(file'[c]) <= Size,
         synced' \subseteq Chunks, staged' = staged, faults' \in 0..MaxFaults
  PROVE  IInv'
<1>1. tasks' \in [Chunks -> TaskType] /\ \A c \in Chunks : tasks'[c] = Waiting
  BY WaitingIsTask DEF Ends
<1>2. TypeOK'
  BY <1>1 DEF IInv, TypeOK, TaskType, Ends
<1>3. \A c \in Chunks : tasks'[c].pc = "wait"
  BY <1>1 DEF Waiting
<1> QED
  BY <1>2, <1>3 DEF IInv, Agrees, FetchedOK, Quiet

\* A step of one fetch that changes at most its own file keeps the invariant if it keeps it for
\* that fetch.
LEMMA FetchKeeps ==
  ASSUME IInv, NEW c \in Chunks, NEW t \in TaskType, NEW f \in Content, Len(f) <= Size,
         tasks' = [tasks EXCEPT ![c] = t], file' = [file EXCEPT ![c] = f],
         t.pc \in {"asked", "body"} => t.hashed = f,
         t.pc = "asked" => Len(f) < Size,
         t.pc = "body" => Len(f) = t.sent - 1,
         t.pc \in {"cached", "done"} => f = Right,
         op = "download", op' = op, synced' \subseteq Chunks, staged' = staged,
         faults' \in 0..MaxFaults
  PROVE  IInv'
<1>1. TypeOK'
  BY DEF IInv, TypeOK, TaskType
<1>2. ASSUME NEW d \in Chunks
      PROVE  Agrees(d)' /\ FetchedOK(d)' /\ Quiet(d)'
  <2>1. CASE d = c
    BY <2>1 DEF IInv, TypeOK, Agrees, FetchedOK, Quiet
  <2>2. CASE d # c
    BY <2>2 DEF IInv, TypeOK, Agrees, FetchedOK, Quiet
  <2> QED
    BY <2>1, <2>2
<1> QED
  BY <1>1, <1>2 DEF IInv

\* What a fetch and its file are before a step.
LEMMA Before ==
  ASSUME IInv, NEW c \in Chunks
  PROVE  /\ tasks[c] \in TaskType /\ file[c] \in Content /\ Len(file[c]) <= Size
         /\ file = [file EXCEPT ![c] = file[c]]
         /\ synced \subseteq Chunks /\ faults \in 0..MaxFaults
         /\ Len(file[c]) \in Nat
  BY DEF IInv, TypeOK, TaskType, Content

\* A fault is counted up to the bound.
LEMMA FaultyCounts ==
  ASSUME IInv, Faulty
  PROVE  faults' \in 0..MaxFaults
  BY SizesAssumption DEF IInv, TypeOK, Faulty

\* A try that failed: the next one, or the end.
LEMMA RetryKeeps ==
  ASSUME IInv, NEW c \in Chunks, op = "download", Retry(c), NEW f \in Content, Len(f) <= Size,
         file' = [file EXCEPT ![c] = f], synced' = synced, staged' = staged,
         faults' \in 0..MaxFaults
  PROVE  IInv'
<1>1. CASE tasks[c].attempt + 1 < MaxAttempts
  <2> DEFINE t == [tasks[c] EXCEPT !.pc = "again", !.attempt = @ + 1]
  <2>1. op' = op /\ tasks' = [tasks EXCEPT ![c] = t]
    BY <1>1 DEF Retry, Task
  <2>2. tasks[c] \in TaskType /\ tasks[c].attempt \in Nat
    BY Before DEF TaskType
  <2>3. tasks[c].attempt + 1 \in 0..MaxAttempts - 1
    BY <1>1, <2>2, SizesAssumption
  <2>4. t \in TaskType /\ t.pc = "again"
    <3>1. "again" \in Steps
      BY DEF Steps
    <3>2. [tasks[c] EXCEPT !.pc = "again", !.attempt = tasks[c].attempt + 1] \in TaskType
      BY <2>2, <2>3, <3>1 DEF TaskType
    <3> QED
      BY <2>2, <3>2 DEF TaskType
  <2> HIDE DEF t
  <2> QED
    BY <2>1, <2>4, FetchKeeps, Before
<1>2. CASE ~(tasks[c].attempt + 1 < MaxAttempts)
  <2>1. Ends
    BY <1>2 DEF Retry
  <2>2. file' \in [Chunks -> Content] /\ \A d \in Chunks : Len(file'[d]) <= Size
    BY DEF IInv, TypeOK
  <2> QED
    BY <2>1, <2>2, EndKeeps, Before
<1> QED
  BY <1>1, <1>2

-----------------------------------------------------------------------------
(* The steps of install, its cancellation and a kill. *)

LEMMA InstallStepKeeps ==
  ASSUME IInv, InstallStep
  PROVE  IInv'
<1>1. CASE Install
  BY <1>1 DEF Install, IInv, TypeOK, Agrees, FetchedOK, Quiet
<1>2. CASE Reuse
  <2>0. PICK copied \in SUBSET {c \in Active : ~Verified(c)} :
            /\ file' = [c \in Chunks |-> IF c \in copied THEN Right ELSE file[c]]
            /\ synced' = synced \cup copied
    BY <1>2 DEF Reuse
  <2>1. \A c \in Chunks : file'[c] = IF c \in copied THEN Right ELSE file[c]
    BY <2>0
  <2>2. file' \in [Chunks -> Content] /\ \A c \in Chunks : Len(file'[c]) <= Size
    BY <2>0, RightIsContent, SizesAssumption DEF IInv, TypeOK
  <2>3. TypeOK'
    BY <1>2, <2>0, <2>2, ActiveAssumption DEF Reuse, IInv, TypeOK
  <2>4. \A c \in Chunks : tasks'[c].pc \in {"wait", "cached", "done"} /\ tasks' = tasks
    BY <1>2 DEF Reuse, IInv, Quiet
  <2> QED
    BY <2>1, <2>3, <2>4 DEF IInv, Agrees, FetchedOK, Quiet
<1>3. CASE Verify
  <2>1. ASSUME NEW c \in Chunks
        PROVE  tasks'[c] \in TaskType /\ Agrees(c)' /\ FetchedOK(c)' /\ Quiet(c)'
    <3>1. tasks'[c] = [Waiting EXCEPT !.pc = IF Verified(c) THEN "cached" ELSE "wait"]
      BY <1>3 DEF Verify
    <3>2. file'[c] = file[c]
      BY <1>3 DEF Verify
    <3>3. tasks'[c] \in TaskType
      BY <3>1, WaitingIsTask DEF TaskType, Steps, Running, Waiting
    <3> QED
      BY <3>1, <3>2, <3>3 DEF Waiting, Verified, Agrees, FetchedOK, Quiet
  <2>2. tasks' \in [Chunks -> TaskType]
    BY <1>3, <2>1 DEF Verify
  <2>3. TypeOK'
    BY <1>3, <2>2 DEF Verify, IInv, TypeOK, TaskType
  <2> QED
    BY <2>1, <2>3 DEF IInv
<1>4. CASE Fetched
  BY <1>4 DEF Fetched, IInv, TypeOK, Agrees, FetchedOK, Quiet
<1>5. CASE Assemble
  BY <1>5 DEF Assemble, IInv, TypeOK, Agrees, FetchedOK, Quiet
<1> QED
  BY <1>1, <1>2, <1>3, <1>4, <1>5 DEF InstallStep

LEMMA CancelKeeps ==
  ASSUME IInv, Cancel
  PROVE  IInv'
<1>1. file' \in [Chunks -> Content] /\ \A c \in Chunks : Len(file'[c]) <= Size
  BY DEF Cancel, IInv, TypeOK
<1>2. synced' \subseteq Chunks /\ staged' = staged /\ Ends /\ Faulty
  BY DEF Cancel, IInv, TypeOK
<1> QED
  BY <1>1, <1>2, FaultyCounts, EndKeeps

LEMMA KillKeeps ==
  ASSUME IInv, Kill
  PROVE  IInv'
<1>1. ASSUME NEW c \in Chunks
      PROVE  file'[c] \in Content /\ Len(file'[c]) <= Size
  <2>1. file[c] \in Content /\ Len(file[c]) <= Size /\ Len(file[c]) \in Nat
    BY Before
  <2>2. file'[c] = file[c] \/ file'[c] \in Torn(file[c])
    BY DEF Kill
  <2>3. ASSUME file'[c] \in Torn(file[c])
        PROVE  file'[c] \in Content /\ Len(file'[c]) <= Len(file[c]) /\ Len(file'[c]) \in Nat
    BY <2>1, <2>3, TornIsContent DEF Content
  <2> QED
    BY <2>1, <2>2, <2>3, SizesAssumption
<1>2. file' \in [Chunks -> Content]
  BY <1>1 DEF Kill
<1>3. synced' \subseteq Chunks /\ staged' = staged /\ Ends /\ Faulty
  BY DEF Kill, IInv, TypeOK
<1> QED
  BY <1>1, <1>2, <1>3, FaultyCounts, EndKeeps

-----------------------------------------------------------------------------
(* The steps of one fetch. *)

LEMMA StartKeeps ==
  ASSUME IInv, NEW c \in Chunks, Start(c)
  PROVE  IInv'
<1> DEFINE t == [tasks[c] EXCEPT !.pc = "open"]
<1>1. tasks' = [tasks EXCEPT ![c] = t] /\ file' = [file EXCEPT ![c] = file[c]] /\ op = "download"
  BY Before DEF Start, Task
<1>2. t \in TaskType /\ t.pc = "open"
  BY Before DEF TaskType, Steps, Running
<1>3. /\ op' = op /\ synced' \subseteq Chunks /\ staged' = staged
      /\ faults' \in 0..MaxFaults
  BY Before DEF Start
<1> HIDE DEF t
<1> QED
  BY <1>1, <1>2, <1>3, FetchKeeps, Before

LEMMA AgainKeeps ==
  ASSUME IInv, NEW c \in Chunks, Again(c)
  PROVE  IInv'
<1> DEFINE t == [tasks[c] EXCEPT !.pc = "open"]
<1>1. tasks' = [tasks EXCEPT ![c] = t] /\ file' = [file EXCEPT ![c] = file[c]] /\ op = "download"
  BY Before DEF Again, Task
<1>2. t \in TaskType /\ t.pc = "open"
  BY Before DEF TaskType, Steps, Running
<1>3. /\ op' = op /\ synced' \subseteq Chunks /\ staged' = staged
      /\ faults' \in 0..MaxFaults
  BY Before DEF Again
<1> HIDE DEF t
<1> QED
  BY <1>1, <1>2, <1>3, FetchKeeps, Before

\* A file that is asked to be completed is shorter than its chunk, and was hashed.
LEMMA AskKeeps ==
  ASSUME IInv, NEW c \in Chunks, Ask(c)
  PROVE  IInv'
<1> DEFINE f == Kept(file[c])
           t == [tasks[c] EXCEPT !.pc = "asked", !.hashed = f]
<1>1. tasks' = [tasks EXCEPT ![c] = t] /\ file' = [file EXCEPT ![c] = f] /\ op = "download"
  BY DEF Ask, Task, File
<1>2. f \in Content /\ Len(f) < Size /\ Len(f) <= Size
  BY Before, EmptyIsContent, SizesAssumption DEF Kept
<1>3. t \in TaskType /\ t.pc = "asked" /\ t.hashed = f
  BY <1>2, Before DEF TaskType, Steps, Running
<1>4. /\ op' = op /\ synced' \subseteq Chunks /\ staged' = staged
      /\ faults' \in 0..MaxFaults
  BY Before DEF Ask
<1> HIDE DEF f, t
<1> QED
  BY <1>1, <1>2, <1>3, <1>4, FetchKeeps

LEMMA PartialKeeps ==
  ASSUME IInv, NEW c \in Chunks, Partial(c)
  PROVE  IInv'
<1> DEFINE t == [tasks[c] EXCEPT !.pc = "body", !.sent = Len(file[c]) + 1]
<1>1. tasks' = [tasks EXCEPT ![c] = t] /\ file' = [file EXCEPT ![c] = file[c]] /\ op = "download"
  BY Before DEF Partial, Task
<1>2. Len(file[c]) + 1 \in 1..Size + 1
  BY SizesAssumption DEF Partial
<1>3. t \in TaskType /\ t.pc = "body" /\ t.sent = Len(file[c]) + 1 /\ t.hashed = tasks[c].hashed
  BY <1>2, Before DEF TaskType, Steps, Running
<1>4. tasks[c].hashed = file[c]
  BY DEF Partial, IInv, Agrees
<1>5. /\ op' = op /\ synced' \subseteq Chunks /\ staged' = staged
      /\ faults' \in 0..MaxFaults
  BY Before DEF Partial
<1>6. Len(file[c]) = t.sent - 1
  BY <1>3, Before
<1> HIDE DEF t
<1> QED
  BY <1>1, <1>3, <1>4, <1>5, <1>6, FetchKeeps, Before

LEMMA WholeKeeps ==
  ASSUME IInv, NEW c \in Chunks, Whole(c)
  PROVE  IInv'
<1> DEFINE f == Restarted(file[c])
           t == [tasks[c] EXCEPT !.pc = "body", !.sent = 1, !.hashed = << >>]
<1>1. tasks' = [tasks EXCEPT ![c] = t] /\ file' = [file EXCEPT ![c] = f] /\ op = "download"
  BY DEF Whole, Task, File
<1>2. f = << >> /\ f \in Content /\ Len(f) = 0 /\ Len(f) <= Size
  BY EmptyIsContent, SizesAssumption DEF Restarted
<1>3. t \in TaskType /\ t.pc = "body" /\ t.sent = 1 /\ t.hashed = << >>
  <2>1. "body" \in Steps /\ 1 \in 1..Size + 1 /\ tasks[c] \in TaskType
    BY SizesAssumption, Before DEF Steps, Running
  <2>2. t \in TaskType
    BY <2>1, EmptyIsContent DEF TaskType
  <2> QED
    BY <2>1, <2>2 DEF TaskType
<1>4. /\ op' = op /\ synced' \subseteq Chunks /\ staged' = staged
      /\ faults' \in 0..MaxFaults
  BY Before DEF Whole
<1>5. t.hashed = f /\ Len(f) = t.sent - 1
  BY <1>2, <1>3
<1> HIDE DEF f, t
<1> QED
  BY <1>1, <1>2, <1>3, <1>4, <1>5, FetchKeeps

\* Both grow by the same block.
LEMMA BlockKeeps ==
  ASSUME IInv, NEW c \in Chunks, Block(c)
  PROVE  IInv'
<1>1. PICK b \in {tasks[c].sent, Wrong} :
        /\ IF b = Wrong THEN Faulty ELSE faults' = faults
        /\ File(c, Append(file[c], b))
        /\ Task(c, [tasks[c] EXCEPT !.sent = @ + 1, !.hashed = Append(@, b)])
  BY DEF Block
<1> DEFINE f == Append(file[c], b)
           t == [tasks[c] EXCEPT !.sent = @ + 1, !.hashed = Append(@, b)]
<1>2. tasks' = [tasks EXCEPT ![c] = t] /\ file' = [file EXCEPT ![c] = f] /\ op = "download"
  BY <1>1 DEF Block, Task, File
<1>3. /\ tasks[c].pc = "body" /\ tasks[c].sent \in 1..Size /\ tasks[c].hashed = file[c]
      /\ Len(file[c]) = tasks[c].sent - 1
  BY Before, SizesAssumption DEF Block, IInv, Agrees, TaskType
<1>4. b \in 0..Size
  BY <1>3, SizesAssumption DEF Wrong
<1>5. f \in Content /\ Len(f) = Len(file[c]) + 1
  BY <1>4, Before DEF Content
<1>6. Len(f) = tasks[c].sent /\ Len(f) <= Size
  BY <1>3, <1>5
<1>7. t.pc = "body" /\ t.sent = tasks[c].sent + 1 /\ t.hashed = f
  BY <1>3, Before DEF TaskType
<1>8. t \in TaskType
  <2>1. tasks[c].sent + 1 \in 1..Size + 1 /\ tasks[c] \in TaskType
    BY <1>3, Before, SizesAssumption
  <2>2. [tasks[c] EXCEPT !.sent = tasks[c].sent + 1, !.hashed = f] \in TaskType
    BY <2>1, <1>5 DEF TaskType
  <2>3. Append(tasks[c].hashed, b) = f
    BY <1>3
  <2> QED
    BY <2>2, <2>3
<1>9. Len(f) = t.sent - 1
  BY <1>3, <1>6, <1>7
<1>10. faults' \in 0..MaxFaults
  BY <1>1, FaultyCounts, Before
<1>11. op' = op /\ synced' \subseteq Chunks /\ staged' = staged
  BY Before DEF Block
<1> HIDE DEF f, t
<1> QED
  BY <1>2, <1>5, <1>6, <1>7, <1>8, <1>9, <1>10, <1>11, FetchKeeps

\* The hash that is compared is the hash of the file.
LEMMA CompleteKeeps ==
  ASSUME IInv, NEW c \in Chunks, Complete(c)
  PROVE  IInv'
<1>1. tasks[c].pc = "body" /\ tasks[c].hashed = file[c] /\ op = "download"
  BY DEF Complete, IInv, Agrees
<1>2. faults' \in 0..MaxFaults /\ staged' = staged
  BY FaultyCounts, Before DEF Complete
<1>3. CASE tasks[c].hashed = Right
  <2> DEFINE t == [tasks[c] EXCEPT !.pc = "done"]
  <2>1. tasks' = [tasks EXCEPT ![c] = t] /\ file' = [file EXCEPT ![c] = file[c]]
    BY <1>3, Before DEF Complete, Task
  <2>2. t \in TaskType /\ t.pc = "done"
    BY Before DEF TaskType, Steps, Running
  <2>3. op' = op /\ synced' \subseteq Chunks
    BY <1>3, Before DEF Complete
  <2>4. file[c] = Right
    BY <1>1, <1>3
  <2> HIDE DEF t
  <2> QED
    BY <1>1, <1>2, <2>1, <2>2, <2>3, <2>4, FetchKeeps, Before
<1>4. CASE tasks[c].hashed # Right
  <2>1. file' = [file EXCEPT ![c] = << >>] /\ Retry(c) /\ synced' = synced
    BY <1>4 DEF Complete, File
  <2>2. << >> \in Content /\ Len(<< >>) <= Size
    BY EmptyIsContent, SizesAssumption
  <2> QED
    BY <1>1, <1>2, <2>1, <2>2, RetryKeeps
<1> QED
  BY <1>3, <1>4

LEMMA BreaksKeeps ==
  ASSUME IInv, NEW c \in Chunks, Breaks(c)
  PROVE  IInv'
<1>1. /\ op = "download" /\ Retry(c) /\ synced' = synced /\ staged' = staged
      /\ Faulty /\ file' = [file EXCEPT ![c] = file[c]]
  BY Before DEF Breaks
<1> QED
  BY <1>1, FaultyCounts, Before, RetryKeeps

LEMMA RefusedKeeps ==
  ASSUME IInv, NEW c \in Chunks, Refused(c)
  PROVE  IInv'
<1>1. file' \in [Chunks -> Content] /\ \A d \in Chunks : Len(file'[d]) <= Size
  BY DEF Refused, IInv, TypeOK
<1>2. synced' \subseteq Chunks /\ staged' = staged /\ Ends /\ Faulty
  BY DEF Refused, IInv, TypeOK
<1> QED
  BY <1>1, <1>2, FaultyCounts, EndKeeps

LEMMA TooLongKeeps ==
  ASSUME IInv, NEW c \in Chunks, TooLong(c)
  PROVE  IInv'
<1>1. file' \in [Chunks -> Content] /\ \A d \in Chunks : Len(file'[d]) <= Size
  BY EmptyIsContent, SizesAssumption DEF TooLong, File, IInv, TypeOK
<1>2. synced' \subseteq Chunks /\ staged' = staged /\ Ends /\ Faulty
  BY DEF TooLong, IInv, TypeOK
<1> QED
  BY <1>1, <1>2, FaultyCounts, EndKeeps

-----------------------------------------------------------------------------

LEMMA InitHolds == Init => IInv
<1> SUFFICES ASSUME Init PROVE IInv
  OBVIOUS
<1>1. TypeOK
  BY EmptyIsContent, WaitingIsTask, SizesAssumption DEF Init, TypeOK, TaskType
<1>2. \A c \in Chunks : tasks[c].pc = "wait"
  BY DEF Init, Waiting
<1> QED
  BY <1>1, <1>2 DEF IInv, Agrees, FetchedOK, Quiet

LEMMA NextKeeps == IInv /\ [Next]_vars => IInv'
<1> SUFFICES ASSUME IInv, [Next]_vars PROVE IInv'
  OBVIOUS
<1>1. CASE UNCHANGED vars
  BY <1>1 DEF vars, IInv, TypeOK, Agrees, FetchedOK, Quiet
<1>2. ASSUME NEW c \in Chunks, FetchStep(c)
      PROVE  IInv'
  BY <1>2, StartKeeps, AskKeeps, PartialKeeps, WholeKeeps, BlockKeeps, CompleteKeeps, AgainKeeps
     DEF FetchStep
<1>3. ASSUME NEW c \in Chunks, Breaks(c) \/ Refused(c) \/ TooLong(c)
      PROVE  IInv'
  BY <1>3, BreaksKeeps, RefusedKeeps, TooLongKeeps
<1> QED
  BY <1>1, <1>2, <1>3, InstallStepKeeps, CancelKeeps, KillKeeps DEF Next

LEMMA Invariant == Spec => []IInv
  BY InitHolds, NextKeeps, PTL DEF Spec

\* Every reachable state has its type; no cache file outgrows its chunk (the bounds of download.rs
\* on what an answer may add to a file that was resumed or restarted).
THEOREM TypeCorrect == Spec => []TypeOK
<1>1. IInv => TypeOK
  BY DEF IInv
<1> QED
  BY <1>1, Invariant, PTL

\* A chunk that counts as fetched is complete on the disk, for any chunks, size, number of tries
\* and faults: comparing the hash of what passed by is as good as hashing the file (attempt).
THEOREM FetchedAreRight == Spec => []FetchedIsRight
<1>1. IInv => FetchedIsRight
  BY DEF IInv, FetchedOK, FetchedIsRight
<1> QED
  BY <1>1, Invariant, PTL
=============================================================================
