---------------------------- MODULE ChunkDownload ----------------------------
(***************************************************************************)
(* The chunks of one release, from the servers to the assembled file: the  *)
(* first half of GameInstallationService::install, the download of the     *)
(* transfer crate and the verified copies of the file-integrity crate.     *)
(* What becomes of the assembled tree is the subject of Installation.      *)
(*                                                                         *)
(* A chunk has Size blocks; the cache file of a chunk is the sequence of   *)
(* the blocks that were written, each the number of a block of the chunk,  *)
(* or Wrong.  The hash of a file is what was hashed, so a file is right    *)
(* when its blocks are 1..Size in order.  Requests run beside each other;  *)
(* an answer may be an error, the whole chunk instead of a range, the      *)
(* wrong range, too short, too long or corrupt, the connection may break   *)
(* at each block, the user may cancel, and the launcher may be killed, in  *)
(* which case what was not synced may be torn.                             *)
(*                                                                         *)
(* Left out: the speed limit, the pause (it only delays; Launcher has it), *)
(* links in the cache, the free space, the order of the requests.          *)
(***************************************************************************)
EXTENDS Naturals, Sequences, FiniteSets

CONSTANTS
    Chunks,       \* the chunks of the release, each once (uniqueChunks)
    Size,         \* blocks of a chunk
    MaxAttempts,  \* tries of a chunk in one download: 3 in the code
    Active,       \* those that the active release still has intact
    Parallel,     \* chunks fetched beside each other: 3 in the code
    MaxFaults     \* bound on the faults of the servers, the disk and the user

ASSUME ActiveAssumption == Active \subseteq Chunks
ASSUME SizesAssumption ==
    Size \in Nat \ {0} /\ MaxAttempts \in Nat \ {0} /\ Parallel \in Nat \ {0} /\ MaxFaults \in Nat

Wrong == 0
Content == Seq(0..Size)
Right == [i \in 1..Size |-> i]

VARIABLES
    file,    \* .launcher/cache/sha256/<digest>; << >> also if there is none
    synced,  \* the cache files that reached the disk
    op,      \* what install does next
    tasks,   \* the fetch of each chunk
    staged,  \* the chunks of the assembled file, << >> before it is there
    faults   \* the faults so far

vars == <<file, synced, op, tasks, staged, faults>>

Running == {"open", "asked", "body"}
Steps == Running \cup {"cached", "wait", "again", "done"}

\* sent is the block the server sends next, hashed what went through the hasher.
Waiting == [pc |-> "wait", attempt |-> 0, sent |-> 1, hashed |-> << >>]

Init ==
    /\ file = [c \in Chunks |-> << >>] /\ synced = {}
    /\ op = "idle" /\ tasks = [c \in Chunks |-> Waiting] /\ staged = << >> /\ faults = 0

Faulty == faults < MaxFaults /\ faults' = faults + 1

-----------------------------------------------------------------------------
(* install, before and after the download. *)

Install ==
    /\ op = "idle" /\ staged = << >>
    /\ op' = "reuse"
    /\ UNCHANGED <<file, synced, tasks, staged, faults>>

\* Mutant: the size of a cache file is enough.
VerifiedBySize(c) == Len(file[c]) = Size

\* verify_file: size and hash of a cache file.
Verified(c) == file[c] = Right

\* Chunks of the active release that the cache lacks are copied, each by an atomic and synced
\* replacement; a copy that fails is left to the download.
Reuse ==
    /\ op = "reuse" /\ op' = "verify"
    /\ \E copied \in SUBSET {c \in Active : ~Verified(c)} :
        /\ file' = [c \in Chunks |-> IF c \in copied THEN Right ELSE file[c]]
        /\ synced' = synced \cup copied
    /\ UNCHANGED <<tasks, staged, faults>>

\* What the cache has is not fetched again.
Verify ==
    /\ op = "verify" /\ op' = "download"
    /\ tasks' = [c \in Chunks |-> [Waiting EXCEPT !.pc = IF Verified(c) THEN "cached" ELSE "wait"]]
    /\ UNCHANGED <<file, synced, staged, faults>>

\* download returns: every chunk was fetched.
Fetched ==
    /\ op = "download" /\ \A c \in Chunks : tasks[c].pc \in {"cached", "done"}
    /\ op' = "assemble"
    /\ UNCHANGED <<file, synced, tasks, staged, faults>>

\* assemble: a hash of each chunk and one of the whole; only then the output is renamed.
Assemble ==
    /\ op = "assemble" /\ op' = "idle"
    /\ staged' = IF \A c \in Chunks : Verified(c) THEN file ELSE << >>
    /\ UNCHANGED <<file, synced, tasks, faults>>

\* The operation ends with an error; other fetches are dropped where they are.
Ends == op' = "idle" /\ tasks' = [c \in Chunks |-> Waiting]

\* A cancellation, between any two steps.
Cancel ==
    /\ op # "idle" /\ Faulty /\ Ends
    /\ UNCHANGED <<file, synced, staged>>

\* What a crash may leave of a file whose last blocks were not synced.
Torn(f) == {[i \in 1..l |-> IF i > n THEN Wrong ELSE f[i]] : l \in 0..Len(f), n \in 0..Len(f)}

\* The launcher, or the machine, is stopped.
Kill ==
    /\ op # "idle" /\ Faulty /\ Ends
    /\ file' \in [Chunks -> UNION {Torn(file[c]) : c \in Chunks}]
    /\ \A c \in Chunks : file'[c] \in IF c \in synced THEN {file[c]} ELSE Torn(file[c])
    /\ UNCHANGED <<synced, staged>>

-----------------------------------------------------------------------------
(* The fetch of one chunk. *)

Task(c, task) == tasks' = [tasks EXCEPT ![c] = task]
File(c, f) == file' = [file EXCEPT ![c] = f]

\* One of the places of buffer_unordered is free.
Start(c) ==
    /\ op = "download" /\ tasks[c].pc = "wait"
    /\ Cardinality({d \in Chunks : tasks[d].pc \in Running \cup {"again"}}) < Parallel
    /\ Task(c, [tasks[c] EXCEPT !.pc = "open"])
    /\ UNCHANGED <<file, synced, op, staged, faults>>

\* Mutant: a file that has its size is kept.
KeptAsIs(f) == f

\* What attempt keeps of the file it finds.
Kept(f) == IF Len(f) >= Size THEN << >> ELSE f

\* attempt: the file is opened and hashed, and its rest is asked for.
Ask(c) ==
    /\ op = "download" /\ tasks[c].pc = "open"
    /\ File(c, Kept(file[c]))
    /\ Task(c, [tasks[c] EXCEPT !.pc = "asked", !.hashed = Kept(file[c])])
    /\ synced' = synced \ {c}
    /\ UNCHANGED <<op, staged, faults>>

\* 206 with the range that was asked for.
Partial(c) ==
    /\ op = "download" /\ tasks[c].pc = "asked" /\ Len(file[c]) \in 1..Size - 1
    /\ Task(c, [tasks[c] EXCEPT !.pc = "body", !.sent = Len(file[c]) + 1])
    /\ UNCHANGED <<file, synced, op, staged, faults>>

\* Mutant: the file is emptied but the writer stays where it was.
RestartedAfterHole(f) == [i \in 1..Len(f) |-> Wrong]

\* What a whole answer leaves of a file that was resumed.
Restarted(f) == << >>

\* 200: the whole chunk, whatever was asked for.
Whole(c) ==
    /\ op = "download" /\ tasks[c].pc = "asked" /\ Len(file[c]) < Size
    /\ File(c, Restarted(file[c]))
    /\ Task(c, [tasks[c] EXCEPT !.pc = "body", !.sent = 1, !.hashed = << >>])
    /\ UNCHANGED <<synced, op, staged, faults>>

\* A block arrives, is written and hashed.
Block(c) ==
    /\ op = "download" /\ tasks[c].pc = "body" /\ tasks[c].sent <= Size
    /\ \E b \in {tasks[c].sent, Wrong} :
        /\ IF b = Wrong THEN Faulty ELSE faults' = faults
        /\ File(c, Append(file[c], b))
        /\ Task(c, [tasks[c] EXCEPT !.sent = @ + 1, !.hashed = Append(@, b)])
    /\ UNCHANGED <<synced, op, staged>>

\* Another try, or the end of the operation.
Retry(c) ==
    IF tasks[c].attempt + 1 < MaxAttempts
    THEN op' = op /\ Task(c, [tasks[c] EXCEPT !.pc = "again", !.attempt = @ + 1])
    ELSE Ends

\* The body is over: a chunk with its size and hash is synced, another is thrown away.
Complete(c) ==
    /\ op = "download" /\ tasks[c].pc = "body"
    /\ IF tasks[c].sent > Size THEN faults' = faults ELSE Faulty
    /\ IF tasks[c].hashed = Right
       THEN /\ Task(c, [tasks[c] EXCEPT !.pc = "done"]) /\ synced' = synced \cup {c}
            /\ UNCHANGED <<file, op>>
       ELSE File(c, << >>) /\ Retry(c) /\ synced' = synced
    /\ UNCHANGED <<staged>>

\* No answer, an error that may go away, or a connection that breaks.
Breaks(c) ==
    /\ op = "download" /\ tasks[c].pc \in {"asked", "body"} /\ Faulty
    /\ Retry(c)
    /\ UNCHANGED <<file, synced, staged>>

\* The delay before another try is over.
Again(c) ==
    /\ op = "download" /\ tasks[c].pc = "again"
    /\ Task(c, [tasks[c] EXCEPT !.pc = "open"])
    /\ UNCHANGED <<file, synced, op, staged, faults>>

\* An error that stays, a wrong range, an encoded body, or a failure of the disk.
Refused(c) ==
    /\ op = "download" /\ tasks[c].pc \in Running /\ Faulty /\ Ends
    /\ UNCHANGED <<file, synced, staged>>

\* An answer, or a body, longer than what is left of the chunk.
TooLong(c) ==
    /\ op = "download" /\ tasks[c].pc = "body" /\ Faulty /\ Ends
    /\ File(c, << >>)
    /\ UNCHANGED <<synced, staged>>

-----------------------------------------------------------------------------

FetchStep(c) == Start(c) \/ Ask(c) \/ Partial(c) \/ Whole(c) \/ Block(c) \/ Complete(c) \/ Again(c)

InstallStep == Install \/ Reuse \/ Verify \/ Fetched \/ Assemble

Next ==
    \/ InstallStep \/ Cancel \/ Kill
    \/ \E c \in Chunks : FetchStep(c) \/ Breaks(c) \/ Refused(c) \/ TooLong(c)

Spec == Init /\ [][Next]_vars

\* The user installs again after an error, and the requests of a download go on.
FairSpec == Spec /\ WF_vars(InstallStep) /\ \A c \in Chunks : WF_vars(FetchStep(c))

-----------------------------------------------------------------------------
(* Properties. *)

\* Types; no cache file is longer than its chunk.
TypeOK ==
    /\ file \in [Chunks -> Content] /\ \A c \in Chunks : Len(file[c]) <= Size
    /\ synced \subseteq Chunks
    /\ op \in {"idle", "reuse", "verify", "download", "assemble"}
    /\ tasks \in [Chunks -> [pc : Steps, attempt : 0..MaxAttempts - 1, sent : 1..Size + 1,
                             hashed : Content]]
    /\ staged = << >> \/ staged \in [Chunks -> Content]
    /\ faults \in 0..MaxFaults

\* A chunk that counts as fetched has its content on the disk: what was hashed on the way is
\* what the file holds, however often the fetch was resumed, restarted or killed.
FetchedIsRight == \A c \in Chunks : tasks[c].pc \in {"cached", "done"} => file[c] = Right

\* Once the faults are over, installing again completes, whatever an earlier try left in the
\* cache: no file there makes every later request fail.
Completes == <>(staged # << >>)
=============================================================================
