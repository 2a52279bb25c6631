----------------------------- MODULE ProcessLog -----------------------------
(***************************************************************************)
(* The rotating log of a captured process stream (okx-host-launcher,       *)
(* logging.rs and stdio_capture.rs).  A thread drains the pipe line by     *)
(* line into a file of bounded size; a full file is shifted through        *)
(* numbered archives.  Every file operation may fail and the process may   *)
(* be killed between any two; draining goes on whatever the sink does.     *)
(*                                                                         *)
(* A line is its number, its length with the newline, what record() makes  *)
(* of it and whether only a part of it was written; a file is the sequence *)
(* of the lines in it.                                                     *)
(***************************************************************************)
EXTENDS Integers, Sequences, FiniteSets, FiniteSetsExt, SequencesExt

CONSTANTS
    LOG_FILES,      \* files of a stream, the base included
    Limit,          \* LOG_MAX_BYTES, in units of length
    Lengths,        \* lengths of the lines the process writes
    PipeCapacity,   \* lines the pipe holds before the process blocks
    MaxLines,       \* lines written
    Faults,         \* the faults of an instance: "rename", "open", "write", "torn write", "kill"
    MaxFaults

ProcessLogAssumption ==
    /\ LOG_FILES \in Nat \ {0, 1} /\ Limit \in Nat \ {0}
    /\ Lengths \subseteq 1 .. Limit
    /\ {PipeCapacity, MaxLines, MaxFaults} \subseteq Nat

VARIABLES
    pipe,       \* lines written by the process and not read yet
    closed,     \* the writing end is dropped
    file,       \* 0: the base file, n: archive n; <<>> with exists FALSE when absent
    handle,     \* the base file is open
    size,       \* the length the log believes the base file has
    pc,         \* "idle", "rotate", "open", "write", "finished"
    n,          \* next archive number of the rotation in progress
    line,       \* the line being recorded
    complete,   \* LogHealth
    count,      \* lines written so far
    drained,    \* history: lines taken from the pipe by this process
    faults

sink == <<file, handle, size, pc, n, line, complete, drained>>
vars == <<pipe, closed, sink, count, faults>>

Absent == [exists |-> FALSE, lines |-> <<>>]
NoLine == [id |-> 0, length |-> 0, plain |-> TRUE, torn |-> FALSE]
Archives == 1 .. LOG_FILES - 1
Length(lines) == FoldLeft(LAMBDA sum, l : sum + l.length, 0, lines)
LengthOf(f) == Length(f.lines)

May(fault) == fault \in Faults /\ faults < MaxFaults

-----------------------------------------------------------------------------
(* The process, blocked while the pipe is full.                            *)
Write ==
    /\ ~closed /\ count < MaxLines /\ Len(pipe) < PipeCapacity
    /\ count' = count + 1
    /\ \E length \in Lengths, plain \in BOOLEAN :
        pipe' = Append(pipe, [id |-> count + 1, length |-> length, plain |-> plain, torn |-> FALSE])
    /\ UNCHANGED <<closed, sink, faults>>

(* ProcessLogCapture is dropped: the writing end closes.                   *)
Drop ==
    /\ ~closed
    /\ closed' = TRUE
    /\ UNCHANGED <<pipe, sink, count, faults>>

-----------------------------------------------------------------------------
(* drain, append, record                                                   *)

NeedsRotation_mutant(l) == size > Limit

NeedsRotation(l) == size + l.length > Limit

Healthy_mutant(l) == complete

(* An oversized or credential-labelled line is replaced by a notice.       *)
Healthy(l) == complete /\ l.plain

Taken_mutant == handle

(* A rotation drops the open file before it renames it.                    *)
Taken == FALSE

record ==
    /\ pc = "idle" /\ pipe # <<>>
    /\ pipe' = Tail(pipe)
    /\ line' = Head(pipe)
    /\ drained' = Append(drained, Head(pipe))
    /\ IF NeedsRotation(Head(pipe))
       THEN /\ pc' = "rotate" /\ n' = LOG_FILES - 1 /\ handle' = Taken
            /\ complete' = FALSE
       ELSE /\ pc' = "write" /\ complete' = Healthy(Head(pipe))
            /\ UNCHANGED <<n, handle>>
    /\ UNCHANGED <<closed, file, size, count, faults>>

(* A failed operation loses the line; the drain goes on.                   *)
Fails(fault) ==
    /\ May(fault)
    /\ faults' = faults + 1
    /\ pc' = "idle" /\ line' = NoLine /\ complete' = FALSE

Shifted_mutant(k) == [file EXCEPT ![k] = file[k - 1]]

(* One turn of the loop: archive k makes room and takes its neighbour.     *)
Shifted(k) ==
    IF file[k - 1].exists
    THEN [file EXCEPT ![k] = file[k - 1], ![k - 1] = Absent]
    ELSE [file EXCEPT ![k] = Absent]

rotate ==
    /\ pc = "rotate"
    /\ \/ /\ file' = Shifted(n)
          /\ n' = n - 1
          /\ pc' = IF n = 1 THEN "open" ELSE "rotate"
          /\ UNCHANGED <<line, complete, faults>>
       \/ /\ Fails("rename")                         \* or the removal before it
          /\ file' \in {file, [file EXCEPT ![n] = Absent]}
          /\ n' = 0
    /\ UNCHANGED <<pipe, closed, handle, size, count, drained>>

reopen ==
    /\ pc = "open"
    /\ \/ /\ handle' = TRUE /\ size' = 0 /\ pc' = "write"
          /\ file' = IF file[0].exists THEN file ELSE [file EXCEPT ![0] = [exists |-> TRUE, lines |-> <<>>]]
          /\ UNCHANGED <<line, complete, faults>>
       \/ Fails("open") /\ UNCHANGED <<handle, size, file>>
    /\ UNCHANGED <<pipe, closed, n, count, drained>>

Failed_mutant == pc' = "finished" /\ line' = NoLine /\ complete' = FALSE

Failed == pc' = "idle" /\ line' = NoLine /\ complete' = FALSE

(* Without a handle the line is lost; a torn write leaves some of its      *)
(* bytes in the file and does not count them.                              *)
write ==
    /\ pc = "write"
    /\ \/ /\ handle
          /\ file' = [file EXCEPT ![0].lines = Append(@, line)]
          /\ size' = size + line.length
          /\ pc' = "idle" /\ line' = NoLine
          /\ UNCHANGED <<complete, faults>>
       \/ ~handle /\ Failed /\ UNCHANGED <<file, size, faults>>
       \/ handle /\ May("write") /\ Failed /\ faults' = faults + 1 /\ UNCHANGED <<file, size>>
       \/ /\ handle /\ May("torn write") /\ Failed /\ faults' = faults + 1
          /\ \E part \in 1 .. line.length :
                file' = [file EXCEPT ![0].lines = Append(@, [line EXCEPT !.torn = TRUE, !.length = part])]
          /\ UNCHANGED size
    /\ UNCHANGED <<pipe, closed, handle, n, count, drained>>

finish ==
    /\ pc = "idle" /\ pipe = <<>> /\ closed
    /\ pc' = "finished"
    /\ UNCHANGED <<pipe, closed, file, handle, size, n, line, complete, count, drained, faults>>

-----------------------------------------------------------------------------
(* The process is killed and started again.  A base file at its limit is   *)
(* rotated at once; one above it is cut first, to whole lines here.        *)
Cut(f) ==
    LET ks == {k \in 0 .. Len(f.lines) : LengthOf([f EXCEPT !.lines = SubSeq(@, 1, k)]) <= Limit}
    IN  [f EXCEPT !.lines = SubSeq(@, 1, Max(ks))]

AllShifted(f) == [k \in 0 .. LOG_FILES - 1 |-> IF k = 0 THEN [exists |-> TRUE, lines |-> <<>>] ELSE f[k - 1]]

open ==
    LET base == IF file[0].exists THEN file[0] ELSE [exists |-> TRUE, lines |-> <<>>]
        cut == [file EXCEPT ![0] = Cut(base)]
        full == LengthOf(base) >= Limit
    IN  /\ May("kill") /\ pc # "finished"
        /\ faults' = faults + 1
        /\ file' = IF full THEN AllShifted(cut) ELSE cut
        /\ size' = IF full THEN 0 ELSE LengthOf(base)
        /\ handle' = TRUE /\ pc' = "idle" /\ n' = 0 /\ line' = NoLine
        /\ complete' = ~full
        /\ pipe' = <<>> /\ drained' = <<>>
        /\ UNCHANGED <<closed, count>>

-----------------------------------------------------------------------------
Init ==
    /\ pipe = <<>> /\ closed = FALSE
    /\ file = [k \in 0 .. LOG_FILES - 1 |-> IF k = 0 THEN [exists |-> TRUE, lines |-> <<>>] ELSE Absent]
    /\ handle = TRUE /\ size = 0 /\ pc = "idle" /\ n = 0 /\ line = NoLine
    /\ complete = TRUE /\ count = 0 /\ drained = <<>> /\ faults = 0

Next == Write \/ Drop \/ record \/ rotate \/ reopen \/ write \/ finish \/ open

Spec == Init /\ [][Next]_vars

(* The draining thread runs until the pipe ends.                           *)
LiveSpec == Spec /\ WF_vars(record \/ rotate \/ reopen \/ write \/ finish)

-----------------------------------------------------------------------------
Ids(k) == {l.id : l \in Range(file[k].lines)}

(* Types, and at most LOG_FILES files.                                     *)
TypeOK ==
    /\ DOMAIN file = 0 .. LOG_FILES - 1
    /\ handle \in BOOLEAN /\ complete \in BOOLEAN /\ closed \in BOOLEAN
    /\ n \in 0 .. LOG_FILES - 1
    /\ pc \in {"idle", "rotate", "open", "write", "finished"}
    /\ handle => file[0].exists

(* No file of a stream grows past the limit, through every rotation that   *)
(* failed half way and every restart, but by what writes that failed half  *)
(* way left in it: record() counts a line only after write_all returned.   *)
FilesWithinLimit ==
    \A k \in 0 .. LOG_FILES - 1 : Length(SelectSeq(file[k].lines, LAMBDA l : ~l.torn)) <= Limit

(* Reading the archives from the last to the base file gives the lines in  *)
(* the order they were written, none twice, although rotations were cut    *)
(* short and repeated.                                                     *)
OrderedAcrossFiles ==
    /\ \A k \in 0 .. LOG_FILES - 1 : \A i, j \in DOMAIN file[k].lines :
            i < j => file[k].lines[i].id < file[k].lines[j].id
    /\ \A k, m \in 0 .. LOG_FILES - 1 : k < m => \A x \in Ids(k), y \in Ids(m) : y < x

(* A log that reports complete evidence holds, verbatim, every line this   *)
(* process has taken from the pipe (but the one being written).            *)
CompleteIsTrue ==
    complete => \A l \in Range(drained) : (l.plain /\ l \in Range(file[0].lines)) \/ l = line

(* Whatever the sink does, the process never stays blocked on a full pipe, *)
(* and the drain ends after the process does.                              *)
AlwaysDrained ==
    /\ [](Len(pipe) = PipeCapacity => <>(Len(pipe) < PipeCapacity))
    /\ (closed ~> pc = "finished")

=============================================================================
