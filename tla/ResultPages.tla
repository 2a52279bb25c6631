------------------------------- MODULE ResultPages -------------------------------
(***************************************************************************)
(* Reading the result of a job in pages (okx-agent/src/analytics):         *)
(* result_page with its signed cursors (result.rs, cursor.rs), the pages   *)
(* of a market query (global_rank_page in mod.rs) and the verification of  *)
(* an export.                                                              *)
(*                                                                         *)
(* A result is a sequence of rows stored in chunks of ChunkSize.  A row is *)
(* its position; size[n] is what it takes of the budget of a response.     *)
(* A client may use any cursor it was ever given on any job and view, and  *)
(* a stored chunk may be found damaged.                                    *)
(***************************************************************************)
EXTENDS Integers, Sequences, SequencesExt, FiniteSetsExt

CONSTANTS
    Jobs,       \* completed jobs that own the same result
    Views,      \* "trades", "equity" or "market"
    MaxRows,    \* bound: rows of a result
    MaxSize,    \* bound: size of a row
    ChunkSize,  \* rows of a stored chunk (50, 4096)
    Limits,     \* page limits a client asks for (1..50)
    Budget,     \* bytes of rows in a response (6500)
    Damages     \* bound: damaged chunks

VARIABLES
    size,       \* row -> its size; the result has Len(size) rows
    damaged,    \* chunks that do not match their address any more
    reader      \* the client: what it has read, and the cursor it was given

vars == <<size, damaged, reader>>

Total == Len(size)
NoCursor == [job |-> "none", view |-> "none", offset |-> 0]
Idle == [status |-> "idle", limit |-> 1, got |-> <<>>, cursor |-> NoCursor]

-----------------------------------------------------------------------------
\* publish_replay and market_execute store rows.chunks(ChunkSize).
Chunks == (Total + ChunkSize - 1) \div ChunkSize
Chunk(k) == [n \in 1..Min({ChunkSize, Total - (k - 1) * ChunkSize}) |-> (k - 1) * ChunkSize + n]

Wanted_mutant(offset, limit) == [n \in 1..limit |-> IF offset + n <= Total THEN offset + n ELSE Total]

\* The walk of result_page over the chunks from an offset.
Wanted(offset, limit) == [n \in 1..Min({limit, Total - offset}) |-> offset + n]
Touched(rows) == {((n - 1) \div ChunkSize) + 1: n \in ToSet(rows)}

\* global_rank_page filters each chunk by the position of its rows.
RankWanted(offset, limit) ==
    LET from == SubSeq([k \in 1..Chunks |-> Chunk(k)], offset \div ChunkSize + 1, Chunks)
        after == SelectSeq(FlattenSeq(from), LAMBDA n: n > offset)
    IN SubSeq(after, 1, Min({limit, Len(after)}))

Bytes(rows) == FoldSeq(LAMBDA n, sum: sum + size[n], 0, rows)

fitting_mutant(rows) ==
    LET fits == {k \in 1..Len(rows): Bytes(SubSeq(rows, 1, k)) <= Budget}
    IN SubSeq(rows, 1, Max({0} \cup fits))

\* Rows are popped until the response fits, but one is always left.
fitting(rows) ==
    LET fits == {k \in 1..Len(rows): Bytes(SubSeq(rows, 1, k)) <= Budget}
    IN SubSeq(rows, 1, Max({Min({1, Len(rows)})} \cup fits))

next_offset_mutant(offset, wanted, rows) == offset + Len(wanted)

\* The continuation counts the rows returned, not the rows wanted.
next_offset(offset, wanted, rows) == offset + Len(rows)

-----------------------------------------------------------------------------
(* Cursors *)

Cursor(job, view, offset) == [job |-> job, view |-> view, offset |-> offset]

matches_mutant(c, job, view) == c.job = job

\* A signed cursor names its job, its root, its leaf and its view; a market
\* cursor names the job whose artifact holds the request's fingerprint.
matches(c, job, view) == c.job = job /\ c.view = view

-----------------------------------------------------------------------------
(* A page *)

Fail(r, why) == reader' = [r EXCEPT !.status = why]

\* One response: rows from `offset`, and the cursor of the next page if any.
Respond(r, job, view, offset) ==
    LET wanted == IF view = "market" THEN RankWanted(offset, r.limit) ELSE Wanted(offset, r.limit)
        rows == fitting(wanted)
        next == next_offset(offset, wanted, rows)
    IN
    IF Touched(wanted) \cap damaged # {} THEN Fail(r, "corrupt")
    ELSE IF view # "market" /\ Len(rows) = 1 /\ Bytes(rows) > Budget THEN Fail(r, "too large")
    ELSE reader' = [r EXCEPT !.got = @ \o [n \in 1..Len(rows) |-> <<job, view, rows[n]>>],
                             !.cursor = Cursor(job, view, next),
                             !.status = IF next < Total THEN "reading" ELSE "end"]

FirstPage(job, view, limit) ==
    /\ reader = Idle
    /\ Respond([Idle EXCEPT !.limit = limit], job, view, 0)
    /\ UNCHANGED <<size, damaged>>

\* The client presents its cursor with any job and view; a refusal leaves
\* it where it was.
NextPage(job, view) ==
    /\ reader.status = "reading"
    /\ IF matches(reader.cursor, job, view)
       THEN Respond(reader, job, view, reader.cursor.offset)
       ELSE UNCHANGED reader
    /\ UNCHANGED <<size, damaged>>

Damage(k) ==
    /\ Cardinality(damaged) < Damages /\ k \notin damaged
    /\ damaged' = damaged \cup {k} /\ UNCHANGED <<size, reader>>

\* verify_export_manifest reads every chunk and compares the count.
verified_export_mutant == TRUE

verified_export ==
    /\ damaged = {}
    /\ \A k \in 1..Chunks: Len(Chunk(k)) >= 1 /\ (k < Chunks => Len(Chunk(k)) = ChunkSize)
    /\ MapThenSumSet(LAMBDA k: Len(Chunk(k)), 1..Chunks) = Total

-----------------------------------------------------------------------------
Init ==
    /\ size \in UNION {[1..n -> 1..MaxSize]: n \in 1..MaxRows}
    /\ damaged = {} /\ reader = Idle

Next ==
    \/ \E j \in Jobs, v \in Views: NextPage(j, v) \/ \E l \in Limits: FirstPage(j, v, l)
    \/ \E k \in 1..Chunks: Damage(k)

Spec == Init /\ [][Next]_vars

\* The client goes on asking.
FairSpec == Spec /\ WF_vars(\E j \in Jobs, v \in Views: matches(reader.cursor, j, v) /\ NextPage(j, v))

-----------------------------------------------------------------------------
TypeOK ==
    /\ reader.status \in {"idle", "reading", "end", "corrupt", "too large"}
    /\ reader.cursor.offset <= Total /\ Len(reader.got) <= Total

\* The rows a client has are those of one job and view, in order, without a
\* gap or a repetition, however the budget cut its pages (result_page,
\* global_rank_page).
PagesAreAPrefix ==
    \A n \in 1..Len(reader.got): reader.got[n] = <<reader.cursor.job, reader.cursor.view, n>>

\* A reading that ends without an error has every row: a damaged chunk is
\* an error, never a shorter result.
EndIsComplete == reader.status = "end" => Len(reader.got) = Total

\* A result whose export was verified can be read to its end, unless one of
\* its rows is larger than a response.
ExportIsReadable == verified_export => reader.status # "corrupt"

\* Every page moves on: a client that goes on asking ends.
ReadingEnds == (reader.status = "reading") ~> (reader.status # "reading")
=============================================================================
