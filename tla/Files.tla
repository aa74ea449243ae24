--------------------------------- MODULE Files --------------------------------
(***************************************************************************)
(* The whole-file helpers of std/io.vex, called by several processes on    *)
(* one path.  A helper is a row of stdio calls, and between two of them    *)
(* another process may run, the disk may fill or the process may be        *)
(* killed.                                                                 *)
(*                                                                         *)
(* The stdio calls are modelled from how std/io.vex uses them: fopen "wb"  *)
(* truncates, fopen "ab" writes at the end whatever the others do, fwrite  *)
(* leaves up to BufSize bytes in the stream's buffer and fclose hands them *)
(* to the kernel.  Every call writes bytes that carry its own number.      *)
(***************************************************************************)
EXTENDS Integers, Sequences, FiniteSets, SequencesExt

CONSTANTS Procs,     \* the processes
          Lengths,   \* the lengths a caller writes
          BufSize,   \* the size of a stream's buffer
          MaxCalls   \* bound: helper calls in a behaviour

ASSUME BufAssumption == BufSize \in Nat \ {0}
ASSUME LenAssumption == Lengths \subseteq Nat       \* `len: u64'
ASSUME CallAssumption == MaxCalls \in Nat

Hole  == 0                  \* a byte that nobody wrote
Calls == 1 .. MaxCalls      \* the number of a call is the byte it writes
Ops   == {"write", "append", "read", "size"}

VARIABLES exists, bytes,    \* the file
          full,             \* no room is left on the device
          calls,            \* calls begun
          wsteps,           \* ghost: steps of io_write_all calls on the file
          at,               \* where each process is
          cur,              \* its call
          last              \* what its last call returned

file == <<exists, bytes>>
vars == <<exists, bytes, full, calls, wsteps, at, cur, last>>

\* A call: its operation, number and data; its stream's offset and buffer; the
\* local `written' or `size'; what fread has read; and, as ghosts, whether no
\* other call was open at any time of it and the io_write_all steps before its ftell.
NoCall == [op |-> "none", id |-> 0, data |-> << >>, off |-> 0, buf |-> << >>,
           n |-> 0, in |-> << >>, alone |-> TRUE, cut |-> 0]

NoResult == [op |-> "none", id |-> 0, ret |-> 0, len |-> 0, in |-> << >>, cut |-> 0]

Init == /\ exists = FALSE /\ bytes = << >> /\ full = FALSE
        /\ calls = 0 /\ wsteps = 0
        /\ at = [p \in Procs |-> "idle"]
        /\ cur = [p \in Procs |-> NoCall]
        /\ last = [p \in Procs |-> NoResult]

-----------------------------------------------------------------------------
(***************************************************************************)
(* The kernel and stdio.                                                   *)
(***************************************************************************)
\* The file after d is written at offset off; a gap reads as holes.
Written(f, off, d) ==
    [i \in 1 .. (IF off + Len(d) > Len(f) THEN off + Len(d) ELSE Len(f)) |->
        IF i > off /\ i <= off + Len(d) THEN d[i - off]
        ELSE IF i <= Len(f) THEN f[i] ELSE Hole]

\* Mutant: the end of the file is looked up once, when it is opened.
OffsetFixed(p) == cur[p].off

Offset(p) == IF cur[p].op = "append" THEN Len(bytes) ELSE cur[p].off

\* How many of d bytes a write hands to the device: all, or fewer if it is full.
Room(d) == IF full /\ d > 0 THEN 0 .. d - 1 ELSE {d}

First(d, k) == SubSeq(d, 1, k)
Rest(d, k)  == SubSeq(d, k + 1, Len(d))

\* Mutant: the file is opened for writing without "w".
TruncatesNever(op) == op = "none"

Truncates(op) == op = "write"        \* fopen(path, "wb")

Wstep(p) == wsteps' = IF Truncates(cur[p].op) THEN wsteps + 1 ELSE wsteps

Idle(p) == at[p] = "idle"

\* Mutant: the call returns without fclose.
ReturnKeepsStream(p, r) ==
    /\ at' = [at EXCEPT ![p] = "idle"]
    /\ last' = [last EXCEPT ![p] = r]
    /\ UNCHANGED cur

Return(p, r) ==
    /\ at' = [at EXCEPT ![p] = "idle"]
    /\ cur' = [cur EXCEPT ![p] = NoCall]
    /\ last' = [last EXCEPT ![p] = r]

Result(p, ret, len) ==
    [op |-> cur[p].op, id |-> cur[p].id, ret |-> ret, len |-> len,
     in |-> cur[p].in, cut |-> cur[p].cut]

-----------------------------------------------------------------------------
(***************************************************************************)
(* The helpers, one action per stdio call.                                 *)
(***************************************************************************)
\* fopen fails: -1, or nil from io_read_all.
OpenFails(p, op) ==
    /\ Idle(p) /\ calls < MaxCalls
    /\ calls' = calls + 1
    /\ last' = [last EXCEPT ![p] = [NoResult EXCEPT !.op = op, !.id = calls + 1, !.ret = -1]]
    /\ UNCHANGED <<file, full, wsteps, at, cur>>

Open(p, op, len) ==
    /\ Idle(p) /\ calls < MaxCalls
    /\ op \in {"read", "size"} => exists
    /\ calls' = calls + 1
    /\ exists' = TRUE
    /\ bytes' = IF Truncates(op) THEN << >> ELSE bytes
    /\ wsteps' = IF Truncates(op) THEN wsteps + 1 ELSE wsteps
    /\ at' = [at EXCEPT ![p] = IF op \in {"write", "append"} THEN "fwrite" ELSE "ftell"]
    /\ cur' = [q \in Procs |->
                 IF q = p
                 THEN [NoCall EXCEPT !.op = op, !.id = calls + 1,
                                     !.data = [i \in 1 .. len |-> calls + 1],
                                     !.alone = \A o \in Procs : Idle(o)]
                 ELSE [cur[q] EXCEPT !.alone = @ /\ Idle(q)]]
    /\ UNCHANGED <<full, last>>

\* fwrite(buf, 1, len, fp): what does not fit in the stream's buffer goes to
\* the kernel, and what the device refuses is missing from the count.
Fwrite(p) ==
    /\ at[p] = "fwrite"
    /\ LET d == cur[p].data IN
       IF Len(d) <= BufSize
       THEN /\ cur' = [cur EXCEPT ![p].buf = d, ![p].n = Len(d)]
            /\ UNCHANGED bytes
       ELSE \E k \in Len(d) - BufSize .. Len(d) : \E j \in Room(k) :
            /\ bytes' = Written(bytes, Offset(p), First(d, j))
            /\ cur' = [cur EXCEPT ![p].off = @ + j,
                                  ![p].buf = IF j = k THEN Rest(d, k) ELSE << >>,
                                  ![p].n = IF j = k THEN Len(d) ELSE j]
    /\ at' = [at EXCEPT ![p] = "fclose"]
    /\ Wstep(p)
    /\ UNCHANGED <<exists, full, calls, last>>

\* fclose(fp), whose result is dropped, and `if written != len { return -1 }'.
FcloseWrite(p) ==
    /\ at[p] = "fclose" /\ cur[p].op \in {"write", "append"}
    /\ \E j \in Room(Len(cur[p].buf)) :
          bytes' = Written(bytes, Offset(p), First(cur[p].buf, j))
    /\ LET len == Len(cur[p].data) IN
       Return(p, Result(p, IF cur[p].n # len THEN -1 ELSE 0, len))
    /\ Wstep(p)
    /\ UNCHANGED <<exists, full, calls>>

\* fseek to the end and ftell; io_file_size closes and returns the size.
Ftell(p) ==
    /\ at[p] = "ftell"
    /\ IF cur[p].op = "size"
       THEN Return(p, Result(p, Len(bytes), 0))
       ELSE /\ cur' = [cur EXCEPT ![p].n = Len(bytes), ![p].cut = wsteps]
            /\ at' = [at EXCEPT ![p] = "fread"]
            /\ UNCHANGED last
    /\ UNCHANGED <<file, full, calls, wsteps>>

\* alloc fails: the file is closed and the call returns nil.
AllocFails(p) ==
    /\ at[p] = "fread"
    /\ Return(p, Result(p, -1, 0))
    /\ UNCHANGED <<file, full, calls, wsteps>>

\* Mutant: the file position is still at the end.
FreadAtEnd(p) ==
    /\ at[p] = "fread"
    /\ cur' = [cur EXCEPT ![p].in = SubSeq(bytes, cur[p].n + 1, Len(bytes))]
    /\ at' = [at EXCEPT ![p] = "fclose"]
    /\ UNCHANGED <<file, full, calls, wsteps, last>>

\* fseek to the start and fread(buf, 1, size, fp), whose count is dropped.
Fread(p) ==
    /\ at[p] = "fread"
    /\ cur' = [cur EXCEPT ![p].in = First(bytes, IF cur[p].n < Len(bytes) THEN cur[p].n ELSE Len(bytes))]
    /\ at' = [at EXCEPT ![p] = "fclose"]
    /\ UNCHANGED <<file, full, calls, wsteps, last>>

\* fclose and `(*out_len) = size': the buffer holds `in', the caller sees len.
FcloseRead(p) ==
    /\ at[p] = "fclose" /\ cur[p].op = "read"
    /\ Return(p, Result(p, 0, cur[p].n))
    /\ UNCHANGED <<file, full, calls, wsteps>>

\* The process is killed: what its stream held is lost.
Kill(p) ==
    /\ ~Idle(p)
    /\ at' = [at EXCEPT ![p] = "idle"]
    /\ cur' = [cur EXCEPT ![p] = NoCall]
    /\ UNCHANGED <<file, full, calls, wsteps, last>>

DiskFills == ~full /\ full' = TRUE /\ UNCHANGED <<file, calls, wsteps, at, cur, last>>

Next == \/ \E p \in Procs, op \in Ops : OpenFails(p, op)
        \/ \E p \in Procs, op \in {"write", "append"}, len \in Lengths : Open(p, op, len)
        \/ \E p \in Procs, op \in {"read", "size"} : Open(p, op, 0)
        \/ \E p \in Procs : Fwrite(p) \/ FcloseWrite(p)
        \/ \E p \in Procs : Ftell(p) \/ AllocFails(p) \/ Fread(p) \/ FcloseRead(p)
        \/ \E p \in Procs : Kill(p)
        \/ DiskFills

Spec == Init /\ [][Next]_vars

-----------------------------------------------------------------------------
\* The file's bytes are those of calls begun, and a process has a call exactly
\* when it is inside a helper: every way out of a helper ends its call.
TypeOK ==
    /\ exists \in BOOLEAN /\ full \in BOOLEAN
    /\ bytes \in Seq(0 .. MaxCalls)
    /\ ~exists => bytes = << >>
    /\ calls \in 0 .. MaxCalls /\ wsteps \in 0 .. 3 * calls
    /\ at \in [Procs -> {"idle", "fwrite", "fclose", "ftell", "fread"}]
    /\ \A p \in Procs : cur[p].op = "none" <=> Idle(p)

\* io_read_all: when no io_write_all touched the file since its ftell, the
\* *out_len bytes it returned were all read from the file, and they still are
\* its first bytes, however many calls appended in between.
ReadsWhole ==
    \A p \in Procs :
        (last[p].op = "read" /\ last[p].ret = 0 /\ last[p].cut = wsteps)
          => Len(last[p].in) = last[p].len /\ IsPrefix(last[p].in, bytes)

\* A block of bytes lies in the file in one piece.
InOnePiece(id, len) ==
    \E i \in 0 .. Len(bytes) - len : \A j \in 1 .. len : bytes[i + j] = id

\* io_append: as long as nobody truncates and the device has room, an append
\* that returned 0 is in the file, once, and in one piece when it fits in the
\* stream's buffer, however the appends of several processes interleave.
AppendsSurvive ==
    (wsteps = 0 /\ ~full) =>
        \A p \in Procs : (last[p].op = "append" /\ last[p].ret = 0) =>
            /\ Cardinality({i \in DOMAIN bytes : bytes[i] = last[p].id}) = last[p].len
            /\ last[p].len <= BufSize => InOnePiece(last[p].id, last[p].len)

\* io_write_all by itself, with room on the device: it returns 0 and the file
\* holds its data and nothing of what was there before.
WritesAlone ==
    [][\A p \in Procs :
         (FcloseWrite(p) /\ cur[p].op = "write" /\ cur[p].alone /\ ~full)
            => last'[p].ret = 0 /\ bytes' = cur[p].data]_vars
=============================================================================
