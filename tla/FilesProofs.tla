----------------------------- MODULE FilesProofs ------------------------------
(***************************************************************************)
(* Theorems of Files, for every set of processes, every length of data and *)
(* every size of a stream's buffer.                                        *)
(***************************************************************************)
EXTENDS Files, SequenceTheorems, FiniteSetTheorems, TLAPS

-----------------------------------------------------------------------------
(***************************************************************************)
(* What the kernel's operators return.                                     *)
(***************************************************************************)
\* A file after a write: its type, its length and each of its bytes.
LEMMA WrittenIs ==
    ASSUME NEW S, Hole \in S, NEW f \in Seq(S), NEW d \in Seq(S), NEW off \in Nat
    PROVE  LET g == Written(f, off, d) IN
           /\ g \in Seq(S)
           /\ Len(g) = IF off + Len(d) > Len(f) THEN off + Len(d) ELSE Len(f)
           /\ \A i \in 1 .. Len(g) :
                 g[i] = IF i > off /\ i <= off + Len(d) THEN d[i - off]
                        ELSE IF i <= Len(f) THEN f[i] ELSE Hole
<1> DEFINE n == IF off + Len(d) > Len(f) THEN off + Len(d) ELSE Len(f)
           g == Written(f, off, d)
           E(i) == IF i > off /\ i <= off + Len(d) THEN d[i - off]
                   ELSE IF i <= Len(f) THEN f[i] ELSE Hole
<1>1. Len(f) \in Nat /\ Len(d) \in Nat /\ n \in Nat
  BY LenProperties
<1>2. g = [i \in 1 .. n |-> E(i)]
  BY DEF Written
<1>3. ASSUME NEW i \in 1 .. n PROVE E(i) \in S
  <2>1. CASE i > off /\ i <= off + Len(d)
    <3>1. i - off \in 1 .. Len(d)
      BY <2>1, <1>1
    <3>2. QED
      BY <3>1, <2>1, ElementOfSeq
  <2>2. CASE ~(i > off /\ i <= off + Len(d)) /\ i <= Len(f)
    <3>1. i \in 1 .. Len(f)
      BY <2>2, <1>1
    <3>2. QED
      BY <3>1, <2>2, ElementOfSeq
  <2>3. CASE ~(i > off /\ i <= off + Len(d)) /\ ~(i <= Len(f))
    BY <2>3
  <2>4. QED
    BY <2>1, <2>2, <2>3
<1> HIDE DEF n, g, E
<1>4. g \in [1 .. n -> S]
  BY <1>2, <1>3
<1>5. g \in Seq(S) /\ Len(g) = n
  BY <1>1, <1>4
<1>6. \A i \in 1 .. n : g[i] = E(i)
  BY <1>2
<1>7. QED
  BY <1>5, <1>6 DEF g, n, E

\* A write at the end of the file appends.
LEMMA WrittenAtEnd ==
    ASSUME NEW S, Hole \in S, NEW f \in Seq(S), NEW d \in Seq(S)
    PROVE  Written(f, Len(f), d) = f \o d
<1>1. Len(f) \in Nat /\ Len(d) \in Nat
  BY LenProperties
<1> DEFINE g == Written(f, Len(f), d)
<1>2. /\ g \in Seq(S)
      /\ Len(g) = Len(f) + Len(d)
      /\ \A i \in 1 .. Len(g) : g[i] = IF i <= Len(f) THEN f[i] ELSE d[i - Len(f)]
  BY <1>1, WrittenIs
<1>3. /\ f \o d \in Seq(S)
      /\ Len(f \o d) = Len(f) + Len(d)
      /\ \A i \in 1 .. Len(f) + Len(d) : (f \o d)[i] = IF i <= Len(f) THEN f[i] ELSE d[i - Len(f)]
  BY ConcatProperties
<1> HIDE DEF g
<1>4. g = f \o d
  BY <1>2, <1>3, SeqEqual
<1>5. QED
  BY <1>4 DEF g

\* The first k bytes and the bytes after them.
LEMMA FirstIs ==
    ASSUME NEW S, NEW d \in Seq(S), NEW k \in 0 .. Len(d)
    PROVE  /\ First(d, k) \in Seq(S)
           /\ Len(First(d, k)) = k
           /\ \A i \in 1 .. k : First(d, k)[i] = d[i]
           /\ k = Len(d) => First(d, k) = d
<1>1. Len(d) \in Nat /\ \A i \in 1 .. k : d[i] \in S
  BY LenProperties, ElementOfSeq
<1>2. /\ SubSeq(d, 1, k) \in Seq(S)
      /\ Len(SubSeq(d, 1, k)) = IF 1 <= k THEN k - 1 + 1 ELSE 0
      /\ \A i \in 1 .. k - 1 + 1 : SubSeq(d, 1, k)[i] = d[1 + i - 1]
  BY <1>1, SubSeqProperties
<1>3. \A i \in 1 .. k : SubSeq(d, 1, k)[i] = d[i]
  <2>1. \A i \in 1 .. k : i \in 1 .. k - 1 + 1 /\ 1 + i - 1 = i
    BY <1>1
  <2>2. QED
    BY <2>1, <1>2
<1>4. k = Len(d) => SubSeq(d, 1, k) = d
  BY SubSeqFull
<1>5. QED
  BY <1>1, <1>2, <1>3, <1>4 DEF First

\* What is left of some data after the first k bytes.
LEMMA RestIs ==
    ASSUME NEW S, NEW d \in Seq(S), NEW k \in 0 .. Len(d)
    PROVE  /\ Rest(d, k) \in Seq(S)
           /\ Len(Rest(d, k)) = Len(d) - k
           /\ \A i \in 1 .. Len(d) - k : Rest(d, k)[i] = d[k + i]
           /\ First(d, k) \o Rest(d, k) = d
<1>1. Len(d) \in Nat /\ \A i \in k + 1 .. Len(d) : d[i] \in S
  BY LenProperties, ElementOfSeq
<1>2. /\ SubSeq(d, k + 1, Len(d)) \in Seq(S)
      /\ Len(SubSeq(d, k + 1, Len(d))) = IF k + 1 <= Len(d) THEN Len(d) - (k + 1) + 1 ELSE 0
      /\ \A i \in 1 .. Len(d) - (k + 1) + 1 : SubSeq(d, k + 1, Len(d))[i] = d[(k + 1) + i - 1]
  BY <1>1, SubSeqProperties
<1>3. \A i \in 1 .. Len(d) - k : SubSeq(d, k + 1, Len(d))[i] = d[k + i]
  <2>1. \A i \in 1 .. Len(d) - k : i \in 1 .. Len(d) - (k + 1) + 1 /\ (k + 1) + i - 1 = k + i
    BY <1>1
  <2>2. QED
    BY <2>1, <1>2
<1>4. SubSeq(d, 1, k) \o SubSeq(d, k + 1, Len(d)) = SubSeq(d, 1, Len(d))
  <2>1. 1 \in 1 .. Len(d) + 1 /\ k \in 1 - 1 .. Len(d) /\ Len(d) \in k .. Len(d)
    BY <1>1
  <2>2. QED
    BY <2>1, ConcatAdjacentSubSeq
<1>5. SubSeq(d, 1, Len(d)) = d
  BY SubSeqFull
<1>6. Len(SubSeq(d, k + 1, Len(d))) = Len(d) - k
  BY <1>1, <1>2
<1>7. QED
  BY <1>2, <1>3, <1>4, <1>5, <1>6 DEF Rest, First

\* A device with room takes everything; a full one takes a part.
LEMMA RoomIs ==
    ASSUME NEW k \in Nat, NEW j \in Room(k)
    PROVE  j \in 0 .. k /\ (~full => j = k)
BY DEF Room

\* A prefix, byte by byte.
LEMMA PrefixIs ==
    ASSUME NEW S, NEW s \in Seq(S), NEW t \in Seq(S)
    PROVE  IsPrefix(s, t) <=> Len(s) <= Len(t) /\ \A i \in 1 .. Len(s) : s[i] = t[i]
<1>1. Len(s) \in Nat /\ Len(t) \in Nat /\ SubSeq(s, 1, Len(s)) = s
  BY LenProperties, SubSeqFull
<1>2. CASE Len(s) <= Len(t)
  <2>1. Len(s) \in 0 .. Len(t)
    BY <1>1, <1>2
  <2>2. /\ First(t, Len(s)) \in Seq(S)
        /\ Len(First(t, Len(s))) = Len(s)
        /\ \A i \in 1 .. Len(s) : First(t, Len(s))[i] = t[i]
    BY <2>1, FirstIs
  <2>3. (s = First(t, Len(s))) <=> (\A i \in 1 .. Len(s) : s[i] = t[i])
    <3> DEFINE u == First(t, Len(s))
    <3> HIDE DEF u
    <3>1. u \in Seq(S) /\ Len(u) = Len(s) /\ \A i \in 1 .. Len(s) : u[i] = t[i]
      BY <2>2 DEF u
    <3>2. s = u <=> \A i \in 1 .. Len(s) : s[i] = t[i]
      BY <3>1, SeqEqual
    <3>3. QED
      BY <3>2 DEF u
  <2>4. QED
    BY <1>1, <1>2, <2>3 DEF IsPrefix, First
<1>3. QED
  BY <1>1, <1>2 DEF IsPrefix

-----------------------------------------------------------------------------
(***************************************************************************)
(* The inductive invariant, in parts: the types, where a call is in its    *)
(* helper, and what it has done so far.                                    *)
(***************************************************************************)
Byte == 0 .. MaxCalls

CallType == [op : Ops \cup {"none"}, id : Byte, data : Seq(Byte), off : Nat, buf : Seq(Byte),
             n : Nat, in : Seq(Byte), alone : BOOLEAN, cut : Nat]

ResultType == [op : Ops \cup {"none"}, id : Byte, ret : Int, len : Nat, in : Seq(Byte), cut : Nat]

Types ==
    /\ exists \in BOOLEAN /\ full \in BOOLEAN
    /\ bytes \in Seq(Byte)
    /\ ~exists => bytes = << >>
    /\ calls \in 0 .. MaxCalls /\ wsteps \in Nat
    /\ at \in [Procs -> {"idle", "fwrite", "fclose", "ftell", "fread"}]
    /\ cur \in [Procs -> CallType]
    /\ last \in [Procs -> ResultType]

Writes(p) == cur[p].op \in {"write", "append"}

\* The operation says which stdio calls a process can be at.
StageOf(p) ==
    /\ cur[p].op = "none" <=> Idle(p)
    /\ ~Idle(p) => exists
    /\ at[p] = "fwrite" => Writes(p)
    /\ at[p] = "ftell" => cur[p].op \in {"read", "size"}
    /\ at[p] = "fread" => cur[p].op = "read"
    /\ at[p] = "fclose" => cur[p].op \in {"write", "append", "read"}
    /\ cur[p].op = "write" => wsteps > 0

Stages == \A p \in Procs : StageOf(p)

-----------------------------------------------------------------------------
\* A call's data.
LEMMA CopiesType ==
    ASSUME NEW S, NEW len \in Nat, NEW b \in S
    PROVE  /\ [i \in 1 .. len |-> b] \in Seq(S)
           /\ Len([i \in 1 .. len |-> b]) = len
OBVIOUS

\* What an open call keeps when another opens the file.
LEMMA OpenedIs ==
    ASSUME Types, NEW p \in Procs, NEW op \in Ops, NEW len \in Nat, Open(p, op, len)
    PROVE  /\ cur' \in [Procs -> CallType]
           /\ cur'[p].op = op /\ cur'[p].id = calls + 1
           /\ Len(cur'[p].data) = len /\ \A i \in 1 .. len : cur'[p].data[i] = calls + 1
           /\ cur'[p].off = 0 /\ cur'[p].buf = << >> /\ cur'[p].n = 0 /\ cur'[p].in = << >>
           /\ cur'[p].alone <=> \A o \in Procs : Idle(o)
           /\ calls < MaxCalls /\ calls' = calls + 1
           /\ exists' = TRUE /\ UNCHANGED <<full, last>> /\ Idle(p)
           /\ op = "write" => bytes' = << >> /\ wsteps' = wsteps + 1
           /\ op # "write" => bytes' = bytes /\ wsteps' = wsteps
           /\ at' = [at EXCEPT ![p] = IF op \in {"write", "append"} THEN "fwrite" ELSE "ftell"]
           /\ \A q \in Procs \ {p} :
                /\ cur'[q].op = cur[q].op /\ cur'[q].id = cur[q].id /\ cur'[q].data = cur[q].data
                /\ cur'[q].off = cur[q].off /\ cur'[q].buf = cur[q].buf /\ cur'[q].n = cur[q].n
                /\ cur'[q].in = cur[q].in /\ cur'[q].cut = cur[q].cut
                /\ cur'[q].alone <=> cur[q].alone /\ Idle(q)
<1> DEFINE copies == [i \in 1 .. len |-> calls + 1]
           still == \A o \in Procs : Idle(o)
           new == [NoCall EXCEPT !.op = op, !.id = calls + 1, !.data = copies,
                                 !.alone = still]
           kept(q) == [cur[q] EXCEPT !.alone = @ /\ Idle(q)]
<1>1. cur' = [q \in Procs |-> IF q = p THEN new ELSE kept(q)]
  BY DEF Open
<1>2. calls + 1 \in Byte
  <2>1. calls < MaxCalls /\ calls \in 0 .. MaxCalls
    BY DEF Open, Types
  <2>2. QED
    BY <2>1, CallAssumption DEF Byte
<1>3. copies \in Seq(Byte) /\ Len(copies) = len
  BY <1>2, CopiesType
<1>4. << >> \in Seq(Byte) /\ 0 \in Byte /\ still \in BOOLEAN
  BY EmptySeq, CallAssumption DEF Byte
<1>5b. still <=> \A o \in Procs : Idle(o)
  OBVIOUS
<1> HIDE DEF copies, still
<1>5. /\ new \in CallType
      /\ new.op = op /\ new.id = calls + 1 /\ new.data = copies
      /\ new.off = 0 /\ new.buf = << >> /\ new.n = 0 /\ new.in = << >>
      /\ new.alone <=> still
  BY <1>2, <1>3, <1>4 DEF CallType, NoCall
<1>6. ASSUME NEW q \in Procs
      PROVE  /\ kept(q) \in CallType
             /\ kept(q).op = cur[q].op /\ kept(q).id = cur[q].id /\ kept(q).data = cur[q].data
             /\ kept(q).off = cur[q].off /\ kept(q).buf = cur[q].buf /\ kept(q).n = cur[q].n
             /\ kept(q).in = cur[q].in /\ kept(q).cut = cur[q].cut
             /\ kept(q).alone <=> cur[q].alone /\ Idle(q)
  <2>1. cur[q] \in CallType
    BY DEF Types
  <2>2. QED
    BY <2>1 DEF CallType
<1> HIDE DEF new, kept
<1>7. cur' \in [Procs -> CallType]
  BY <1>1, <1>5, <1>6
<1>8. cur'[p] = new /\ \A q \in Procs \ {p} : cur'[q] = kept(q)
  BY <1>1
<1>9. \A i \in 1 .. len : copies[i] = calls + 1
  BY DEF copies
<1>10. /\ calls < MaxCalls /\ calls' = calls + 1
       /\ exists' = TRUE /\ UNCHANGED <<full, last>> /\ Idle(p)
       /\ bytes' = IF Truncates(op) THEN << >> ELSE bytes
       /\ wsteps' = IF Truncates(op) THEN wsteps + 1 ELSE wsteps
       /\ at' = [at EXCEPT ![p] = IF op \in {"write", "append"} THEN "fwrite" ELSE "ftell"]
  BY DEF Open
<1>11. /\ op = "write" => bytes' = << >> /\ wsteps' = wsteps + 1
       /\ op # "write" => bytes' = bytes /\ wsteps' = wsteps
  BY <1>10 DEF Truncates
<1>12. QED
  BY <1>3, <1>5, <1>5b, <1>6, <1>7, <1>8, <1>9, <1>10, <1>11

\* What fwrite does to the file and to its own stream; the other calls stay.
LEMMA FwriteIs ==
    ASSUME Types, NEW p \in Procs, Fwrite(p)
    PROVE  LET c == cur[p]
               d == cur[p].data
               e == cur'[p]
           IN /\ cur' \in [Procs -> CallType]
              /\ bytes' \in Seq(Byte)
              /\ \A q \in Procs \ {p} : cur'[q] = cur[q]
              /\ /\ e.op = c.op /\ e.id = c.id /\ e.data = d
                 /\ e.in = c.in /\ e.alone = c.alone /\ e.cut = c.cut
              /\ \/ /\ Len(d) <= BufSize
                    /\ bytes' = bytes
                    /\ e.off = c.off /\ e.buf = d /\ e.n = Len(d)
                 \/ /\ Len(d) > BufSize
                    /\ \E k \in 0 .. Len(d) : \E j \in 0 .. k :
                          /\ ~full => j = k
                          /\ bytes' = Written(bytes, Offset(p), First(d, j))
                          /\ e.off = c.off + j
                          /\ e.buf = IF j = k THEN Rest(d, k) ELSE << >>
                          /\ e.n = IF j = k THEN Len(d) ELSE j
<1> DEFINE c == cur[p]
           d == cur[p].data
           e == cur'[p]
<1>1. /\ c \in CallType /\ d \in Seq(Byte) /\ Len(d) \in Nat
      /\ bytes \in Seq(Byte) /\ Len(bytes) \in Nat /\ BufSize \in Nat
      /\ Hole \in Byte
  BY LenProperties, BufAssumption, CallAssumption DEF Types, CallType, Byte, Hole
<1>2. CASE Len(d) <= BufSize
  <2>1. cur' = [cur EXCEPT ![p].buf = d, ![p].n = Len(d)] /\ bytes' = bytes
    BY <1>2 DEF Fwrite
  <2>2. [c EXCEPT !.buf = d, !.n = Len(d)] \in CallType
    BY <1>1 DEF CallType
  <2>3. /\ e = [c EXCEPT !.buf = d, !.n = Len(d)]
        /\ cur' \in [Procs -> CallType]
        /\ \A q \in Procs \ {p} : cur'[q] = cur[q]
    BY <2>1, <2>2 DEF Types
  <2>4. QED
    BY <1>1, <1>2, <2>1, <2>3 DEF CallType
<1>3. CASE ~(Len(d) <= BufSize)
  <2>1. PICK k \in Len(d) - BufSize .. Len(d) : \E j \in Room(k) :
            /\ bytes' = Written(bytes, Offset(p), First(d, j))
            /\ cur' = [cur EXCEPT ![p].off = @ + j,
                                  ![p].buf = IF j = k THEN Rest(d, k) ELSE << >>,
                                  ![p].n = IF j = k THEN Len(d) ELSE j]
    BY <1>3 DEF Fwrite
  <2>2. PICK j \in Room(k) :
            /\ bytes' = Written(bytes, Offset(p), First(d, j))
            /\ cur' = [cur EXCEPT ![p].off = @ + j,
                                  ![p].buf = IF j = k THEN Rest(d, k) ELSE << >>,
                                  ![p].n = IF j = k THEN Len(d) ELSE j]
    BY <2>1
  <2>3. k \in 0 .. Len(d) /\ k \in Nat
    BY <1>1, <1>3
  <2>4. j \in 0 .. k /\ (~full => j = k)
    BY <2>3, RoomIs
  <2>5. j \in 0 .. Len(d)
    BY <2>3, <2>4
  <2>6. First(d, j) \in Seq(Byte) /\ Rest(d, k) \in Seq(Byte) /\ << >> \in Seq(Byte)
    BY <2>3, <2>5, <1>1, FirstIs, RestIs, EmptySeq
  <2>7. Offset(p) \in Nat
    BY <1>1 DEF Offset, CallType
  <2>8. bytes' \in Seq(Byte)
    BY <2>2, <2>6, <2>7, <1>1, WrittenIs
  <2> DEFINE b == IF j = k THEN Rest(d, k) ELSE << >>
             m == IF j = k THEN Len(d) ELSE j
             new == [c EXCEPT !.off = @ + j, !.buf = b, !.n = m]
  <2>9. b \in Seq(Byte) /\ m \in Nat
    BY <2>6, <2>5, <1>1
  <2>10. cur' = [cur EXCEPT ![p] = new]
    BY <2>2
  <2> DEFINE o == c.off + j
  <2>10a. o \in Nat
    BY <1>1, <2>5 DEF CallType
  <2>10b. new = [c EXCEPT !.off = o, !.buf = b, !.n = m]
    OBVIOUS
  <2> HIDE DEF b, m, c, o, new
  <2>11. /\ new \in CallType
         /\ new.op = c.op /\ new.id = c.id /\ new.data = d
         /\ new.in = c.in /\ new.alone = c.alone /\ new.cut = c.cut
         /\ new.off = o /\ new.buf = b /\ new.n = m
    <3>1. c \in CallType /\ d = c.data
      BY <1>1 DEF c
    <3> HIDE DEF d
    <3>2. QED
      BY <3>1, <2>9, <2>10a, <2>10b DEF CallType
  <2>12. /\ e = new
         /\ cur' \in [Procs -> CallType]
         /\ \A q \in Procs \ {p} : cur'[q] = cur[q]
    BY <2>10, <2>11 DEF Types, o
  <2>13. o = c.off + j /\ b = (IF j = k THEN Rest(d, k) ELSE << >>) /\ m = (IF j = k THEN Len(d) ELSE j)
    BY DEF b, m, o
  <2>14. Len(d) > BufSize
    BY <1>1, <1>3
  <2>15. \E kk \in 0 .. Len(d) : \E jj \in 0 .. kk :
            /\ ~full => jj = kk
            /\ bytes' = Written(bytes, Offset(p), First(d, jj))
            /\ e.off = c.off + jj
            /\ e.buf = IF jj = kk THEN Rest(d, kk) ELSE << >>
            /\ e.n = IF jj = kk THEN Len(d) ELSE jj
    <3>1. /\ e.off = c.off + j
          /\ e.buf = IF j = k THEN Rest(d, k) ELSE << >>
          /\ e.n = IF j = k THEN Len(d) ELSE j
      BY <2>11, <2>12, <2>13
    <3> HIDE DEF d, e
    <3>2. bytes' = Written(bytes, Offset(p), First(d, j))
      BY <2>2 DEF d
    <3>3. QED
      BY <3>1, <3>2, <2>3, <2>4
  <2> HIDE DEF c, d, e
  <2>16. QED
    BY <2>8, <2>11, <2>12, <2>14, <2>15 DEF c, d, e
<1>4. QED
  BY <1>2, <1>3

\* What fclose hands to the kernel.
LEMMA FcloseIs ==
    ASSUME Types, NEW p \in Procs, FcloseWrite(p)
    PROVE  \E j \in 0 .. Len(cur[p].buf) :
              /\ ~full => j = Len(cur[p].buf)
              /\ bytes' = Written(bytes, Offset(p), First(cur[p].buf, j))
              /\ bytes' \in Seq(Byte)
              /\ First(cur[p].buf, j) \in Seq(Byte)
<1> DEFINE d == cur[p].buf
<1>1. PICK j \in Room(Len(d)) : bytes' = Written(bytes, Offset(p), First(d, j))
  BY DEF FcloseWrite
<1>2. /\ d \in Seq(Byte) /\ Len(d) \in Nat /\ bytes \in Seq(Byte) /\ Len(bytes) \in Nat
      /\ Hole \in Byte /\ Offset(p) \in Nat
  BY LenProperties, CallAssumption DEF Types, CallType, Byte, Hole, Offset
<1>3. j \in 0 .. Len(d) /\ (~full => j = Len(d))
  BY <1>2, RoomIs
<1>4. First(d, j) \in Seq(Byte)
  BY <1>2, <1>3, FirstIs
<1>5. bytes' \in Seq(Byte)
  BY <1>1, <1>2, <1>4, WrittenIs
<1>6. QED
  BY <1>1, <1>3, <1>4, <1>5

\* A call that returns leaves no call and keeps its result.
LEMMA ReturnIs ==
    ASSUME Types, NEW p \in Procs, NEW r \in ResultType, Return(p, r)
    PROVE  /\ cur' \in [Procs -> CallType] /\ last' \in [Procs -> ResultType]
           /\ at' \in [Procs -> {"idle", "fwrite", "fclose", "ftell", "fread"}]
           /\ cur'[p] = NoCall /\ cur'[p].op = "none" /\ last'[p] = r /\ at'[p] = "idle"
           /\ \A q \in Procs \ {p} : cur'[q] = cur[q] /\ last'[q] = last[q] /\ at'[q] = at[q]
<1>1. << >> \in Seq(Byte) /\ 0 \in Byte
  BY EmptySeq, CallAssumption DEF Byte
<1>2. NoCall \in CallType /\ NoCall.op = "none"
  BY <1>1 DEF NoCall, CallType
<1>3. QED
  BY <1>2 DEF Return, Types

\* A result carries its call's fields.
LEMMA ResultIs ==
    ASSUME Types, NEW p \in Procs, NEW ret \in Int, NEW len \in Nat
    PROVE  LET r == Result(p, ret, len) IN
           /\ r \in ResultType
           /\ r.op = cur[p].op /\ r.id = cur[p].id /\ r.ret = ret /\ r.len = len
           /\ r.in = cur[p].in /\ r.cut = cur[p].cut
BY DEF Types, CallType, ResultType, Result

-----------------------------------------------------------------------------
(***************************************************************************)
(* Types and stages.                                                       *)
(***************************************************************************)
\* A call that failed to open.
LEMMA FailedIs ==
    ASSUME Types, NEW p \in Procs, NEW op \in Ops, OpenFails(p, op)
    PROVE  /\ last' \in [Procs -> ResultType]
           /\ last'[p].op = op /\ last'[p].id = calls + 1 /\ last'[p].ret = -1
           /\ \A q \in Procs \ {p} : last'[q] = last[q]
<1> DEFINE i == calls + 1
           new == [NoResult EXCEPT !.op = op, !.id = i, !.ret = -1]
<1>1. i \in Byte
  <2>1. calls < MaxCalls /\ calls \in 0 .. MaxCalls
    BY DEF OpenFails, Types
  <2>2. QED
    BY <2>1, CallAssumption DEF Byte
<1>2. << >> \in Seq(Byte) /\ 0 \in Byte
  BY EmptySeq, CallAssumption DEF Byte
<1>3. last' = [last EXCEPT ![p] = new]
  BY DEF OpenFails
<1>4. i = calls + 1
  OBVIOUS
<1> HIDE DEF i
<1>5. new \in ResultType /\ new.op = op /\ new.id = i /\ new.ret = -1
  <2>1. NoResult \in ResultType
    BY <1>2 DEF NoResult, ResultType
  <2>2. op \in Ops \cup {"none"} /\ -1 \in Int
    OBVIOUS
  <2>3. QED
    BY <2>1, <2>2, <1>1 DEF ResultType
<1> HIDE DEF new
<1>6. QED
  BY <1>3, <1>4, <1>5 DEF Types

\* What ftell and fread put into a call.
LEMMA FtellIs ==
    ASSUME Types, NEW p \in Procs, Ftell(p), cur[p].op # "size"
    PROVE  /\ cur' \in [Procs -> CallType]
           /\ cur'[p] = [cur[p] EXCEPT !.n = Len(bytes), !.cut = wsteps]
           /\ cur'[p].op = cur[p].op /\ cur'[p].id = cur[p].id /\ cur'[p].alone = cur[p].alone
           /\ cur'[p].n = Len(bytes) /\ cur'[p].cut = wsteps
           /\ \A q \in Procs \ {p} : cur'[q] = cur[q]
           /\ at' = [at EXCEPT ![p] = "fread"] /\ last' = last
<1> DEFINE size == Len(bytes)
<1>1. size \in Nat /\ wsteps \in Nat /\ cur[p] \in CallType
  BY LenProperties DEF Types
<1>2. cur' = [cur EXCEPT ![p].n = size, ![p].cut = wsteps]
  BY DEF Ftell
<1> HIDE DEF size
<1>3. [cur[p] EXCEPT !.n = size, !.cut = wsteps] \in CallType
  BY <1>1 DEF CallType
<1>4. /\ cur'[p] = [cur[p] EXCEPT !.n = size, !.cut = wsteps]
      /\ cur' \in [Procs -> CallType]
      /\ \A q \in Procs \ {p} : cur'[q] = cur[q]
  BY <1>2, <1>3 DEF Types
<1>5. /\ cur'[p].op = cur[p].op /\ cur'[p].id = cur[p].id /\ cur'[p].alone = cur[p].alone
      /\ cur'[p].n = size /\ cur'[p].cut = wsteps
  BY <1>1, <1>4 DEF CallType
<1>6. at' = [at EXCEPT ![p] = "fread"] /\ last' = last
  BY DEF Ftell
<1>7. QED
  BY <1>4, <1>5, <1>6 DEF size

\* What fread leaves in the call and in its result.
LEMMA FreadIs ==
    ASSUME Types, NEW p \in Procs, Fread(p)
    PROVE  LET m == IF cur[p].n < Len(bytes) THEN cur[p].n ELSE Len(bytes) IN
           /\ cur' \in [Procs -> CallType]
           /\ cur'[p].op = cur[p].op /\ cur'[p].id = cur[p].id /\ cur'[p].alone = cur[p].alone
           /\ cur'[p].n = cur[p].n /\ cur'[p].cut = cur[p].cut
           /\ m \in 0 .. Len(bytes)
           /\ cur'[p].in = First(bytes, m)
           /\ \A q \in Procs \ {p} : cur'[q] = cur[q]
<1> DEFINE m == IF cur[p].n < Len(bytes) THEN cur[p].n ELSE Len(bytes)
           in == First(bytes, m)
<1>1. Len(bytes) \in Nat /\ cur[p] \in CallType /\ bytes \in Seq(Byte)
  BY LenProperties DEF Types
<1>2. m \in 0 .. Len(bytes)
  BY <1>1 DEF CallType
<1>3. cur' = [cur EXCEPT ![p].in = in]
  BY DEF Fread
<1> HIDE DEF m
<1>4. in \in Seq(Byte)
  BY <1>1, <1>2, FirstIs
<1> HIDE DEF in
<1>5. [cur[p] EXCEPT !.in = in] \in CallType
  BY <1>1, <1>4 DEF CallType
<1>6. /\ cur'[p] = [cur[p] EXCEPT !.in = in]
      /\ cur' \in [Procs -> CallType]
      /\ \A q \in Procs \ {p} : cur'[q] = cur[q]
  BY <1>3, <1>5 DEF Types
<1>7. /\ cur'[p].op = cur[p].op /\ cur'[p].id = cur[p].id /\ cur'[p].alone = cur[p].alone
      /\ cur'[p].n = cur[p].n /\ cur'[p].cut = cur[p].cut
      /\ cur'[p].in = in
  BY <1>1, <1>4, <1>6 DEF CallType
<1>8. QED
  BY <1>2, <1>6, <1>7 DEF in, m

\* A killed process has no call.
LEMMA KillIs ==
    ASSUME Types, NEW p \in Procs, Kill(p)
    PROVE  /\ cur' \in [Procs -> CallType]
           /\ at' \in [Procs -> {"idle", "fwrite", "fclose", "ftell", "fread"}]
           /\ cur'[p] = NoCall /\ cur'[p].op = "none" /\ at'[p] = "idle"
           /\ \A q \in Procs \ {p} : cur'[q] = cur[q] /\ at'[q] = at[q]
<1>1. << >> \in Seq(Byte) /\ 0 \in Byte
  BY EmptySeq, CallAssumption DEF Byte
<1>2. NoCall \in CallType /\ NoCall.op = "none"
  BY <1>1 DEF NoCall, CallType
<1>3. QED
  BY <1>2 DEF Kill, Types

\* The first state.
LEMMA InitTypes == Init => Types /\ Stages
<1> SUFFICES ASSUME Init PROVE Types /\ Stages
  OBVIOUS
<1>1. << >> \in Seq(Byte) /\ 0 \in Byte
  BY EmptySeq, CallAssumption DEF Byte
<1>2. NoCall \in CallType /\ NoCall.op = "none" /\ NoResult \in ResultType
  BY <1>1 DEF NoCall, CallType, NoResult, ResultType
<1>3. Types
  <2>1. exists \in BOOLEAN /\ full \in BOOLEAN /\ bytes \in Seq(Byte) /\ bytes = << >>
    BY <1>1 DEF Init
  <2>2. calls \in 0 .. MaxCalls /\ wsteps \in Nat
    BY CallAssumption DEF Init
  <2>3. /\ at \in [Procs -> {"idle", "fwrite", "fclose", "ftell", "fread"}]
        /\ cur \in [Procs -> CallType] /\ last \in [Procs -> ResultType]
    BY <1>2 DEF Init
  <2>4. QED
    BY <2>1, <2>2, <2>3 DEF Types
<1>4. Stages
  BY <1>2 DEF Init, Stages, StageOf, Idle
<1>5. QED
  BY <1>3, <1>4

\* The count of the steps of io_write_all never falls.
LEMMA WstepIs ==
    ASSUME Types, NEW p \in Procs, Wstep(p)
    PROVE  /\ wsteps' \in Nat /\ wsteps <= wsteps'
           /\ cur[p].op = "write" => wsteps' = wsteps + 1
           /\ cur[p].op # "write" => wsteps' = wsteps
BY DEF Types, Wstep, Truncates

\* Every step keeps the types.
LEMMA TypesNext ==
    ASSUME Types, Stages, [Next]_vars
    PROVE  Types'
<1> DEFINE Ats == {"idle", "fwrite", "fclose", "ftell", "fread"}
<1>1. ASSUME NEW p \in Procs, NEW op \in Ops, OpenFails(p, op) PROVE Types'
  <2>1. last' \in [Procs -> ResultType]
    BY <1>1, FailedIs
  <2>2. calls' \in 0 .. MaxCalls
    BY <1>1, CallAssumption DEF OpenFails, Types
  <2>3. UNCHANGED <<exists, bytes, full, wsteps, at, cur>>
    BY <1>1 DEF OpenFails, file
  <2>4. QED
    BY <2>1, <2>2, <2>3 DEF Types
<1>2. ASSUME NEW p \in Procs, NEW op \in Ops, NEW len \in Nat, Open(p, op, len) PROVE Types'
  <2>1. cur' \in [Procs -> CallType]
    BY <1>2, OpenedIs
  <2>2. /\ calls < MaxCalls /\ calls' = calls + 1
        /\ exists' = TRUE /\ UNCHANGED <<full, last>>
        /\ op = "write" => bytes' = << >> /\ wsteps' = wsteps + 1
        /\ op # "write" => bytes' = bytes /\ wsteps' = wsteps
        /\ at' = [at EXCEPT ![p] = IF op \in {"write", "append"} THEN "fwrite" ELSE "ftell"]
    BY <1>2, OpenedIs
  <2>3. calls' \in 0 .. MaxCalls /\ bytes' \in Seq(Byte) /\ wsteps' \in Nat
    <3>1. << >> \in Seq(Byte)
      BY EmptySeq
    <3>2. calls \in 0 .. MaxCalls /\ wsteps \in Nat /\ bytes \in Seq(Byte) /\ MaxCalls \in Nat
      BY CallAssumption DEF Types
    <3>3. calls' \in 0 .. MaxCalls /\ wsteps' \in Nat
      BY <2>2, <3>2
    <3>4. bytes' \in Seq(Byte)
      BY <2>2, <3>1, <3>2
    <3>5. QED
      BY <3>3, <3>4
  <2>4. at' \in [Procs -> Ats]
    BY <2>2 DEF Types
  <2>5. QED
    BY <2>1, <2>2, <2>3, <2>4 DEF Types
<1>3. ASSUME NEW p \in Procs, Fwrite(p) PROVE Types'
  <2>1. cur' \in [Procs -> CallType] /\ bytes' \in Seq(Byte)
    BY <1>3, FwriteIs
  <2>2. at' = [at EXCEPT ![p] = "fclose"] /\ UNCHANGED <<exists, full, calls, last>> /\ Wstep(p)
    BY <1>3 DEF Fwrite
  <2>2a. at' \in [Procs -> Ats] /\ wsteps' \in Nat
    BY <2>2, WstepIs DEF Types
  <2>3. exists
    BY <1>3 DEF Fwrite, Stages, StageOf, Idle
  <2>4. QED
    BY <2>1, <2>2, <2>2a, <2>3 DEF Types
<1>4. ASSUME NEW p \in Procs, FcloseWrite(p) PROVE Types'
  <2>1. bytes' \in Seq(Byte)
    BY <1>4, FcloseIs
  <2>2. PICK ret \in Int, len \in Nat : Return(p, Result(p, ret, len))
    <3>1. Len(cur[p].data) \in Nat
      BY LenProperties DEF Types, CallType
    <3>2. QED
      BY <1>4, <3>1 DEF FcloseWrite
  <2>3. /\ cur' \in [Procs -> CallType] /\ last' \in [Procs -> ResultType]
        /\ at' \in [Procs -> Ats]
    BY <2>2, ResultIs, ReturnIs
  <2>4. wsteps' \in Nat /\ UNCHANGED <<exists, full, calls>> /\ exists
    BY <1>4 DEF FcloseWrite, Wstep, Types, Stages, StageOf, Idle
  <2>5. QED
    BY <2>1, <2>3, <2>4 DEF Types
<1>5. ASSUME NEW p \in Procs, Ftell(p) PROVE Types'
  <2>1. UNCHANGED <<exists, bytes, full, calls, wsteps>>
    BY <1>5 DEF Ftell, file
  <2>2. CASE cur[p].op = "size"
    <3>1. Len(bytes) \in Int /\ 0 \in Nat
      BY LenProperties DEF Types
    <3>2. Return(p, Result(p, Len(bytes), 0))
      BY <1>5, <2>2 DEF Ftell
    <3>3. /\ cur' \in [Procs -> CallType] /\ last' \in [Procs -> ResultType]
          /\ at' \in [Procs -> Ats]
      BY <3>1, <3>2, ResultIs, ReturnIs
    <3>4. QED
      BY <2>1, <3>3 DEF Types
  <2>3. CASE cur[p].op # "size"
    <3>1. cur' \in [Procs -> CallType] /\ at' = [at EXCEPT ![p] = "fread"] /\ last' = last
      BY <1>5, <2>3, FtellIs
    <3>2. QED
      BY <2>1, <3>1 DEF Types
  <2>4. QED
    BY <2>2, <2>3
<1>6. ASSUME NEW p \in Procs, AllocFails(p) PROVE Types'
  <2>1. /\ cur' \in [Procs -> CallType] /\ last' \in [Procs -> ResultType]
        /\ at' \in [Procs -> Ats]
    BY <1>6, ResultIs, ReturnIs DEF AllocFails
  <2>2. QED
    BY <1>6, <2>1 DEF AllocFails, file, Types
<1>7. ASSUME NEW p \in Procs, Fread(p) PROVE Types'
  <2>1. cur' \in [Procs -> CallType]
    BY <1>7, FreadIs
  <2>2. QED
    BY <1>7, <2>1 DEF Fread, file, Types
<1>8. ASSUME NEW p \in Procs, FcloseRead(p) PROVE Types'
  <2>1. cur[p].n \in Nat /\ 0 \in Int
    BY DEF Types, CallType
  <2>2. /\ cur' \in [Procs -> CallType] /\ last' \in [Procs -> ResultType]
        /\ at' \in [Procs -> Ats]
    BY <1>8, <2>1, ResultIs, ReturnIs DEF FcloseRead
  <2>3. QED
    BY <1>8, <2>2 DEF FcloseRead, file, Types
<1>9. ASSUME NEW p \in Procs, Kill(p) PROVE Types'
  <2>1. cur' \in [Procs -> CallType] /\ at' \in [Procs -> Ats]
    BY <1>9, KillIs
  <2>2. QED
    BY <1>9, <2>1 DEF Kill, file, Types
<1>10. CASE DiskFills
  BY <1>10 DEF DiskFills, file, Types
<1>11. CASE UNCHANGED vars
  BY <1>11 DEF vars, Types
<1>12. QED
  <2>1. Lengths \subseteq Nat /\ {"write", "append"} \subseteq Ops /\ {"read", "size"} \subseteq Ops
    BY LenAssumption DEF Ops
  <2>2. 0 \in Nat
    OBVIOUS
  <2>3. QED
    BY <1>1, <1>2, <1>3, <1>4, <1>5, <1>6, <1>7, <1>8, <1>9, <1>10, <1>11, <2>1, <2>2 DEF Next

-----------------------------------------------------------------------------
(***************************************************************************)
(* The shapes of a step, as the proofs below use them.                     *)
(***************************************************************************)
\* Nothing happens to the file or to an open call.
Quiet ==
    /\ UNCHANGED <<exists, bytes, wsteps, at, cur>>
    /\ full => full'
    /\ calls' \in {calls, calls + 1}
    /\ \A q \in Procs : \/ last'[q] = last[q]
                        \/ last'[q].ret = -1 /\ last'[q].id = calls + 1 /\ calls' = calls + 1

\* p's call is over, without having written to the file.
Ended(p) ==
    /\ UNCHANGED <<exists, bytes, full, calls, wsteps>>
    /\ cur'[p].op = "none" /\ at'[p] = "idle" /\ ~Idle(p)
    /\ \A q \in Procs \ {p} : cur'[q] = cur[q] /\ at'[q] = at[q] /\ last'[q] = last[q]
    /\ \/ last'[p] = last[p]
       \/ /\ last'[p].op = cur[p].op /\ last'[p].id = cur[p].id
          /\ last'[p].in = cur[p].in /\ last'[p].cut = cur[p].cut
          /\ cur[p].op \in {"read", "size"}
          /\ (cur[p].op = "read" /\ last'[p].ret = 0)
                => at[p] = "fclose" /\ last'[p].len = cur[p].n

\* The shapes.
Shape ==
    \/ Quiet
    \/ \E p \in Procs, op \in Ops, len \in Nat : Open(p, op, len)
    \/ \E p \in Procs : \/ Fwrite(p) \/ FcloseWrite(p) \/ Ended(p) \/ Fread(p)
                        \/ Ftell(p) /\ cur[p].op # "size"

\* Every step has one.
LEMMA StepShape ==
    ASSUME Types, Stages, [Next]_vars
    PROVE  Shape
<1>1. ASSUME NEW p \in Procs, NEW op \in Ops, OpenFails(p, op) PROVE Quiet
  <2>1. /\ last'[p].id = calls + 1 /\ last'[p].ret = -1
        /\ \A q \in Procs \ {p} : last'[q] = last[q]
    BY <1>1, FailedIs
  <2>2. UNCHANGED <<exists, bytes, full, wsteps, at, cur>> /\ calls' = calls + 1
    BY <1>1 DEF OpenFails, file
  <2>3. QED
    BY <2>1, <2>2 DEF Quiet
<1>2. ASSUME NEW p \in Procs, Ftell(p), cur[p].op = "size" PROVE Ended(p)
  <2>1. Len(bytes) \in Int /\ 0 \in Nat
    BY LenProperties DEF Types
  <2>2. /\ Return(p, Result(p, Len(bytes), 0)) /\ at[p] = "ftell"
        /\ UNCHANGED <<exists, bytes, full, calls, wsteps>>
    BY <1>2 DEF Ftell, file
  <2>3. /\ cur'[p].op = "none" /\ at'[p] = "idle" /\ last'[p] = Result(p, Len(bytes), 0)
        /\ \A q \in Procs \ {p} : cur'[q] = cur[q] /\ last'[q] = last[q] /\ at'[q] = at[q]
    BY <2>1, <2>2, ResultIs, ReturnIs
  <2>4. /\ last'[p].op = cur[p].op /\ last'[p].id = cur[p].id
        /\ last'[p].in = cur[p].in /\ last'[p].cut = cur[p].cut
    BY <2>1, <2>3, ResultIs
  <2>5. QED
    BY <1>2, <2>2, <2>3, <2>4 DEF Ended, Idle
<1>3. ASSUME NEW p \in Procs, AllocFails(p) PROVE Ended(p)
  <2>1. /\ Return(p, Result(p, -1, 0)) /\ at[p] = "fread" /\ cur[p].op = "read"
        /\ UNCHANGED <<exists, bytes, full, calls, wsteps>>
    BY <1>3 DEF AllocFails, file, Stages, StageOf
  <2>2. /\ cur'[p].op = "none" /\ at'[p] = "idle" /\ last'[p] = Result(p, -1, 0)
        /\ \A q \in Procs \ {p} : cur'[q] = cur[q] /\ last'[q] = last[q] /\ at'[q] = at[q]
    BY <2>1, ResultIs, ReturnIs
  <2>3. /\ last'[p].op = cur[p].op /\ last'[p].id = cur[p].id /\ last'[p].ret = -1
        /\ last'[p].in = cur[p].in /\ last'[p].cut = cur[p].cut
    BY <2>2, ResultIs
  <2>4. QED
    BY <2>1, <2>2, <2>3 DEF Ended, Idle
<1>4. ASSUME NEW p \in Procs, FcloseRead(p) PROVE Ended(p)
  <2>1. cur[p].n \in Nat /\ 0 \in Int
    BY DEF Types, CallType
  <2>2. /\ Return(p, Result(p, 0, cur[p].n)) /\ at[p] = "fclose" /\ cur[p].op = "read"
        /\ UNCHANGED <<exists, bytes, full, calls, wsteps>>
    BY <1>4 DEF FcloseRead, file
  <2>3. /\ cur'[p].op = "none" /\ at'[p] = "idle" /\ last'[p] = Result(p, 0, cur[p].n)
        /\ \A q \in Procs \ {p} : cur'[q] = cur[q] /\ last'[q] = last[q] /\ at'[q] = at[q]
    BY <2>1, <2>2, ResultIs, ReturnIs
  <2>4. /\ last'[p].op = cur[p].op /\ last'[p].id = cur[p].id /\ last'[p].len = cur[p].n
        /\ last'[p].in = cur[p].in /\ last'[p].cut = cur[p].cut
    BY <2>1, <2>3, ResultIs
  <2>5. QED
    BY <2>2, <2>3, <2>4 DEF Ended, Idle
<1>5. ASSUME NEW p \in Procs, Kill(p) PROVE Ended(p)
  <2>1. /\ cur'[p].op = "none" /\ at'[p] = "idle"
        /\ \A q \in Procs \ {p} : cur'[q] = cur[q] /\ at'[q] = at[q]
    BY <1>5, KillIs
  <2>2. UNCHANGED <<exists, bytes, full, calls, wsteps, last>> /\ ~Idle(p)
    BY <1>5 DEF Kill, file
  <2>3. QED
    BY <2>1, <2>2 DEF Ended
<1>6. CASE DiskFills
  BY <1>6 DEF DiskFills, file, Quiet, Shape
<1>7. CASE UNCHANGED vars
  BY <1>7 DEF vars, Quiet, Shape
<1>8. QED
  <2>1. Lengths \subseteq Nat /\ {"write", "append"} \subseteq Ops /\ {"read", "size"} \subseteq Ops
    BY LenAssumption DEF Ops
  <2>2. 0 \in Nat
    OBVIOUS
  <2>3. QED
    BY <1>1, <1>2, <1>3, <1>4, <1>5, <1>6, <1>7, <2>1, <2>2 DEF Next, Shape

\* Facts of fclose on a written file.
LEMMA FcloseEnds ==
    ASSUME Types, Stages, NEW p \in Procs, FcloseWrite(p)
    PROVE  /\ UNCHANGED <<exists, full, calls>> /\ Wstep(p)
           /\ at[p] = "fclose" /\ Writes(p)
           /\ cur'[p].op = "none" /\ at'[p] = "idle"
           /\ \A q \in Procs \ {p} : cur'[q] = cur[q] /\ at'[q] = at[q] /\ last'[q] = last[q]
           /\ last'[p].op = cur[p].op /\ last'[p].id = cur[p].id
           /\ last'[p].in = cur[p].in /\ last'[p].cut = cur[p].cut
           /\ last'[p].len = Len(cur[p].data)
           /\ last'[p].ret = IF cur[p].n # Len(cur[p].data) THEN -1 ELSE 0
<1> DEFINE len == Len(cur[p].data)
           ret == IF cur[p].n # len THEN -1 ELSE 0
<1>1. len \in Nat /\ ret \in Int
  BY LenProperties DEF Types, CallType
<1>2. /\ UNCHANGED <<exists, full, calls>> /\ Wstep(p)
      /\ at[p] = "fclose" /\ Writes(p)
      /\ Return(p, Result(p, ret, len))
  BY DEF FcloseWrite, Writes
<1> HIDE DEF len, ret
<1>3. /\ cur'[p].op = "none" /\ at'[p] = "idle" /\ last'[p] = Result(p, ret, len)
      /\ \A q \in Procs \ {p} : cur'[q] = cur[q] /\ last'[q] = last[q] /\ at'[q] = at[q]
  BY <1>1, <1>2, ResultIs, ReturnIs
<1>4. /\ last'[p].op = cur[p].op /\ last'[p].id = cur[p].id
      /\ last'[p].in = cur[p].in /\ last'[p].cut = cur[p].cut
      /\ last'[p].len = len /\ last'[p].ret = ret
  BY <1>1, <1>3, ResultIs
<1>5. QED
  BY <1>2, <1>3, <1>4 DEF len, ret

\* Every step keeps each process's operation and stage in agreement.
LEMMA StagesNext ==
    ASSUME Types, Stages, [Next]_vars
    PROVE  Stages'
<1> DEFINE Same(q) == cur'[q].op = cur[q].op /\ at'[q] = at[q]
<1>0. /\ at \in [Procs -> {"idle", "fwrite", "fclose", "ftell", "fread"}]
      /\ wsteps \in Nat /\ wsteps' \in Nat
  BY TypesNext DEF Types
<1>a. ASSUME NEW q \in Procs, Same(q), exists => exists', wsteps' >= wsteps PROVE StageOf(q)'
  BY <1>a, <1>0 DEF Stages, StageOf, Idle, Writes
<1>b. ASSUME NEW p \in Procs, cur'[p].op = "none", at'[p] = "idle"
      PROVE  StageOf(p)'
  BY <1>b DEF StageOf, Idle, Writes
<1>1. CASE Quiet
  BY <1>1, <1>0, <1>a DEF Stages, Quiet
<1>2. ASSUME NEW p \in Procs, NEW op \in Ops, NEW len \in Nat, Open(p, op, len) PROVE Stages'
  <2>1. /\ cur'[p].op = op /\ exists' = TRUE
        /\ op = "write" => wsteps' = wsteps + 1
        /\ op # "write" => wsteps' = wsteps
        /\ at' = [at EXCEPT ![p] = IF op \in {"write", "append"} THEN "fwrite" ELSE "ftell"]
        /\ \A q \in Procs \ {p} : cur'[q].op = cur[q].op
    BY <1>2, OpenedIs
  <2>2. StageOf(p)'
    BY <2>1, <1>0 DEF StageOf, Idle, Writes, Ops
  <2>3. wsteps' >= wsteps
    BY <2>1, <1>0
  <2>4. QED
    BY <2>1, <2>2, <2>3, <1>0, <1>a DEF Stages
<1>3. ASSUME NEW p \in Procs, Fwrite(p) PROVE Stages'
  <2>1. cur'[p].op = cur[p].op /\ \A q \in Procs \ {p} : cur'[q] = cur[q]
    BY <1>3, FwriteIs
  <2>2. at[p] = "fwrite" /\ at' = [at EXCEPT ![p] = "fclose"] /\ exists' = exists /\ Wstep(p)
    BY <1>3 DEF Fwrite
  <2>3. wsteps' >= wsteps
    BY <2>2, <1>0, WstepIs
  <2>4. StageOf(p)
    BY DEF Stages
  <2>5. StageOf(p)'
    BY <2>1, <2>2, <2>3, <2>4, <1>0 DEF StageOf, Idle, Writes
  <2>6. QED
    BY <2>1, <2>2, <2>3, <2>5, <1>0, <1>a DEF Stages
<1>4. ASSUME NEW p \in Procs, FcloseWrite(p) PROVE Stages'
  <2>1. /\ exists' = exists /\ Wstep(p)
        /\ cur'[p].op = "none" /\ at'[p] = "idle"
        /\ \A q \in Procs \ {p} : cur'[q] = cur[q] /\ at'[q] = at[q]
    BY <1>4, FcloseEnds
  <2>2. wsteps' >= wsteps
    BY <2>1, <1>0, WstepIs
  <2>3. QED
    BY <2>1, <2>2, <1>a, <1>b DEF Stages
<1>5. ASSUME NEW p \in Procs, Ftell(p), cur[p].op # "size" PROVE Stages'
  <2>1. UNCHANGED <<exists, wsteps>> /\ at[p] = "ftell"
    BY <1>5 DEF Ftell, file
  <2>2. /\ cur'[p].op = cur[p].op /\ at' = [at EXCEPT ![p] = "fread"]
        /\ \A q \in Procs \ {p} : cur'[q] = cur[q]
    BY <1>5, FtellIs
  <2>3. StageOf(p)
    BY DEF Stages
  <2>4. StageOf(p)'
    BY <1>5, <2>1, <2>2, <2>3, <1>0 DEF StageOf, Idle, Writes
  <2>5. QED
    BY <2>1, <2>2, <2>4, <1>0, <1>a DEF Stages
<1>6. ASSUME NEW p \in Procs, Fread(p) PROVE Stages'
  <2>1. cur'[p].op = cur[p].op /\ \A q \in Procs \ {p} : cur'[q] = cur[q]
    BY <1>6, FreadIs
  <2>2. /\ at[p] = "fread" /\ at' = [at EXCEPT ![p] = "fclose"]
        /\ UNCHANGED <<exists, wsteps>>
    BY <1>6 DEF Fread, file
  <2>3. StageOf(p)
    BY DEF Stages
  <2>4. StageOf(p)'
    BY <2>1, <2>2, <2>3, <1>0 DEF StageOf, Idle, Writes
  <2>5. QED
    BY <2>1, <2>2, <2>4, <1>0, <1>a DEF Stages
<1>7. ASSUME NEW p \in Procs, Ended(p) PROVE Stages'
  BY <1>7, <1>0, <1>a, <1>b DEF Stages, Ended
<1>8. QED
  BY <1>1, <1>2, <1>3, <1>4, <1>5, <1>6, <1>7, StepShape DEF Shape

-----------------------------------------------------------------------------
(***************************************************************************)
(* What a call writes, and that the file only grows while nobody           *)
(* truncates it.                                                           *)
(***************************************************************************)
\* A call's data, and what its stream still holds of it, is its number.
BlockOf(p) ==
    Writes(p) =>
        /\ \A i \in 1 .. Len(cur[p].data) : cur[p].data[i] = cur[p].id
        /\ \A i \in 1 .. Len(cur[p].buf) : cur[p].buf[i] = cur[p].id

Blocks == \A p \in Procs : BlockOf(p)

\* Every step keeps the blocks.
LEMMA BlocksNext ==
    ASSUME Types, Stages, Blocks, [Next]_vars
    PROVE  Blocks'
<1>a. ASSUME NEW q \in Procs, cur'[q].op = cur[q].op, cur'[q].id = cur[q].id,
             cur'[q].data = cur[q].data, cur'[q].buf = cur[q].buf
      PROVE  BlockOf(q)'
  BY <1>a DEF Blocks, BlockOf, Writes
<1>b. ASSUME NEW p \in Procs, cur'[p].op = "none" PROVE BlockOf(p)'
  BY <1>b DEF BlockOf, Writes
<1>1. CASE Quiet
  BY <1>1, <1>a DEF Blocks, Quiet
<1>2. ASSUME NEW p \in Procs, NEW op \in Ops, NEW len \in Nat, Open(p, op, len) PROVE Blocks'
  <2>0. cur'[p].id = calls + 1 /\ cur'[p].buf = << >>
    BY <1>2, OpenedIs
  <2>1. ASSUME NEW q \in Procs \ {p}
        PROVE  /\ cur'[q].op = cur[q].op /\ cur'[q].id = cur[q].id
               /\ cur'[q].data = cur[q].data /\ cur'[q].buf = cur[q].buf
    <3>1. cur'[q].op = cur[q].op
      BY <1>2, OpenedIs
    <3>2. cur'[q].id = cur[q].id
      BY <1>2, OpenedIs
    <3>3. cur'[q].data = cur[q].data
      BY <1>2, OpenedIs
    <3>4. cur'[q].buf = cur[q].buf
      BY <1>2, OpenedIs
    <3>5. QED
      BY <3>1, <3>2, <3>3, <3>4
  <2>2. \A i \in 1 .. Len(cur'[p].data) : cur'[p].data[i] = calls + 1
    <3>1. Len(cur'[p].data) = len
      BY <1>2, OpenedIs
    <3>2. \A i \in 1 .. len : cur'[p].data[i] = calls + 1
      BY <1>2, OpenedIs
    <3>3. QED
      BY <3>1, <3>2
  <2>3. \A i \in 1 .. Len(<< >>) : FALSE
    <3>1. Len(<< >>) = 0
      BY EmptySeq
    <3>2. QED
      BY <3>1
  <2>4. BlockOf(p)'
    <3>1. \A i \in 1 .. Len(cur'[p].data) : cur'[p].data[i] = cur'[p].id
      BY <2>0, <2>2
    <3>2. \A i \in 1 .. Len(cur'[p].buf) : cur'[p].buf[i] = cur'[p].id
      BY <2>0, <2>3
    <3>3. QED
      BY <3>1, <3>2 DEF BlockOf
  <2>5. QED
    BY <2>1, <2>4, <1>a DEF Blocks
<1>3. ASSUME NEW p \in Procs, Fwrite(p) PROVE Blocks'
  <2> DEFINE d == cur[p].data
  <2>1. /\ cur'[p].op = cur[p].op /\ cur'[p].id = cur[p].id /\ cur'[p].data = d
        /\ \A q \in Procs \ {p} : cur'[q] = cur[q]
    BY <1>3, FwriteIs
  <2>2. \/ cur'[p].buf = d \/ cur'[p].buf = << >>
        \/ \E k \in 0 .. Len(d) : cur'[p].buf = Rest(d, k)
    BY <1>3, FwriteIs
  <2>3. Writes(p) /\ d \in Seq(Byte) /\ Len(d) \in Nat
    BY <1>3, LenProperties DEF Fwrite, Types, CallType, Stages, StageOf
  <2>4. \A i \in 1 .. Len(d) : d[i] = cur[p].id
    BY <2>3 DEF Blocks, BlockOf
  <2>5. \A i \in 1 .. Len(cur'[p].buf) : cur'[p].buf[i] = cur[p].id
    <3>1. CASE cur'[p].buf = d
      BY <3>1, <2>4
    <3>2. CASE cur'[p].buf = << >>
      BY <3>2, EmptySeq
    <3>3. ASSUME NEW k \in 0 .. Len(d), cur'[p].buf = Rest(d, k)
          PROVE  \A i \in 1 .. Len(cur'[p].buf) : cur'[p].buf[i] = cur[p].id
      <4>1. /\ Len(Rest(d, k)) = Len(d) - k
            /\ \A i \in 1 .. Len(d) - k : Rest(d, k)[i] = d[k + i]
        BY <2>3, RestIs
      <4>2. \A i \in 1 .. Len(d) - k : k + i \in 1 .. Len(d)
        BY <2>3
      <4>3. QED
        BY <3>3, <4>1, <4>2, <2>4
    <3>4. QED
      BY <2>2, <3>1, <3>2, <3>3
  <2>6. BlockOf(p)'
    BY <2>1, <2>4, <2>5 DEF BlockOf
  <2>7. QED
    BY <2>1, <2>6, <1>a DEF Blocks
<1>4. ASSUME NEW p \in Procs, FcloseWrite(p) PROVE Blocks'
  <2>1. cur'[p].op = "none" /\ \A q \in Procs \ {p} : cur'[q] = cur[q]
    BY <1>4, FcloseEnds
  <2>2. QED
    BY <2>1, <1>a, <1>b DEF Blocks
<1>5. ASSUME NEW p \in Procs, Ftell(p), cur[p].op # "size" PROVE Blocks'
  <2>1. /\ cur'[p].op = cur[p].op /\ ~Writes(p)
        /\ \A q \in Procs \ {p} : cur'[q] = cur[q]
    BY <1>5, FtellIs DEF Ftell, Stages, StageOf, Writes
  <2>2. BlockOf(p)'
    BY <2>1 DEF BlockOf, Writes
  <2>3. QED
    BY <2>1, <2>2, <1>a DEF Blocks
<1>6. ASSUME NEW p \in Procs, Fread(p) PROVE Blocks'
  <2>1. cur'[p].op = cur[p].op /\ \A q \in Procs \ {p} : cur'[q] = cur[q]
    BY <1>6, FreadIs
  <2>2. ~Writes(p)
    BY <1>6 DEF Fread, Stages, StageOf, Writes
  <2>3. BlockOf(p)'
    BY <2>1, <2>2 DEF BlockOf, Writes
  <2>4. QED
    BY <2>1, <2>3, <1>a DEF Blocks
<1>7. ASSUME NEW p \in Procs, Ended(p) PROVE Blocks'
  BY <1>7, <1>a, <1>b DEF Blocks, Ended
<1>8. QED
  BY <1>1, <1>2, <1>3, <1>4, <1>5, <1>6, <1>7, StepShape DEF Shape

\* fwrite and fclose write a row of the call's bytes, or leave the file alone.
LEMMA WriteIs ==
    ASSUME Types, Stages, Blocks, NEW p \in Procs, Fwrite(p) \/ FcloseWrite(p)
    PROVE  \/ bytes' = bytes
           \/ \E d \in Seq(Byte) :
                 /\ bytes' = Written(bytes, Offset(p), d)
                 /\ \A i \in 1 .. Len(d) : d[i] = cur[p].id
<1>1. CASE Fwrite(p)
  <2> DEFINE d == cur[p].data
  <2>1. Writes(p) /\ d \in Seq(Byte) /\ Len(d) \in Nat
    BY <1>1, LenProperties DEF Fwrite, Types, CallType, Stages, StageOf
  <2>2. \A i \in 1 .. Len(d) : d[i] = cur[p].id
    BY <2>1 DEF Blocks, BlockOf
  <2>3. \/ bytes' = bytes
        \/ \E k \in 0 .. Len(d) : \E j \in 0 .. k : bytes' = Written(bytes, Offset(p), First(d, j))
    BY <1>1, FwriteIs
  <2>4. ASSUME NEW k \in 0 .. Len(d), NEW j \in 0 .. k, bytes' = Written(bytes, Offset(p), First(d, j))
        PROVE  \E e \in Seq(Byte) : /\ bytes' = Written(bytes, Offset(p), e)
                                    /\ \A i \in 1 .. Len(e) : e[i] = cur[p].id
    <3>1. j \in 0 .. Len(d)
      BY <2>1
    <3>2. /\ First(d, j) \in Seq(Byte) /\ Len(First(d, j)) = j
          /\ \A i \in 1 .. j : First(d, j)[i] = d[i]
      BY <3>1, <2>1, FirstIs
    <3>3. \A i \in 1 .. j : i \in 1 .. Len(d)
      BY <3>1, <2>1
    <3>4. \A i \in 1 .. Len(First(d, j)) : First(d, j)[i] = cur[p].id
      BY <3>2, <3>3, <2>2
    <3>5. QED
      BY <2>4, <3>2, <3>4
  <2>5. QED
    BY <2>3, <2>4
<1>2. CASE FcloseWrite(p)
  <2> DEFINE d == cur[p].buf
  <2>1. Writes(p) /\ d \in Seq(Byte) /\ Len(d) \in Nat
    BY <1>2, LenProperties DEF FcloseWrite, Writes, Types, CallType
  <2>2. \A i \in 1 .. Len(d) : d[i] = cur[p].id
    BY <2>1 DEF Blocks, BlockOf
  <2>3. PICK j \in 0 .. Len(d) : bytes' = Written(bytes, Offset(p), First(d, j))
    BY <1>2, FcloseIs
  <2>4. /\ First(d, j) \in Seq(Byte) /\ Len(First(d, j)) = j
        /\ \A i \in 1 .. j : First(d, j)[i] = d[i]
    BY <2>1, FirstIs
  <2>5. \A i \in 1 .. j : i \in 1 .. Len(d)
    BY <2>1
  <2>6. \A i \in 1 .. Len(First(d, j)) : First(d, j)[i] = cur[p].id
    BY <2>2, <2>4, <2>5
  <2>7. QED
    BY <2>3, <2>4, <2>6
<1>3. QED
  BY <1>1, <1>2

\* As long as nobody takes a step of io_write_all, the file only grows.
LEMMA FileGrows ==
    ASSUME Types, Stages, Blocks, [Next]_vars
    PROVE  /\ wsteps <= wsteps'
           /\ wsteps' = wsteps =>
                /\ Len(bytes) <= Len(bytes')
                /\ \A i \in 1 .. Len(bytes) : bytes'[i] = bytes[i]
<1>0. wsteps \in Nat /\ bytes \in Seq(Byte) /\ Len(bytes) \in Nat /\ Hole \in Byte
  BY LenProperties, CallAssumption DEF Types, Byte, Hole
<1>1. CASE Quiet
  BY <1>0, <1>1 DEF Quiet
<1>2. ASSUME NEW p \in Procs, NEW op \in Ops, NEW len \in Nat, Open(p, op, len)
      PROVE  wsteps <= wsteps' /\ (wsteps' = wsteps => bytes' = bytes)
  <2>1. /\ op = "write" => bytes' = << >> /\ wsteps' = wsteps + 1
        /\ op # "write" => bytes' = bytes /\ wsteps' = wsteps
    BY <1>2, OpenedIs
  <2>2. QED
    BY <2>1, <1>0
<1>3. ASSUME NEW p \in Procs, Fwrite(p) \/ FcloseWrite(p)
      PROVE  /\ wsteps <= wsteps'
             /\ wsteps' = wsteps =>
                  /\ Len(bytes) <= Len(bytes')
                  /\ \A i \in 1 .. Len(bytes) : bytes'[i] = bytes[i]
  <2>1. Wstep(p) /\ Writes(p)
    BY <1>3 DEF Fwrite, FcloseWrite, Stages, StageOf, Writes
  <2>2. /\ wsteps <= wsteps'
        /\ cur[p].op = "write" => wsteps' = wsteps + 1
        /\ cur[p].op = "append" => wsteps' = wsteps
    BY <2>1, WstepIs
  <2>3. CASE bytes' = bytes
    BY <2>2, <2>3, <1>0
  <2>4. CASE cur[p].op = "write"
    BY <2>2, <2>4, <1>0
  <2>5. ASSUME cur[p].op = "append", NEW d \in Seq(Byte), bytes' = Written(bytes, Offset(p), d)
        PROVE  /\ Len(bytes) <= Len(bytes')
               /\ \A i \in 1 .. Len(bytes) : bytes'[i] = bytes[i]
    <3>1. bytes' = bytes \o d
      BY <2>5, <1>0, WrittenAtEnd DEF Offset
    <3>2. Len(d) \in Nat
      BY LenProperties
    <3>3. /\ Len(bytes \o d) = Len(bytes) + Len(d)
          /\ \A i \in 1 .. Len(bytes) + Len(d) :
                (bytes \o d)[i] = IF i <= Len(bytes) THEN bytes[i] ELSE d[i - Len(bytes)]
      BY <1>0, ConcatProperties
    <3>4. \A i \in 1 .. Len(bytes) : i \in 1 .. Len(bytes) + Len(d) /\ i <= Len(bytes)
      BY <1>0, <3>2
    <3>5. QED
      BY <3>1, <3>2, <3>3, <3>4, <1>0
  <2>6. QED
    BY <2>1, <2>2, <2>3, <2>4, <2>5, <1>3, WriteIs DEF Writes
<1>4. ASSUME NEW p \in Procs, Ftell(p) \/ Fread(p) \/ Ended(p)
      PROVE  wsteps' = wsteps /\ bytes' = bytes
  BY <1>4 DEF Ftell, Fread, Ended, file
<1>5. QED
  BY <1>0, <1>1, <1>2, <1>3, <1>4, StepShape DEF Shape

-----------------------------------------------------------------------------
(***************************************************************************)
(* Every call has a number of its own.                                     *)
(***************************************************************************)
\* No byte and no result is of a call that has not begun.
Begun == /\ \A i \in 1 .. Len(bytes) : bytes[i] <= calls
         /\ \A p \in Procs : last[p].id <= calls

\* The number of an open call is its own: no other open call and no result has it.
OwnId(p) ==
    ~Idle(p) =>
        /\ cur[p].id \in 1 .. calls
        /\ \A q \in Procs : /\ (q # p /\ ~Idle(q)) => cur[q].id # cur[p].id
                            /\ last[q].id # cur[p].id

Ids == Begun /\ \A p \in Procs : OwnId(p)

\* Every step keeps the numbers apart.
LEMMA IdsNext ==
    ASSUME Types, Stages, Blocks, Ids, [Next]_vars
    PROVE  Ids'
<1>0. /\ calls \in Nat /\ bytes \in Seq(Byte) /\ Len(bytes) \in Nat /\ Hole \in Byte
      /\ at \in [Procs -> {"idle", "fwrite", "fclose", "ftell", "fread"}]
      /\ \A q \in Procs : cur[q].id \in Nat /\ last[q].id \in Nat
  BY LenProperties, CallAssumption DEF Types, CallType, ResultType, Byte, Hole
<1>0b. /\ bytes' \in Seq(Byte) /\ Len(bytes') \in Nat
  BY TypesNext, LenProperties DEF Types
<1>0c. ASSUME NEW i \in 1 .. Len(bytes) PROVE bytes[i] \in Nat /\ bytes[i] <= calls
  <2>1. bytes[i] \in Byte
    BY <1>0, ElementOfSeq
  <2>2. QED
    BY <2>1, CallAssumption DEF Ids, Begun, Byte
<1>1. CASE Quiet
  <2>1. Begun'
    <3>1. bytes' = bytes /\ (calls' = calls \/ calls' = calls + 1)
      BY <1>1 DEF Quiet
    <3>2. \A q \in Procs : last'[q].id <= calls'
      BY <1>0, <1>1, <3>1 DEF Quiet, Ids, Begun
    <3>3. \A i \in 1 .. Len(bytes) : bytes[i] <= calls'
      BY <3>1, <1>0, <1>0c
    <3>4. QED
      BY <3>1, <3>2, <3>3 DEF Begun
  <2>2. ASSUME NEW p \in Procs PROVE OwnId(p)'
    BY <1>0, <1>1 DEF Quiet, Ids, OwnId, Idle
  <2>3. QED
    BY <2>1, <2>2 DEF Ids
<1>2. ASSUME NEW p \in Procs, NEW op \in Ops, NEW len \in Nat, Open(p, op, len) PROVE Ids'
  <2>1. cur'[p].id = calls + 1 /\ calls' = calls + 1 /\ last' = last /\ Idle(p)
    BY <1>2, OpenedIs
  <2>2. \A q \in Procs \ {p} : cur'[q].id = cur[q].id
    BY <1>2, OpenedIs
  <2>3. \A q \in Procs \ {p} : at'[q] = at[q]
    <3>1. at' = [at EXCEPT ![p] = IF op \in {"write", "append"} THEN "fwrite" ELSE "ftell"]
      BY <1>2, OpenedIs
    <3>2. QED
      BY <3>1, <1>0
  <2>4. Begun'
    <3>1. bytes' = bytes \/ bytes' = << >>
      BY <1>2, OpenedIs
    <3>2. Len(<< >>) = 0
      BY EmptySeq
    <3>3. \A i \in 1 .. Len(bytes) : bytes[i] \in Nat /\ bytes[i] <= calls
      BY <1>0c
    <3>4. \A i \in 1 .. Len(bytes') : bytes'[i] <= calls + 1
      <4>1. CASE bytes' = bytes
        BY <4>1, <3>3, <1>0
      <4>2. CASE bytes' = << >>
        BY <4>2, <3>2
      <4>3. QED
        BY <3>1, <4>1, <4>2
    <3>5. \A q \in Procs : last[q].id <= calls + 1
      BY <1>0 DEF Ids, Begun
    <3>6. QED
      BY <2>1, <3>4, <3>5 DEF Begun
  <2>5. \A q \in Procs : last[q].id # calls + 1 /\ (~Idle(q) => cur[q].id # calls + 1)
    BY <1>0 DEF Ids, Begun, OwnId
  <2>6. OwnId(p)'
    BY <2>1, <2>2, <2>3, <2>5, <1>0 DEF OwnId, Idle
  <2>7. ASSUME NEW q \in Procs \ {p} PROVE OwnId(q)'
    <3>1. OwnId(q)
      BY DEF Ids
    <3>2. CASE Idle(q)
      BY <2>3, <3>2 DEF OwnId, Idle
    <3>3. CASE ~Idle(q)
      BY <2>1, <2>2, <2>3, <2>5, <3>1, <3>3, <1>0 DEF OwnId, Idle
    <3>4. QED
      BY <3>2, <3>3
  <2>8. QED
    BY <2>4, <2>6, <2>7 DEF Ids
<1>3. ASSUME NEW p \in Procs, Fwrite(p) \/ FcloseWrite(p) PROVE Begun'
  <2>1. calls' = calls /\ ~Idle(p)
    BY <1>3 DEF Fwrite, FcloseWrite, Idle
  <2>2. cur[p].id \in 1 .. calls
    BY <2>1 DEF Ids, OwnId
  <2>3. \A i \in 1 .. Len(bytes') : bytes'[i] <= calls
    <3>1. CASE bytes' = bytes
      BY <3>1 DEF Ids, Begun
    <3>2. ASSUME NEW d \in Seq(Byte), bytes' = Written(bytes, Offset(p), d),
                 \A i \in 1 .. Len(d) : d[i] = cur[p].id
          PROVE  \A i \in 1 .. Len(bytes') : bytes'[i] <= calls
      <4>1. Offset(p) \in Nat /\ Len(d) \in Nat
        BY <1>0, LenProperties DEF Offset, Types, CallType
      <4>2. \A i \in 1 .. Len(bytes') :
               bytes'[i] = IF i > Offset(p) /\ i <= Offset(p) + Len(d) THEN d[i - Offset(p)]
                           ELSE IF i <= Len(bytes) THEN bytes[i] ELSE Hole
        <5> DEFINE off == Offset(p)
                   g == Written(bytes, off, d)
        <5>1. off \in Nat
          BY <4>1
        <5> HIDE DEF off
        <5>2. \A i \in 1 .. Len(g) :
                 g[i] = IF i > off /\ i <= off + Len(d) THEN d[i - off]
                        ELSE IF i <= Len(bytes) THEN bytes[i] ELSE Hole
          BY <5>1, <1>0, WrittenIs
        <5>3. bytes' = g
          BY <3>2 DEF off
        <5> HIDE DEF g
        <5>4. QED
          BY <5>2, <5>3 DEF off
      <4>3. SUFFICES ASSUME NEW i \in 1 .. Len(bytes') PROVE bytes'[i] <= calls
        OBVIOUS
      <4>4. CASE i > Offset(p) /\ i <= Offset(p) + Len(d)
        <5>1. i - Offset(p) \in 1 .. Len(d)
          BY <4>1, <4>4, <1>0b
        <5>2. QED
          BY <4>2, <4>4, <5>1, <3>2, <2>2
      <4>5. CASE ~(i > Offset(p) /\ i <= Offset(p) + Len(d)) /\ i <= Len(bytes)
        BY <4>2, <4>5, <1>0 DEF Ids, Begun
      <4>6. CASE ~(i > Offset(p) /\ i <= Offset(p) + Len(d)) /\ ~(i <= Len(bytes))
        BY <4>2, <4>6, <1>0 DEF Hole
      <4>7. QED
        BY <4>4, <4>5, <4>6
    <3>3. QED
      BY <1>3, <3>1, <3>2, WriteIs
  <2>4. \A q \in Procs : last'[q].id <= calls
    <3>1. CASE Fwrite(p)
      BY <3>1 DEF Fwrite, Ids, Begun
    <3>2. CASE FcloseWrite(p)
      <4>1. last'[p].id = cur[p].id /\ \A q \in Procs \ {p} : last'[q] = last[q]
        BY <3>2, FcloseEnds
      <4>2. QED
        BY <4>1, <2>2, <1>0 DEF Ids, Begun
    <3>3. QED
      BY <1>3, <3>1, <3>2
  <2>5. QED
    BY <2>1, <2>3, <2>4 DEF Begun
<1>4. ASSUME NEW p \in Procs, \A q \in Procs : cur'[q].id = cur[q].id, ~Idle(p),
             \A q \in Procs \ {p} : at'[q] = at[q], last' = last, calls' = calls
      PROVE  \A q \in Procs : OwnId(q)'
  BY <1>4 DEF Ids, OwnId, Idle
<1>5. ASSUME NEW p \in Procs, ~Idle(p), at'[p] = "idle", calls' = calls,
             \A q \in Procs \ {p} : cur'[q] = cur[q] /\ at'[q] = at[q] /\ last'[q] = last[q],
             last'[p].id = last[p].id \/ last'[p].id = cur[p].id
      PROVE  \A q \in Procs : OwnId(q)'
  <2>1. OwnId(p)'
    BY <1>5 DEF OwnId, Idle
  <2>2. ASSUME NEW q \in Procs \ {p} PROVE OwnId(q)'
    BY <1>5 DEF Ids, OwnId, Idle
  <2>3. QED
    BY <2>1, <2>2
<1>6. ASSUME NEW p \in Procs, Fwrite(p) PROVE Ids'
  <2>1. cur'[p].id = cur[p].id /\ \A q \in Procs \ {p} : cur'[q] = cur[q]
    BY <1>6, FwriteIs
  <2>2. ~Idle(p) /\ at' = [at EXCEPT ![p] = "fclose"] /\ last' = last /\ calls' = calls
    BY <1>6 DEF Fwrite, Idle
  <2>3. \A q \in Procs : OwnId(q)'
    BY <2>1, <2>2, <1>0, <1>4
  <2>4. QED
    BY <1>3, <1>6, <2>3 DEF Ids
<1>7. ASSUME NEW p \in Procs, FcloseWrite(p) PROVE Ids'
  <2>1. /\ ~Idle(p) /\ at'[p] = "idle" /\ calls' = calls
        /\ \A q \in Procs \ {p} : cur'[q] = cur[q] /\ at'[q] = at[q] /\ last'[q] = last[q]
        /\ last'[p].id = cur[p].id
    BY <1>7, FcloseEnds DEF Idle
  <2>2. \A q \in Procs : OwnId(q)'
    BY <2>1, <1>5
  <2>3. QED
    BY <1>3, <1>7, <2>2 DEF Ids
<1>8. ASSUME NEW p \in Procs, Ftell(p), cur[p].op # "size" PROVE Ids'
  <2>1. cur'[p].id = cur[p].id /\ last' = last /\ \A q \in Procs \ {p} : cur'[q] = cur[q]
    BY <1>8, FtellIs
  <2>1b. at' = [at EXCEPT ![p] = "fread"]
    BY <1>8, FtellIs
  <2>2. ~Idle(p) /\ calls' = calls /\ bytes' = bytes
    BY <1>8 DEF Ftell, Idle, file
  <2>3. \A q \in Procs : OwnId(q)'
    BY <2>1, <2>1b, <2>2, <1>0, <1>4
  <2>4. QED
    BY <2>1, <2>2, <2>3 DEF Ids, Begun
<1>9. ASSUME NEW p \in Procs, Fread(p) PROVE Ids'
  <2>1. cur'[p].id = cur[p].id /\ \A q \in Procs \ {p} : cur'[q] = cur[q]
    BY <1>9, FreadIs
  <2>2. /\ ~Idle(p) /\ at' = [at EXCEPT ![p] = "fclose"] /\ last' = last /\ calls' = calls
        /\ bytes' = bytes
    BY <1>9 DEF Fread, Idle, file
  <2>3. \A q \in Procs : OwnId(q)'
    BY <2>1, <2>2, <1>0, <1>4
  <2>4. QED
    BY <2>2, <2>3 DEF Ids, Begun
<1>10. ASSUME NEW p \in Procs, Ended(p) PROVE Ids'
  <2>1. \A q \in Procs : OwnId(q)'
    BY <1>10, <1>5 DEF Ended
  <2>2. bytes' = bytes /\ calls' = calls /\ ~Idle(p)
    BY <1>10 DEF Ended
  <2>3. \A q \in Procs : last'[q].id <= calls
    <3>1. cur[p].id <= calls
      BY <2>2, <1>0 DEF Ids, OwnId
    <3>2. QED
      BY <1>10, <3>1 DEF Ended, Ids, Begun
  <2>4. QED
    BY <2>1, <2>2, <2>3 DEF Ids, Begun
<1>11. QED
  BY <1>1, <1>2, <1>6, <1>7, <1>8, <1>9, <1>10, StepShape DEF Shape

-----------------------------------------------------------------------------
(***************************************************************************)
(* io_read_all: what it has read is still there.                           *)
(***************************************************************************)
\* A read that is under way: the size ftell gave is within the file, and then
\* what fread returned is its start, as long as no io_write_all came between.
ReadingOf(p) ==
    /\ at[p] = "fread" =>
          cur[p].cut <= wsteps /\ (cur[p].cut = wsteps => cur[p].n <= Len(bytes))
    /\ (at[p] = "fclose" /\ cur[p].op = "read") =>
          /\ cur[p].cut <= wsteps
          /\ cur[p].cut = wsteps => Len(cur[p].in) = cur[p].n /\ IsPrefix(cur[p].in, bytes)

\* A read that has returned.
ReadOf(p) ==
    (last[p].op = "read" /\ last[p].ret = 0) =>
        /\ last[p].cut <= wsteps
        /\ last[p].cut = wsteps => Len(last[p].in) = last[p].len /\ IsPrefix(last[p].in, bytes)

Reads == \A p \in Procs : ReadingOf(p) /\ ReadOf(p)

\* Every step keeps what was read.
LEMMA ReadsNext ==
    ASSUME Types, Stages, Blocks, Reads, [Next]_vars
    PROVE  Reads'
<1>0. /\ at \in [Procs -> {"idle", "fwrite", "fclose", "ftell", "fread"}]
      /\ wsteps \in Nat /\ wsteps' \in Nat /\ bytes \in Seq(Byte) /\ bytes' \in Seq(Byte)
      /\ Len(bytes) \in Nat /\ Len(bytes') \in Nat
  BY TypesNext, LenProperties DEF Types
<1>0b. ASSUME NEW q \in Procs
       PROVE  /\ cur[q].cut \in Nat /\ cur[q].n \in Nat /\ cur[q].in \in Seq(Byte)
              /\ last[q].cut \in Nat /\ last[q].in \in Seq(Byte)
  BY DEF Types, CallType, ResultType
<1>0c. /\ wsteps <= wsteps'
       /\ wsteps' = wsteps => Len(bytes) <= Len(bytes') /\ \A i \in 1 .. Len(bytes) : bytes'[i] = bytes[i]
  BY FileGrows
<1>0d. ASSUME NEW s \in Seq(Byte), IsPrefix(s, bytes), wsteps' = wsteps PROVE IsPrefix(s, bytes')
  <2>1. Len(s) \in Nat
    BY LenProperties
  <2>2. Len(s) <= Len(bytes) /\ \A i \in 1 .. Len(s) : s[i] = bytes[i]
    BY <1>0d, <1>0, PrefixIs
  <2>3. Len(s) <= Len(bytes') /\ \A i \in 1 .. Len(s) : s[i] = bytes'[i]
    BY <2>1, <2>2, <1>0, <1>0c, <1>0d
  <2>4. QED
    BY <2>3, <1>0, PrefixIs
<1>a. ASSUME NEW q \in Procs, last'[q] = last[q] PROVE ReadOf(q)'
  <2>1. ReadOf(q)
    BY DEF Reads
  <2>2. QED
    BY <1>a, <2>1, <1>0, <1>0b, <1>0c, <1>0d DEF ReadOf
<1>b. ASSUME NEW q \in Procs, at'[q] = at[q], cur'[q].op = cur[q].op, cur'[q].cut = cur[q].cut,
             cur'[q].n = cur[q].n, cur'[q].in = cur[q].in
      PROVE  ReadingOf(q)'
  <2>1. ReadingOf(q)
    BY DEF Reads
  <2>2. CASE at[q] = "fread"
    BY <1>b, <2>1, <2>2, <1>0, <1>0b, <1>0c DEF ReadingOf
  <2>3. CASE at[q] = "fclose" /\ cur[q].op = "read"
    BY <1>b, <2>1, <2>3, <1>0, <1>0b, <1>0c, <1>0d DEF ReadingOf
  <2>4. CASE at[q] # "fread" /\ ~(at[q] = "fclose" /\ cur[q].op = "read")
    BY <1>b, <2>4 DEF ReadingOf
  <2>5. QED
    BY <2>2, <2>3, <2>4
<1>c. ASSUME NEW q \in Procs, at'[q] \notin {"fread", "fclose"} \/ (at'[q] = "fclose" /\ cur'[q].op # "read")
      PROVE  ReadingOf(q)'
  BY <1>c DEF ReadingOf
<1>1. CASE Quiet
  <2>1. ASSUME NEW q \in Procs PROVE ReadOf(q)'
    <3>1. CASE last'[q].ret = -1
      BY <3>1 DEF ReadOf
    <3>2. QED
      BY <1>1, <3>1, <1>a DEF Quiet
  <2>2. ASSUME NEW q \in Procs PROVE ReadingOf(q)'
    BY <1>1, <1>b DEF Quiet
  <2>3. QED
    BY <2>1, <2>2 DEF Reads
<1>2. ASSUME NEW p \in Procs, NEW op \in Ops, NEW len \in Nat, Open(p, op, len) PROVE Reads'
  <2>1. at' = [at EXCEPT ![p] = IF op \in {"write", "append"} THEN "fwrite" ELSE "ftell"] /\ last' = last
    BY <1>2, OpenedIs
  <2>2. ReadingOf(p)'
    BY <2>1, <1>0, <1>c
  <2>3. ASSUME NEW q \in Procs \ {p} PROVE ReadingOf(q)'
    <3>1. cur'[q].op = cur[q].op
      BY <1>2, OpenedIs
    <3>2. cur'[q].cut = cur[q].cut
      BY <1>2, OpenedIs
    <3>3. cur'[q].n = cur[q].n
      BY <1>2, OpenedIs
    <3>4. cur'[q].in = cur[q].in
      BY <1>2, OpenedIs
    <3>5. QED
      BY <2>1, <3>1, <3>2, <3>3, <3>4, <1>0, <1>b
  <2>4. QED
    BY <2>1, <2>2, <2>3, <1>a DEF Reads
<1>3. ASSUME NEW p \in Procs, Fwrite(p) PROVE Reads'
  <2>1. cur'[p].op = cur[p].op /\ \A q \in Procs \ {p} : cur'[q] = cur[q]
    BY <1>3, FwriteIs
  <2>2. at' = [at EXCEPT ![p] = "fclose"] /\ last' = last /\ Writes(p)
    BY <1>3 DEF Fwrite, Stages, StageOf
  <2>3. ReadingOf(p)'
    BY <2>1, <2>2, <1>0, <1>c DEF Writes
  <2>4. QED
    BY <2>1, <2>2, <2>3, <1>0, <1>a, <1>b DEF Reads
<1>4. ASSUME NEW p \in Procs, FcloseWrite(p) PROVE Reads'
  <2>1. /\ at'[p] = "idle" /\ last'[p].op = cur[p].op /\ Writes(p)
        /\ \A q \in Procs \ {p} : cur'[q] = cur[q] /\ at'[q] = at[q] /\ last'[q] = last[q]
    BY <1>4, FcloseEnds
  <2>2. ReadOf(p)' /\ ReadingOf(p)'
    BY <2>1 DEF ReadOf, ReadingOf, Writes
  <2>3. QED
    BY <2>1, <2>2, <1>a, <1>b DEF Reads
<1>5. ASSUME NEW p \in Procs, Ftell(p), cur[p].op # "size" PROVE Reads'
  <2>1. cur'[p].n = Len(bytes) /\ cur'[p].cut = wsteps /\ last' = last
    BY <1>5, FtellIs
  <2>2. at' = [at EXCEPT ![p] = "fread"] /\ \A q \in Procs \ {p} : cur'[q] = cur[q]
    BY <1>5, FtellIs
  <2>3. wsteps' = wsteps /\ bytes' = bytes
    BY <1>5 DEF Ftell, file
  <2>4. ReadingOf(p)'
    BY <2>1, <2>2, <2>3, <1>0 DEF ReadingOf
  <2>5. QED
    BY <2>1, <2>2, <2>4, <1>0, <1>a, <1>b DEF Reads
<1>6. ASSUME NEW p \in Procs, Fread(p) PROVE Reads'
  <2> DEFINE m == IF cur[p].n < Len(bytes) THEN cur[p].n ELSE Len(bytes)
  <2>1. cur'[p].n = cur[p].n /\ cur'[p].cut = cur[p].cut /\ cur'[p].in = First(bytes, m)
    BY <1>6, FreadIs
  <2>2. m \in 0 .. Len(bytes) /\ \A q \in Procs \ {p} : cur'[q] = cur[q]
    BY <1>6, FreadIs
  <2>3. /\ at[p] = "fread" /\ at' = [at EXCEPT ![p] = "fclose"] /\ last' = last
        /\ wsteps' = wsteps /\ bytes' = bytes
    BY <1>6 DEF Fread, file
  <2>4. cur[p].cut <= wsteps /\ (cur[p].cut = wsteps => m = cur[p].n)
    BY <2>3, <1>0, <1>0b DEF Reads, ReadingOf
  <2> HIDE DEF m
  <2>5. /\ First(bytes, m) \in Seq(Byte) /\ Len(First(bytes, m)) = m
        /\ \A i \in 1 .. m : First(bytes, m)[i] = bytes[i]
    BY <2>2, <1>0, FirstIs
  <2>6. IsPrefix(First(bytes, m), bytes)
    BY <2>2, <2>5, <1>0, PrefixIs
  <2>7. ReadingOf(p)'
    BY <2>1, <2>3, <2>4, <2>5, <2>6, <1>0 DEF ReadingOf
  <2>8. QED
    BY <2>2, <2>3, <2>7, <1>0, <1>a, <1>b DEF Reads
<1>7. ASSUME NEW p \in Procs, Ended(p) PROVE Reads'
  <2>1. /\ at'[p] = "idle" /\ wsteps' = wsteps /\ bytes' = bytes
        /\ \A q \in Procs \ {p} : cur'[q] = cur[q] /\ at'[q] = at[q] /\ last'[q] = last[q]
    BY <1>7 DEF Ended
  <2>2. ReadingOf(p)'
    BY <2>1 DEF ReadingOf
  <2>3. ReadOf(p)'
    <3>1. CASE last'[p] = last[p]
      BY <3>1, <1>a
    <3>2. CASE last'[p] # last[p] /\ last'[p].op = "read" /\ last'[p].ret = 0
      <4>1. /\ last'[p].in = cur[p].in /\ last'[p].cut = cur[p].cut /\ last'[p].len = cur[p].n
            /\ at[p] = "fclose" /\ cur[p].op = "read"
        BY <1>7, <3>2 DEF Ended
      <4>2. ReadingOf(p)
        BY DEF Reads
      <4>3. QED
        BY <2>1, <4>1, <4>2 DEF ReadOf, ReadingOf
    <3>3. CASE ~(last'[p].op = "read" /\ last'[p].ret = 0)
      BY <3>3 DEF ReadOf
    <3>4. QED
      BY <3>1, <3>2, <3>3
  <2>4. QED
    BY <2>1, <2>2, <2>3, <1>a, <1>b DEF Reads
<1>8. QED
  BY <1>1, <1>2, <1>3, <1>4, <1>5, <1>6, <1>7, StepShape DEF Shape

-----------------------------------------------------------------------------
(***************************************************************************)
(* io_write_all by itself.                                                 *)
(***************************************************************************)
\* While a call is alone, nobody else has one.
AloneOf(p) == (~Idle(p) /\ cur[p].alone) => \A q \in Procs \ {p} : Idle(q)

\* What io_write_all has handed over and what its stream holds is its data.
WholeOf(p) ==
    (cur[p].op = "write" /\ cur[p].alone /\ ~full) =>
        /\ at[p] = "fwrite" => bytes = << >> /\ cur[p].off = 0
        /\ at[p] = "fclose" =>
              /\ cur[p].n = Len(cur[p].data)
              /\ cur[p].off = Len(bytes)
              /\ bytes \o cur[p].buf = cur[p].data

Lone == \A p \in Procs : AloneOf(p) /\ WholeOf(p)

\* fwrite of a lone io_write_all, with room.
LEMMA FwriteWhole ==
    ASSUME Types, Stages, NEW p \in Procs, Fwrite(p), WholeOf(p),
           cur[p].op = "write", cur[p].alone, ~full
    PROVE  /\ cur'[p].n = Len(cur'[p].data)
           /\ cur'[p].off = Len(bytes')
           /\ bytes' \o cur'[p].buf = cur'[p].data
<1> DEFINE d == cur[p].data
<1>1. d \in Seq(Byte) /\ Len(d) \in Nat /\ << >> \in Seq(Byte) /\ Len(<< >>) = 0 /\ Hole \in Byte
  BY LenProperties, EmptySeq, CallAssumption DEF Types, CallType, Byte, Hole
<1>2. bytes = << >> /\ cur[p].off = 0
  BY DEF Fwrite, WholeOf
<1>3. cur'[p].data = d
  BY FwriteIs
<1>4. CASE Len(d) <= BufSize
  <2>1. bytes' = bytes /\ cur'[p].off = cur[p].off /\ cur'[p].buf = d /\ cur'[p].n = Len(d)
    BY <1>1, <1>4, BufAssumption, FwriteIs
  <2>2. << >> \o d = d
    BY <1>1, ConcatEmptySeq
  <2>3. QED
    BY <1>1, <1>2, <1>3, <2>1, <2>2
<1>5. CASE ~(Len(d) <= BufSize)
  <2>0. PICK k \in 0 .. Len(d) : \E j \in 0 .. k :
           /\ ~full => j = k
           /\ bytes' = Written(bytes, Offset(p), First(d, j))
           /\ cur'[p].off = cur[p].off + j
           /\ cur'[p].buf = IF j = k THEN Rest(d, k) ELSE << >>
           /\ cur'[p].n = IF j = k THEN Len(d) ELSE j
    BY <1>5, FwriteIs
  <2>1. PICK j \in 0 .. k :
           /\ ~full => j = k
           /\ bytes' = Written(bytes, Offset(p), First(d, j))
           /\ cur'[p].off = cur[p].off + j
           /\ cur'[p].buf = IF j = k THEN Rest(d, k) ELSE << >>
           /\ cur'[p].n = IF j = k THEN Len(d) ELSE j
    BY <2>0
  <2>2. /\ bytes' = Written(<< >>, 0, First(d, k))
        /\ cur'[p].off = k /\ cur'[p].buf = Rest(d, k) /\ cur'[p].n = Len(d)
    BY <2>1, <1>2 DEF Offset
  <2>3. /\ First(d, k) \in Seq(Byte) /\ Len(First(d, k)) = k
        /\ First(d, k) \o Rest(d, k) = d
    BY <1>1, FirstIs, RestIs
  <2> DEFINE e == << >>
             f == First(d, k)
  <2>4. e \in Seq(Byte) /\ Len(e) = 0 /\ f \in Seq(Byte) /\ Len(f) = k
    BY <1>1, <2>3
  <2>5. bytes' = Written(e, Len(e), f)
    BY <2>2, <1>1
  <2> HIDE DEF e, f
  <2>6. Written(e, Len(e), f) = e \o f
    BY <2>4, <1>1, WrittenAtEnd
  <2>7. e \o f = f
    BY <2>4, ConcatEmptySeq DEF e
  <2>8. bytes' = First(d, k)
    BY <2>5, <2>6, <2>7 DEF f
  <2>9. QED
    BY <1>3, <2>2, <2>3, <2>8
<1>6. QED
  BY <1>4, <1>5

\* fclose of a lone io_write_all, with room.
LEMMA FcloseWhole ==
    ASSUME Types, Stages, NEW p \in Procs, FcloseWrite(p), WholeOf(p),
           cur[p].op = "write", cur[p].alone, ~full
    PROVE  bytes' = cur[p].data /\ last'[p].ret = 0
<1> DEFINE d == cur[p].buf
<1>1. /\ d \in Seq(Byte) /\ Len(d) \in Nat /\ bytes \in Seq(Byte) /\ Hole \in Byte
  BY LenProperties, CallAssumption DEF Types, CallType, Byte, Hole
<1>2. /\ cur[p].n = Len(cur[p].data) /\ cur[p].off = Len(bytes)
      /\ bytes \o cur[p].buf = cur[p].data
  BY DEF FcloseWrite, WholeOf
<1>3. bytes' = Written(bytes, Offset(p), First(d, Len(d)))
  BY FcloseIs
<1>4. First(d, Len(d)) = d
  <2>1. Len(d) \in 0 .. Len(d)
    BY <1>1
  <2>2. QED
    BY <1>1, <2>1, FirstIs
<1>5. Offset(p) = Len(bytes)
  BY <1>2 DEF Offset
<1>6. Written(bytes, Len(bytes), d) = bytes \o d
  BY <1>1, WrittenAtEnd
<1>7. last'[p].ret = 0
  <2>1. last'[p].ret = IF cur[p].n # Len(cur[p].data) THEN -1 ELSE 0
    BY FcloseEnds
  <2>2. QED
    BY <2>1, <1>2
<1>8. QED
  BY <1>2, <1>3, <1>4, <1>5, <1>6, <1>7

\* Every step keeps a lone io_write_all whole.
LEMMA LoneNext ==
    ASSUME Types, Stages, Lone, [Next]_vars
    PROVE  Lone'
<1>0. at \in [Procs -> {"idle", "fwrite", "fclose", "ftell", "fread"}]
  BY DEF Types
<1>a. ASSUME NEW p \in Procs, cur'[p].op = "none", at'[p] = "idle"
      PROVE  AloneOf(p)' /\ WholeOf(p)'
  BY <1>a DEF AloneOf, WholeOf, Idle
<1>b. ASSUME NEW q \in Procs, cur'[q] = cur[q], at'[q] = at[q],
             \A o \in Procs : Idle(o) => at'[o] = "idle"
      PROVE  AloneOf(q)'
  BY <1>b DEF Lone, AloneOf, Idle
<1>c. ASSUME NEW q \in Procs, cur'[q] = cur[q], at'[q] = at[q], bytes' = bytes, full => full'
      PROVE  WholeOf(q)'
  BY <1>c DEF Lone, WholeOf
<1>d. ASSUME NEW p \in Procs, ~Idle(p), NEW q \in Procs \ {p}, cur'[q] = cur[q], at'[q] = at[q]
      PROVE  WholeOf(q)'
  <2>1. CASE ~Idle(q)
    <3>1. ~cur[q].alone
      BY <1>d, <2>1 DEF Lone, AloneOf
    <3>2. QED
      BY <1>d, <3>1 DEF WholeOf
  <2>2. CASE Idle(q)
    BY <1>d, <2>2 DEF WholeOf, Stages, StageOf
  <2>3. QED
    BY <2>1, <2>2
<1>1. CASE Quiet
  <2>1. \A q \in Procs : cur'[q] = cur[q] /\ at'[q] = at[q]
    BY <1>1 DEF Quiet
  <2>2. bytes' = bytes /\ (full => full') /\ \A o \in Procs : Idle(o) => at'[o] = "idle"
    BY <1>1, <2>1 DEF Quiet, Idle
  <2>3. QED
    BY <2>1, <2>2, <1>b, <1>c DEF Lone
<1>2. ASSUME NEW p \in Procs, NEW op \in Ops, NEW len \in Nat, Open(p, op, len) PROVE Lone'
  <2>1. cur'[p].alone <=> \A o \in Procs : Idle(o)
    BY <1>2, OpenedIs
  <2>2. cur'[p].op = op /\ cur'[p].off = 0 /\ (op = "write" => bytes' = << >>) /\ Idle(p)
    BY <1>2, OpenedIs
  <2>3. at' = [at EXCEPT ![p] = IF op \in {"write", "append"} THEN "fwrite" ELSE "ftell"]
    BY <1>2, OpenedIs
  <2>4. AloneOf(p)'
    BY <2>1, <2>3, <1>0 DEF AloneOf, Idle
  <2>5. WholeOf(p)'
    BY <2>2, <2>3, <1>0 DEF WholeOf
  <2>6. ASSUME NEW q \in Procs \ {p} PROVE AloneOf(q)' /\ WholeOf(q)'
    <3>1. (cur'[q].alone <=> cur[q].alone /\ Idle(q)) /\ cur'[q].op = cur[q].op
      BY <1>2, OpenedIs
    <3>2. at'[q] = at[q]
      BY <2>3, <1>0
    <3>3. CASE Idle(q)
      <4>1. cur[q].op = "none"
        BY <3>3 DEF Stages, StageOf
      <4>2. QED
        BY <3>1, <3>2, <3>3, <4>1 DEF AloneOf, WholeOf, Idle
    <3>4. CASE ~Idle(q)
      BY <3>1, <3>4 DEF AloneOf, WholeOf
    <3>5. QED
      BY <3>3, <3>4
  <2>7. QED
    BY <2>4, <2>5, <2>6 DEF Lone
<1>3. ASSUME NEW p \in Procs, Fwrite(p) PROVE Lone'
  <2>1. cur'[p].op = cur[p].op /\ cur'[p].alone = cur[p].alone
    BY <1>3, FwriteIs
  <2>2. \A q \in Procs \ {p} : cur'[q] = cur[q]
    BY <1>3, FwriteIs
  <2>3. at' = [at EXCEPT ![p] = "fclose"] /\ full' = full /\ ~Idle(p)
    BY <1>3 DEF Fwrite, Idle
  <2>4. AloneOf(p)'
    BY <2>1, <2>3, <1>0 DEF Lone, AloneOf, Idle
  <2>5. WholeOf(p)'
    <3>1. CASE cur[p].op = "write" /\ cur[p].alone /\ ~full
      <4>1. WholeOf(p)
        BY DEF Lone
      <4>2. /\ cur'[p].n = Len(cur'[p].data)
            /\ cur'[p].off = Len(bytes')
            /\ bytes' \o cur'[p].buf = cur'[p].data
        BY <1>3, <3>1, <4>1, FwriteWhole
      <4>3. QED
        BY <2>3, <4>2, <1>0 DEF WholeOf
    <3>2. CASE ~(cur[p].op = "write" /\ cur[p].alone /\ ~full)
      BY <2>1, <2>3, <3>2 DEF WholeOf
    <3>3. QED
      BY <3>1, <3>2
  <2>6. \A q \in Procs \ {p} : AloneOf(q)' /\ WholeOf(q)'
    BY <2>2, <2>3, <1>0, <1>b, <1>d DEF Idle
  <2>7. QED
    BY <2>4, <2>5, <2>6 DEF Lone
<1>4. ASSUME NEW p \in Procs, FcloseWrite(p) PROVE Lone'
  <2>1. /\ cur'[p].op = "none" /\ at'[p] = "idle" /\ ~Idle(p)
        /\ \A q \in Procs \ {p} : cur'[q] = cur[q] /\ at'[q] = at[q]
    BY <1>4, FcloseEnds DEF Idle
  <2>2. \A q \in Procs \ {p} : AloneOf(q)' /\ WholeOf(q)'
    BY <2>1, <1>b, <1>d DEF Idle
  <2>3. QED
    BY <2>1, <2>2, <1>a DEF Lone
<1>5. ASSUME NEW p \in Procs, Ftell(p) \/ Fread(p), cur[p].op # "size" PROVE Lone'
  <2>1. cur'[p].op = cur[p].op /\ cur'[p].alone = cur[p].alone
    BY <1>5, FtellIs, FreadIs
  <2>2. \A q \in Procs \ {p} : cur'[q] = cur[q]
    BY <1>5, FtellIs, FreadIs
  <2>3. /\ at' = [at EXCEPT ![p] = "fread"] \/ at' = [at EXCEPT ![p] = "fclose"]
        /\ ~Idle(p) /\ cur[p].op # "write"
    BY <1>5 DEF Ftell, Fread, Idle, Stages, StageOf
  <2>4. AloneOf(p)' /\ WholeOf(p)'
    BY <2>1, <2>3, <1>0 DEF Lone, AloneOf, WholeOf, Idle
  <2>5. \A q \in Procs \ {p} : AloneOf(q)' /\ WholeOf(q)'
    BY <2>2, <2>3, <1>0, <1>b, <1>d DEF Idle
  <2>6. QED
    BY <2>4, <2>5 DEF Lone
<1>6. ASSUME NEW p \in Procs, Ended(p) PROVE Lone'
  <2>1. /\ cur'[p].op = "none" /\ at'[p] = "idle" /\ ~Idle(p)
        /\ \A q \in Procs \ {p} : cur'[q] = cur[q] /\ at'[q] = at[q]
    BY <1>6 DEF Ended
  <2>2. \A q \in Procs \ {p} : AloneOf(q)' /\ WholeOf(q)'
    BY <2>1, <1>b, <1>d DEF Idle
  <2>3. QED
    BY <2>1, <2>2, <1>a DEF Lone
<1>7. QED
  <2>1. ASSUME NEW p \in Procs, Fread(p) PROVE Lone'
    <3>1. cur[p].op # "size"
      BY <2>1 DEF Fread, Stages, StageOf
    <3>2. QED
      BY <2>1, <3>1, <1>5
  <2>2. QED
    BY <1>1, <1>2, <1>3, <1>4, <1>5, <1>6, <2>1, StepShape DEF Shape

-----------------------------------------------------------------------------
(***************************************************************************)
(* io_append: what an append has written is there, once.                   *)
(***************************************************************************)
\* Where a file holds the byte v.
Places(f, v) == {i \in DOMAIN f : f[i] = v}

\* The places of a byte can be counted.
LEMMA PlacesFinite ==
    ASSUME NEW S, NEW f \in Seq(S), NEW v
    PROVE  IsFiniteSet(Places(f, v)) /\ Cardinality(Places(f, v)) \in Nat
<1>1. DOMAIN f = 1 .. Len(f) /\ Len(f) \in Nat
  BY LenProperties
<1>2. IsFiniteSet(1 .. Len(f))
  BY <1>1, FS_Interval
<1>3. Places(f, v) \in SUBSET (1 .. Len(f))
  BY <1>1 DEF Places
<1>4. QED
  BY <1>2, <1>3, FS_Subset, FS_CardinalityType

\* A row of v put at the end of a file adds as many places of v as it is long,
\* and no place of another byte.
LEMMA PlacesAppended ==
    ASSUME NEW S, NEW f \in Seq(S), NEW d \in Seq(S), NEW v,
           \A i \in 1 .. Len(d) : d[i] = v
    PROVE  /\ Cardinality(Places(f \o d, v)) = Cardinality(Places(f, v)) + Len(d)
           /\ \A w : w # v => Places(f \o d, w) = Places(f, w)
<1> DEFINE g == f \o d
           new == Len(f) + 1 .. Len(f) + Len(d)
<1>1. Len(f) \in Nat /\ Len(d) \in Nat /\ DOMAIN f = 1 .. Len(f)
  BY LenProperties
<1>2. /\ g \in Seq(S) /\ Len(g) = Len(f) + Len(d)
      /\ \A i \in 1 .. Len(f) + Len(d) : g[i] = IF i <= Len(f) THEN f[i] ELSE d[i - Len(f)]
  BY ConcatProperties
<1>3. DOMAIN g = 1 .. Len(f) + Len(d)
  BY <1>2, LenProperties
<1> HIDE DEF g
<1>4. \A i \in 1 .. Len(f) : g[i] = f[i] /\ i \in DOMAIN g
  BY <1>1, <1>2, <1>3
<1>5. \A i \in new : g[i] = v /\ i \in DOMAIN g
  <2>1. ASSUME NEW i \in new PROVE i - Len(f) \in 1 .. Len(d) /\ ~(i <= Len(f)) /\ i \in 1 .. Len(f) + Len(d)
    BY <1>1
  <2>2. QED
    BY <1>2, <1>3, <2>1
<1>6. \A i \in DOMAIN g : i \in 1 .. Len(f) \/ i \in new
  BY <1>1, <1>3
<1>7. new \cap (1 .. Len(f)) = {}
  BY <1>1
<1>8. IsFiniteSet(new) /\ Cardinality(new) = Len(d)
  <2>1. Len(f) + 1 \in Int /\ Len(f) + Len(d) \in Int
    BY <1>1
  <2> DEFINE a == Len(f) + 1
             b == Len(f) + Len(d)
  <2>2. a \in Int /\ b \in Int /\ new = a .. b /\ (IF a > b THEN 0 ELSE b - a + 1) = Len(d)
    BY <1>1
  <2> HIDE DEF a, b
  <2>3. IsFiniteSet(a .. b) /\ Cardinality(a .. b) = IF a > b THEN 0 ELSE b - a + 1
    BY <2>2, FS_Interval
  <2>4. QED
    BY <2>2, <2>3
<1> HIDE DEF new
<1>9. Places(g, v) = Places(f, v) \cup new
  BY <1>1, <1>4, <1>5, <1>6 DEF Places
<1>10. Places(f, v) \cap new = {}
  BY <1>1, <1>7 DEF Places
<1>11. Cardinality(Places(g, v)) = Cardinality(Places(f, v)) + Len(d)
  <2>1. IsFiniteSet(Places(f, v)) /\ Cardinality(Places(f, v)) \in Nat
    BY PlacesFinite
  <2>2. Cardinality(Places(f, v) \cup new)
           = Cardinality(Places(f, v)) + Cardinality(new) - Cardinality(Places(f, v) \cap new)
    BY <2>1, <1>8, FS_Union
  <2>3. Cardinality(Places(f, v) \cap new) = 0
    BY <1>10, FS_EmptySet
  <2>4. QED
    BY <1>1, <1>8, <1>9, <2>1, <2>2, <2>3
<1>12. ASSUME NEW w, w # v PROVE Places(g, w) = Places(f, w)
  BY <1>1, <1>4, <1>5, <1>6, <1>12 DEF Places
<1>13. QED
  BY <1>11, <1>12 DEF g

\* Without a truncation and with room: an append that is at its fwrite has no
\* byte in the file, one at its fclose has all but what its stream holds.
AppendingOf(p) ==
    (wsteps = 0 /\ ~full) =>
        /\ at[p] = "fwrite" => Places(bytes, cur[p].id) = {}
        /\ (at[p] = "fclose" /\ cur[p].op = "append") =>
              /\ Cardinality(Places(bytes, cur[p].id)) + Len(cur[p].buf) = Len(cur[p].data)
              /\ Len(cur[p].data) <= BufSize => Len(cur[p].buf) = Len(cur[p].data)

\* An append that has returned.
AppendOf(p) ==
    (wsteps = 0 /\ ~full /\ last[p].op = "append" /\ last[p].ret = 0) =>
            /\ Cardinality(Places(bytes, last[p].id)) = last[p].len
            /\ last[p].len <= BufSize => InOnePiece(last[p].id, last[p].len)

Appends == \A p \in Procs : AppendingOf(p) /\ AppendOf(p)

\* A row of bytes put at the end lies there in one piece.
LEMMA PieceAppended ==
    ASSUME Types, NEW d \in Seq(Byte), NEW v, bytes' = bytes \o d, \A i \in 1 .. Len(d) : d[i] = v
    PROVE  \E i \in 0 .. Len(bytes') - Len(d) : \A j \in 1 .. Len(d) : bytes'[i + j] = v
<1>1. bytes \in Seq(Byte) /\ Len(bytes) \in Nat /\ Len(d) \in Nat
  BY LenProperties DEF Types
<1>2. /\ Len(bytes') = Len(bytes) + Len(d)
      /\ \A i \in 1 .. Len(bytes) + Len(d) :
            bytes'[i] = IF i <= Len(bytes) THEN bytes[i] ELSE d[i - Len(bytes)]
  BY <1>1, ConcatProperties
<1>3. ASSUME NEW j \in 1 .. Len(d) PROVE bytes'[Len(bytes) + j] = v
  <2>1. /\ Len(bytes) + j \in 1 .. Len(bytes) + Len(d) /\ ~(Len(bytes) + j <= Len(bytes))
        /\ (Len(bytes) + j) - Len(bytes) = j
    BY <1>1
  <2>2. bytes'[Len(bytes) + j] = d[(Len(bytes) + j) - Len(bytes)]
    BY <1>2, <2>1
  <2>3. QED
    BY <2>1, <2>2
<1>4. Len(bytes) \in 0 .. Len(bytes') - Len(d)
  BY <1>1, <1>2
<1>5. QED
  BY <1>3, <1>4

\* What fwrite of an append hands over, with room.
LEMMA FwriteAppends ==
    ASSUME Types, Stages, Blocks, NEW p \in Procs, Fwrite(p), cur[p].op = "append", ~full
    PROVE  \E d \in Seq(Byte) :
              /\ bytes' = bytes \o d
              /\ \A i \in 1 .. Len(d) : d[i] = cur[p].id
              /\ Len(d) + Len(cur'[p].buf) = Len(cur[p].data)
              /\ Len(cur[p].data) <= BufSize => Len(d) = 0
<1> DEFINE c == cur[p].data
<1>1. /\ c \in Seq(Byte) /\ Len(c) \in Nat /\ bytes \in Seq(Byte) /\ Len(bytes) \in Nat
      /\ << >> \in Seq(Byte) /\ Len(<< >>) = 0 /\ Hole \in Byte
  BY LenProperties, EmptySeq, CallAssumption DEF Types, CallType, Byte, Hole
<1>2. \A i \in 1 .. Len(c) : c[i] = cur[p].id
  BY DEF Blocks, BlockOf, Writes
<1>3. CASE Len(c) <= BufSize
  <2>1. bytes' = bytes /\ cur'[p].buf = c
    BY <1>1, <1>3, BufAssumption, FwriteIs
  <2>2. bytes \o << >> = bytes
    BY <1>1, ConcatEmptySeq
  <2> DEFINE e == << >>
  <2>3. e \in Seq(Byte) /\ Len(e) = 0 /\ bytes' = bytes \o e
    BY <1>1, <2>1, <2>2
  <2> HIDE DEF e
  <2>4. \A i \in 1 .. Len(e) : e[i] = cur[p].id
    BY <2>3
  <2>5. Len(e) + Len(cur'[p].buf) = Len(c)
    BY <2>1, <2>3, <1>1
  <2>6. QED
    BY <2>3, <2>4, <2>5
<1>4. CASE ~(Len(c) <= BufSize)
  <2>1. PICK k \in 0 .. Len(c) : \E j \in 0 .. k :
           /\ ~full => j = k
           /\ bytes' = Written(bytes, Offset(p), First(c, j))
           /\ cur'[p].buf = IF j = k THEN Rest(c, k) ELSE << >>
    BY <1>4, FwriteIs
  <2>2. bytes' = Written(bytes, Len(bytes), First(c, k)) /\ cur'[p].buf = Rest(c, k)
    BY <2>1 DEF Offset
  <2>3. /\ First(c, k) \in Seq(Byte) /\ Len(First(c, k)) = k
        /\ \A i \in 1 .. k : First(c, k)[i] = c[i]
    BY <1>1, FirstIs
  <2>4. Len(Rest(c, k)) = Len(c) - k
    BY <1>1, RestIs
  <2> DEFINE d == First(c, k)
  <2>5. d \in Seq(Byte) /\ Len(d) = k /\ bytes' = Written(bytes, Len(bytes), d)
    BY <2>2, <2>3
  <2>6. \A i \in 1 .. Len(d) : d[i] = cur[p].id
    <3>1. \A i \in 1 .. k : i \in 1 .. Len(c)
      BY <1>1
    <3>2. QED
      BY <2>3, <3>1, <1>2
  <2> HIDE DEF d
  <2>7. bytes' = bytes \o d
    BY <2>5, <1>1, WrittenAtEnd
  <2>8. Len(d) + Len(cur'[p].buf) = Len(c)
    BY <2>2, <2>4, <2>5, <1>1
  <2>9. QED
    BY <2>5, <2>6, <2>7, <2>8, <1>4
<1>5. QED
  BY <1>3, <1>4

\* What fclose of an append hands over, with room: all its stream holds.
LEMMA FcloseAppends ==
    ASSUME Types, NEW p \in Procs, FcloseWrite(p), cur[p].op = "append", ~full
    PROVE  bytes' = bytes \o cur[p].buf
<1> DEFINE d == cur[p].buf
<1>1. d \in Seq(Byte) /\ Len(d) \in Nat /\ bytes \in Seq(Byte) /\ Hole \in Byte
  BY LenProperties, CallAssumption DEF Types, CallType, Byte, Hole
<1>2. bytes' = Written(bytes, Len(bytes), First(d, Len(d)))
  BY FcloseIs DEF Offset
<1>3. First(d, Len(d)) = d
  <2>1. Len(d) \in 0 .. Len(d)
    BY <1>1
  <2>2. QED
    BY <1>1, <2>1, FirstIs
<1>4. QED
  BY <1>1, <1>2, <1>3, WrittenAtEnd

\* Every step keeps what the appends have written.
LEMMA AppendsNext ==
    ASSUME Types, Stages, Blocks, Ids, Appends, [Next]_vars
    PROVE  Appends'
<1>1. SUFFICES ASSUME wsteps' = 0, ~full' PROVE Appends'
  BY DEF Appends, AppendingOf, AppendOf
<1>2. /\ Types'
      /\ at \in [Procs -> {"idle", "fwrite", "fclose", "ftell", "fread"}]
      /\ wsteps \in Nat /\ bytes \in Seq(Byte) /\ Len(bytes) \in Nat /\ calls \in Nat
  BY TypesNext, LenProperties DEF Types
<1>3. /\ wsteps = 0 /\ wsteps' = wsteps
      /\ Len(bytes) <= Len(bytes') /\ \A i \in 1 .. Len(bytes) : bytes'[i] = bytes[i]
  BY <1>1, <1>2, FileGrows
<1>4. ASSUME NEW p \in Procs PROVE cur[p].op # "write"
  BY <1>3 DEF Stages, StageOf
<1>5. ASSUME NEW p \in Procs PROVE last[p].len \in Nat /\ cur[p].data \in Seq(Byte) /\ cur[p].buf \in Seq(Byte)
  BY DEF Types, CallType, ResultType
<1>a. ASSUME NEW q \in Procs, at'[q] = at[q], cur'[q].op = cur[q].op, cur'[q].id = cur[q].id,
             cur'[q].data = cur[q].data, cur'[q].buf = cur[q].buf, ~full,
             ~Idle(q) => Places(bytes', cur[q].id) = Places(bytes, cur[q].id)
      PROVE  AppendingOf(q)'
  BY <1>a, <1>1, <1>3 DEF Appends, AppendingOf, Idle
<1>b. ASSUME NEW q \in Procs, last'[q] = last[q], ~full,
             Places(bytes', last[q].id) = Places(bytes, last[q].id)
      PROVE  AppendOf(q)'
  <2>1. InOnePiece(last[q].id, last[q].len) => InOnePiece(last[q].id, last[q].len)'
    <3> DEFINE id == last[q].id
               len == last[q].len
    <3>1. len \in Nat
      BY <1>5
    <3>2. id' = id /\ len' = len
      BY <1>b
    <3>3. ASSUME InOnePiece(id, len) PROVE \E i \in 0 .. Len(bytes') - len : \A j \in 1 .. len : bytes'[i + j] = id
      <4> HIDE DEF id, len
      <4>1. PICK i \in 0 .. Len(bytes) - len : \A j \in 1 .. len : bytes[i + j] = id
        BY <3>3 DEF InOnePiece
      <4>2. Len(bytes') \in Nat
        BY <1>2, LenProperties DEF Types
      <4>3. i \in 0 .. Len(bytes') - len /\ \A j \in 1 .. len : i + j \in 1 .. Len(bytes)
        BY <3>1, <1>2, <1>3, <4>2
      <4>4. QED
        BY <1>3, <4>1, <4>3
    <3>4. QED
      BY <3>2, <3>3 DEF InOnePiece
  <2>2. QED
    BY <1>b, <1>1, <1>3, <2>1 DEF Appends, AppendOf
<1>c. ASSUME NEW p \in Procs, at'[p] \notin {"fwrite", "fclose"} PROVE AppendingOf(p)'
  BY <1>c DEF AppendingOf
<1>6. CASE Quiet
  <2>1. ~full /\ bytes' = bytes
    BY <1>1, <1>6 DEF Quiet
  <2>2. ASSUME NEW q \in Procs PROVE AppendingOf(q)'
    BY <1>6, <2>1, <1>a DEF Quiet
  <2>3. ASSUME NEW q \in Procs PROVE AppendOf(q)'
    <3>1. CASE last'[q].ret = -1
      BY <3>1 DEF AppendOf
    <3>2. QED
      BY <1>6, <2>1, <3>1, <1>b DEF Quiet
  <2>4. QED
    BY <2>2, <2>3 DEF Appends
<1>7. ASSUME NEW p \in Procs, NEW op \in Ops, NEW len \in Nat, Open(p, op, len) PROVE Appends'
  <2>1. cur'[p].id = calls + 1 /\ last' = last /\ full' = full
    BY <1>7, OpenedIs
  <2>2. at' = [at EXCEPT ![p] = IF op \in {"write", "append"} THEN "fwrite" ELSE "ftell"]
    BY <1>7, OpenedIs
  <2>3. bytes' = bytes
    <3>1. (op = "write" => wsteps' = wsteps + 1) /\ (op # "write" => bytes' = bytes)
      BY <1>7, OpenedIs
    <3>2. QED
      BY <3>1, <1>3
  <2>4. Places(bytes, calls + 1) = {}
    <3>1. \A i \in 1 .. Len(bytes) : bytes[i] # calls + 1
      <4>1. \A i \in 1 .. Len(bytes) : bytes[i] <= calls
        BY DEF Ids, Begun
      <4>2. QED
        BY <4>1, <1>2
    <3>2. DOMAIN bytes = 1 .. Len(bytes)
      BY <1>2, LenProperties
    <3>3. QED
      BY <3>1, <3>2 DEF Places
  <2>5. AppendingOf(p)'
    BY <2>1, <2>2, <2>3, <2>4, <1>2 DEF AppendingOf
  <2>6. ASSUME NEW q \in Procs \ {p} PROVE AppendingOf(q)'
    <3>1. cur'[q].op = cur[q].op
      BY <1>7, OpenedIs
    <3>2. cur'[q].id = cur[q].id
      BY <1>7, OpenedIs
    <3>3. cur'[q].data = cur[q].data
      BY <1>7, OpenedIs
    <3>4. cur'[q].buf = cur[q].buf
      BY <1>7, OpenedIs
    <3>5. at'[q] = at[q]
      BY <2>2, <1>2
    <3>6. QED
      BY <2>1, <2>3, <3>1, <3>2, <3>3, <3>4, <3>5, <1>1, <1>a
  <2>7. ASSUME NEW q \in Procs PROVE AppendOf(q)'
    BY <2>1, <2>3, <1>1, <1>b
  <2>8. QED
    BY <2>5, <2>6, <2>7 DEF Appends
<1>8. ASSUME NEW p \in Procs, Fwrite(p) PROVE Appends'
  <2> DEFINE v == cur[p].id
  <2>1. /\ at[p] = "fwrite" /\ at' = [at EXCEPT ![p] = "fclose"] /\ full' = full
        /\ last' = last /\ ~Idle(p)
    BY <1>8 DEF Fwrite, Idle
  <2>2. cur[p].op = "append"
    BY <2>1, <1>4 DEF Stages, StageOf, Writes
  <2>3. PICK d \in Seq(Byte) :
            /\ bytes' = bytes \o d
            /\ \A i \in 1 .. Len(d) : d[i] = v
            /\ Len(d) + Len(cur'[p].buf) = Len(cur[p].data)
            /\ Len(cur[p].data) <= BufSize => Len(d) = 0
    BY <1>1, <1>8, <2>1, <2>2, FwriteAppends
  <2> HIDE DEF v
  <2>4. /\ Cardinality(Places(bytes', v)) = Cardinality(Places(bytes, v)) + Len(d)
        /\ \A w : w # v => Places(bytes', w) = Places(bytes, w)
    <3>1. bytes' = bytes \o d /\ \A i \in 1 .. Len(d) : d[i] = v
      BY <2>3
    <3>2. bytes \in Seq(Byte) /\ d \in Seq(Byte) /\ \A i \in 1 .. Len(d) : d[i] = v
      BY <3>1, <1>2
    <3>3. Cardinality(Places(bytes \o d, v)) = Cardinality(Places(bytes, v)) + Len(d)
      BY <3>2, PlacesAppended
    <3>4. \A w : w # v => Places(bytes \o d, w) = Places(bytes, w)
      BY <3>2, PlacesAppended
    <3>5. QED
      BY <3>1, <3>3, <3>4
  <2>5. /\ cur'[p].op = cur[p].op /\ cur'[p].id = v /\ cur'[p].data = cur[p].data
    BY <1>8, FwriteIs DEF v
  <2>6. \A q \in Procs \ {p} : cur'[q] = cur[q]
    BY <1>8, FwriteIs
  <2>7. Cardinality(Places(bytes, v)) = 0
    <3>1. Places(bytes, v) = {}
      BY <1>1, <1>3, <2>1 DEF Appends, AppendingOf, v
    <3>2. QED
      BY <3>1, FS_EmptySet
  <2>8. AppendingOf(p)'
    <3>1. at'[p] = "fclose"
      BY <2>1, <1>2
    <3>2. Len(d) \in Nat /\ Len(cur'[p].buf) \in Nat /\ Len(cur[p].data) \in Nat
      BY <1>2, <1>5, LenProperties DEF Types, CallType
    <3>3. Cardinality(Places(bytes', v)) + Len(cur'[p].buf) = Len(cur[p].data)
      BY <2>3, <2>4, <2>7, <3>2
    <3>4. Len(cur[p].data) <= BufSize => Len(cur'[p].buf) = Len(cur[p].data)
      BY <2>3, <3>2
    <3>5. QED
      BY <2>5, <3>1, <3>3, <3>4 DEF AppendingOf
  <2>9. ASSUME NEW q \in Procs \ {p} PROVE AppendingOf(q)'
    <3>1. ~Idle(q) => cur[q].id # v
      BY <2>1 DEF Ids, OwnId, v
    <3>2. at'[q] = at[q] /\ cur'[q] = cur[q]
      BY <2>1, <2>6, <1>2
    <3>3. QED
      BY <2>1, <2>4, <3>1, <3>2, <1>1, <1>a
  <2>10. ASSUME NEW q \in Procs PROVE AppendOf(q)'
    <3>1. last[q].id # v
      BY <2>1 DEF Ids, OwnId, v
    <3>2. QED
      BY <2>1, <2>4, <3>1, <1>1, <1>b
  <2>11. QED
    BY <2>8, <2>9, <2>10 DEF Appends
<1>9. ASSUME NEW p \in Procs, FcloseWrite(p) PROVE Appends'
  <2> DEFINE v == cur[p].id
             d == cur[p].buf
  <2>1. /\ at[p] = "fclose" /\ Writes(p) /\ full' = full /\ at'[p] = "idle"
        /\ last'[p].op = cur[p].op /\ last'[p].id = v /\ last'[p].len = Len(cur[p].data)
    BY <1>9, FcloseEnds
  <2>2. \A q \in Procs \ {p} : cur'[q] = cur[q] /\ at'[q] = at[q] /\ last'[q] = last[q]
    BY <1>9, FcloseEnds
  <2>3. cur[p].op = "append" /\ ~Idle(p)
    BY <2>1, <1>4 DEF Writes, Idle
  <2>4. bytes' = bytes \o d
    BY <1>1, <1>9, <2>1, <2>3, FcloseAppends
  <2>5. d \in Seq(Byte) /\ \A i \in 1 .. Len(d) : d[i] = v
    BY <2>1, <1>5 DEF Blocks, BlockOf
  <2>6. /\ Cardinality(Places(bytes, v)) + Len(d) = Len(cur[p].data)
        /\ Len(cur[p].data) <= BufSize => Len(d) = Len(cur[p].data)
    BY <1>1, <1>3, <2>1, <2>3 DEF Appends, AppendingOf
  <2> HIDE DEF v, d
  <2>7. /\ Cardinality(Places(bytes', v)) = Cardinality(Places(bytes, v)) + Len(d)
        /\ \A w : w # v => Places(bytes', w) = Places(bytes, w)
    BY <2>4, <2>5, <1>2, PlacesAppended
  <2>8. \E i \in 0 .. Len(bytes') - Len(d) : \A j \in 1 .. Len(d) : bytes'[i + j] = v
    BY <2>4, <2>5, PieceAppended
  <2>9. AppendOf(p)'
    <3>1. Cardinality(Places(bytes', last'[p].id)) = last'[p].len
      BY <2>1, <2>6, <2>7
    <3>2. last'[p].len <= BufSize => InOnePiece(last[p].id, last[p].len)'
      BY <2>1, <2>6, <2>8 DEF InOnePiece
    <3>3. QED
      BY <3>1, <3>2 DEF AppendOf
  <2>10. AppendingOf(p)'
    BY <2>1, <1>c
  <2>11. ASSUME NEW q \in Procs \ {p} PROVE AppendingOf(q)' /\ AppendOf(q)'
    <3>1. (~Idle(q) => cur[q].id # v) /\ last[q].id # v
      BY <2>3 DEF Ids, OwnId, v
    <3>2. QED
      BY <2>1, <2>2, <2>7, <3>1, <1>1, <1>a, <1>b
  <2>12. QED
    BY <2>9, <2>10, <2>11 DEF Appends
<1>10. ASSUME NEW p \in Procs, Ftell(p) \/ Fread(p), cur[p].op # "size" PROVE Appends'
  <2>1. \A q \in Procs \ {p} : cur'[q] = cur[q]
    BY <1>10, FtellIs, FreadIs
  <2>2. /\ at' = [at EXCEPT ![p] = "fread"] \/ at' = [at EXCEPT ![p] = "fclose"]
        /\ bytes' = bytes /\ full' = full /\ last' = last /\ cur[p].op = "read"
    BY <1>10 DEF Ftell, Fread, file, Stages, StageOf
  <2>3. cur'[p].op = "read"
    BY <1>10, <2>2, FtellIs, FreadIs
  <2>4. AppendingOf(p)'
    BY <2>2, <2>3, <1>2 DEF AppendingOf
  <2>5. ASSUME NEW q \in Procs \ {p} PROVE AppendingOf(q)'
    BY <2>1, <2>2, <1>1, <1>2, <1>a
  <2>6. ASSUME NEW q \in Procs PROVE AppendOf(q)'
    BY <2>2, <1>1, <1>b
  <2>7. QED
    BY <2>4, <2>5, <2>6 DEF Appends
<1>11. ASSUME NEW p \in Procs, Ended(p) PROVE Appends'
  <2>1. /\ bytes' = bytes /\ full' = full /\ at'[p] = "idle"
        /\ \A q \in Procs \ {p} : cur'[q] = cur[q] /\ at'[q] = at[q] /\ last'[q] = last[q]
    BY <1>11 DEF Ended
  <2>2. AppendingOf(p)'
    BY <2>1, <1>c
  <2>3. AppendOf(p)'
    <3>1. CASE last'[p] = last[p]
      BY <2>1, <3>1, <1>1, <1>b
    <3>2. CASE last'[p] # last[p]
      BY <1>11, <3>2 DEF Ended, AppendOf
    <3>3. QED
      BY <3>1, <3>2
  <2>4. ASSUME NEW q \in Procs \ {p} PROVE AppendingOf(q)' /\ AppendOf(q)'
    BY <2>1, <1>1, <1>a, <1>b
  <2>5. QED
    BY <2>2, <2>3, <2>4 DEF Appends
<1>12. QED
  <2>1. ASSUME NEW p \in Procs, Fread(p) PROVE Appends'
    <3>1. cur[p].op # "size"
      BY <2>1 DEF Fread, Stages, StageOf
    <3>2. QED
      BY <2>1, <3>1, <1>10
  <2>2. QED
    BY <1>6, <1>7, <1>8, <1>9, <1>10, <1>11, <2>1, StepShape DEF Shape

-----------------------------------------------------------------------------
(***************************************************************************)
(* The steps of io_write_all: three for every call, at most.               *)
(***************************************************************************)
Truncating == {p \in Procs : cur[p].op = "write"}
Unwritten  == {p \in Truncating : at[p] = "fwrite"}

\* The steps taken and those the open calls still have are three per call.
Budget ==
    /\ IsFiniteSet(Truncating)
    /\ wsteps + Cardinality(Truncating) + Cardinality(Unwritten) <= 3 * calls

\* A set of open calls loses or gains the one that takes the step.
LEMMA BudgetNext ==
    ASSUME Types, Stages, Budget, [Next]_vars
    PROVE  Budget'
<1>1. /\ at \in [Procs -> {"idle", "fwrite", "fclose", "ftell", "fread"}]
      /\ wsteps \in Nat /\ calls \in Nat
  BY DEF Types
<1>2. /\ IsFiniteSet(Truncating) /\ IsFiniteSet(Unwritten)
      /\ Cardinality(Truncating) \in Nat /\ Cardinality(Unwritten) \in Nat
      /\ wsteps + Cardinality(Truncating) + Cardinality(Unwritten) <= 3 * calls
  <2>1. Unwritten \in SUBSET Truncating
    BY DEF Unwritten
  <2>2. QED
    BY <2>1, FS_Subset, FS_CardinalityType DEF Budget
<1>a. ASSUME \A q \in Procs : cur'[q].op = cur[q].op /\ (cur[q].op = "write" => at'[q] = at[q]),
             wsteps' = wsteps, calls' \in Nat, calls <= calls'
      PROVE  Budget'
  <2>1. Truncating' = Truncating /\ Unwritten' = Unwritten
    BY <1>a DEF Truncating, Unwritten
  <2>2. QED
    BY <1>a, <1>1, <1>2, <2>1 DEF Budget
<1>b. ASSUME NEW p \in Procs, cur'[p].op = "none", at'[p] = "idle", calls' = calls,
             \A q \in Procs \ {p} : cur'[q] = cur[q] /\ at'[q] = at[q],
             \/ wsteps' = wsteps
             \/ wsteps' = wsteps + 1 /\ p \in Truncating
      PROVE  Budget'
  <2>1. Truncating' = Truncating \ {p} /\ Unwritten' = Unwritten \ {p}
    BY <1>b DEF Truncating, Unwritten
  <2>2. /\ IsFiniteSet(Truncating \ {p})
        /\ Cardinality(Truncating \ {p}) = IF p \in Truncating THEN Cardinality(Truncating) - 1
                                           ELSE Cardinality(Truncating)
    BY <1>2, FS_RemoveElement
  <2>3. Cardinality(Unwritten \ {p}) = IF p \in Unwritten THEN Cardinality(Unwritten) - 1
                                       ELSE Cardinality(Unwritten)
    BY <1>2, FS_RemoveElement
  <2>4. wsteps' + Cardinality(Truncating \ {p}) + Cardinality(Unwritten \ {p}) <= 3 * calls
    BY <1>1, <1>2, <1>b, <2>2, <2>3
  <2>5. QED
    BY <1>b, <2>1, <2>2, <2>4 DEF Budget
<1>3. CASE Quiet
  <2>1. wsteps' = wsteps /\ calls' \in Nat /\ calls <= calls'
    BY <1>1, <1>3 DEF Quiet
  <2>2. QED
    BY <1>3, <1>a, <2>1 DEF Quiet
<1>4. ASSUME NEW p \in Procs, NEW op \in Ops, NEW len \in Nat, Open(p, op, len) PROVE Budget'
  <2>1. cur'[p].op = op /\ calls' = calls + 1 /\ Idle(p)
    BY <1>4, OpenedIs
  <2>2. (op = "write" => wsteps' = wsteps + 1) /\ (op # "write" => wsteps' = wsteps)
    BY <1>4, OpenedIs
  <2>3. at' = [at EXCEPT ![p] = IF op \in {"write", "append"} THEN "fwrite" ELSE "ftell"]
    BY <1>4, OpenedIs
  <2>4. \A q \in Procs \ {p} : cur'[q].op = cur[q].op
    BY <1>4, OpenedIs
  <2>5. cur[p].op = "none"
    BY <2>1 DEF Stages, StageOf
  <2>6. CASE op = "write"
    <3>1. Truncating' = Truncating \cup {p} /\ Unwritten' = Unwritten \cup {p}
      BY <2>1, <2>3, <2>4, <2>6, <1>1 DEF Truncating, Unwritten
    <3>2. p \notin Truncating /\ p \notin Unwritten
      BY <2>5 DEF Truncating, Unwritten
    <3>3. /\ IsFiniteSet(Truncating \cup {p})
          /\ Cardinality(Truncating \cup {p}) = Cardinality(Truncating) + 1
          /\ Cardinality(Unwritten \cup {p}) = Cardinality(Unwritten) + 1
      BY <1>2, <3>2, FS_AddElement
    <3>4. wsteps' + Cardinality(Truncating \cup {p}) + Cardinality(Unwritten \cup {p}) <= 3 * calls'
      BY <1>1, <1>2, <2>1, <2>2, <2>6, <3>3
    <3>5. QED
      BY <3>1, <3>3, <3>4 DEF Budget
  <2>7. CASE op # "write"
    <3>1. Truncating' = Truncating /\ Unwritten' = Unwritten
      BY <2>1, <2>3, <2>4, <2>5, <2>7, <1>1 DEF Truncating, Unwritten
    <3>2. QED
      BY <1>1, <1>2, <2>1, <2>2, <2>7, <3>1 DEF Budget
  <2>8. QED
    BY <2>6, <2>7
<1>5. ASSUME NEW p \in Procs, Fwrite(p) PROVE Budget'
  <2>1. cur'[p].op = cur[p].op /\ \A q \in Procs \ {p} : cur'[q] = cur[q]
    BY <1>5, FwriteIs
  <2>2. at[p] = "fwrite" /\ at' = [at EXCEPT ![p] = "fclose"] /\ Wstep(p) /\ calls' = calls
    BY <1>5 DEF Fwrite
  <2>3. Truncating' = Truncating /\ Unwritten' = Unwritten \ {p}
    BY <2>1, <2>2, <1>1 DEF Truncating, Unwritten
  <2>4. Cardinality(Unwritten \ {p}) = IF p \in Unwritten THEN Cardinality(Unwritten) - 1
                                       ELSE Cardinality(Unwritten)
    BY <1>2, FS_RemoveElement
  <2>5. p \in Unwritten <=> cur[p].op = "write"
    BY <2>2 DEF Truncating, Unwritten
  <2>6. /\ cur[p].op = "write" => wsteps' = wsteps + 1
        /\ cur[p].op # "write" => wsteps' = wsteps
    BY <2>2, WstepIs
  <2>7. wsteps' + Cardinality(Truncating) + Cardinality(Unwritten \ {p}) <= 3 * calls
    BY <1>1, <1>2, <2>4, <2>5, <2>6
  <2>8. QED
    BY <1>2, <2>2, <2>3, <2>7 DEF Budget
<1>6. ASSUME NEW p \in Procs, FcloseWrite(p) PROVE Budget'
  <2>1. /\ cur'[p].op = "none" /\ at'[p] = "idle" /\ Wstep(p) /\ calls' = calls
        /\ \A q \in Procs \ {p} : cur'[q] = cur[q] /\ at'[q] = at[q]
    BY <1>6, FcloseEnds
  <2>2. /\ cur[p].op = "write" => wsteps' = wsteps + 1
        /\ cur[p].op # "write" => wsteps' = wsteps
    BY <2>1, WstepIs
  <2>3. QED
    BY <2>1, <2>2, <1>b DEF Truncating
<1>7. ASSUME NEW p \in Procs, Ftell(p) \/ Fread(p), cur[p].op # "size" PROVE Budget'
  <2>1. cur'[p].op = cur[p].op /\ \A q \in Procs \ {p} : cur'[q] = cur[q]
    BY <1>7, FtellIs, FreadIs
  <2>2. /\ at' = [at EXCEPT ![p] = "fread"] \/ at' = [at EXCEPT ![p] = "fclose"]
        /\ wsteps' = wsteps /\ calls' = calls /\ cur[p].op = "read"
    BY <1>7 DEF Ftell, Fread, file, Stages, StageOf
  <2>3. \A q \in Procs : cur[q].op = "write" => at'[q] = at[q]
    BY <2>2, <1>1
  <2>4. \A q \in Procs : cur'[q].op = cur[q].op
    BY <2>1
  <2>5. QED
    BY <1>1, <2>2, <2>3, <2>4, <1>a
<1>8. ASSUME NEW p \in Procs, Ended(p) PROVE Budget'
  BY <1>8, <1>b DEF Ended
<1>9. QED
  <2>1. ASSUME NEW p \in Procs, Fread(p) PROVE Budget'
    <3>1. cur[p].op # "size"
      BY <2>1 DEF Fread, Stages, StageOf
    <3>2. QED
      BY <2>1, <3>1, <1>7
  <2>2. QED
    BY <1>3, <1>4, <1>5, <1>6, <1>7, <1>8, <2>1, StepShape DEF Shape

-----------------------------------------------------------------------------
(***************************************************************************)
(* The theorems.                                                           *)
(***************************************************************************)
FilesInv == Types /\ Stages /\ Blocks /\ Ids /\ Reads /\ Lone /\ Appends /\ Budget

\* The file is not there and nobody has called.
LEMMA FilesInit == Init => FilesInv
<1> SUFFICES ASSUME Init PROVE FilesInv
  OBVIOUS
<1>1. Types /\ Stages
  BY InitTypes
<1>2. Blocks /\ Lone
  BY DEF Init, Blocks, BlockOf, Writes, Lone, AloneOf, WholeOf, Idle, NoCall
<1>3. Len(<< >>) = 0
  BY EmptySeq
<1>4. Ids
  BY <1>3 DEF Init, Ids, Begun, OwnId, Idle, NoResult
<1>5. Reads
  BY DEF Init, Reads, ReadingOf, ReadOf, NoResult
<1>6. Appends
  BY DEF Init, Appends, AppendingOf, AppendOf, NoResult
<1>7. Budget
  <2>1. Truncating = {} /\ Unwritten = {}
    BY DEF Init, Truncating, Unwritten, NoCall
  <2>2. wsteps = 0 /\ calls = 0
    BY DEF Init
  <2>3. QED
    BY <2>1, <2>2, FS_EmptySet DEF Budget
<1>8. QED
  BY <1>1, <1>2, <1>4, <1>5, <1>6, <1>7 DEF FilesInv

\* Every step keeps all of it.
LEMMA FilesNext == FilesInv /\ [Next]_vars => FilesInv'
BY TypesNext, StagesNext, BlocksNext, IdsNext, ReadsNext, LoneNext, AppendsNext, BudgetNext
   DEF FilesInv

\* The invariant holds in every state of every behaviour.
LEMMA FilesAlways == Spec => []FilesInv
BY FilesInit, FilesNext, PTL DEF Spec

\* The types of Files: every byte of the file is of a call that has begun, and
\* every way out of a helper, a kill included, ends its call.
THEOREM FilesTypeCorrect == Spec => []TypeOK
<1>1. FilesInv => TypeOK
  <2>1. SUFFICES ASSUME FilesInv PROVE TypeOK
    OBVIOUS
  <2>2. Types /\ Stages /\ Budget
    BY <2>1 DEF FilesInv
  <2>3. wsteps \in 0 .. 3 * calls
    <3>1. wsteps \in Nat /\ calls \in Nat
      BY <2>2 DEF Types
    <3>2. Unwritten \in SUBSET Truncating
      BY DEF Unwritten
    <3>3. Cardinality(Truncating) \in Nat /\ Cardinality(Unwritten) \in Nat
      BY <2>2, <3>2, FS_Subset, FS_CardinalityType DEF Budget
    <3>4. QED
      BY <2>2, <3>1, <3>3 DEF Budget
  <2>4. QED
    BY <2>2, <2>3 DEF Types, Stages, StageOf, TypeOK, Byte
<1>2. QED
  BY <1>1, FilesAlways, PTL

\* io_read_all: when no io_write_all came in between, all of *out_len was read,
\* and it still is the start of the file, however many appends have come since.
THEOREM ReadsWholeCorrect == Spec => []ReadsWhole
<1>1. FilesInv => ReadsWhole
  BY DEF FilesInv, Reads, ReadOf, ReadsWhole
<1>2. QED
  BY <1>1, FilesAlways, PTL

\* io_append: on a file nobody truncates and a device with room, an append that
\* returned 0 is in the file once, and in one piece when it fits in the buffer.
THEOREM AppendsSurviveCorrect == Spec => []AppendsSurvive
<1>1. FilesInv => AppendsSurvive
  BY DEF FilesInv, Appends, AppendOf, Places, AppendsSurvive
<1>2. QED
  BY <1>1, FilesAlways, PTL

\* io_write_all: with nobody else at the file and room on the device, it
\* returns 0 and the file holds its data and nothing else.
THEOREM WritesAloneCorrect == Spec => WritesAlone
<1> DEFINE A == \A p \in Procs :
                  (FcloseWrite(p) /\ cur[p].op = "write" /\ cur[p].alone /\ ~full)
                     => last'[p].ret = 0 /\ bytes' = cur[p].data
<1>1. FilesInv /\ [Next]_vars => [A]_vars
  BY FcloseWhole DEF FilesInv, Lone
<1>2. QED
  BY <1>1, FilesAlways, PTL DEF Spec, WritesAlone


=============================================================================
