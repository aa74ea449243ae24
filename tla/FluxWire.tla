------------------------------- MODULE FluxWire -------------------------------
(***************************************************************************)
(* The Flux wire format as flux/flux.c and std/flux.vex write and read it. *)
(* A message is a sequence of bytes: tag bytes keep the numbers of flux.h, *)
(* payload bytes are digits in base B (256 in the code), lowest first, and *)
(* sizes and counts are unsigned LEB128 in groups of base G (128).         *)
(*                                                                         *)
(* W bounds a count (2^64 in the code).  As there, where 2^64 is no power  *)
(* of 2^7, W need not be a power of G: the last group is a partial one.    *)
(*                                                                         *)
(* A number given to the double encoder stands for a double; it can be     *)
(* represented in a float exactly when it is a value of four bytes.        *)
(***************************************************************************)
EXTENDS Integers, Sequences, FiniteSetsExt

CONSTANTS B, W

G == B \div 2

\* A power as a recursive function: the provers know no laws of ^.
Pow(base, n) == LET p[i \in Nat] == IF i = 0 THEN 1 ELSE base * p[i - 1] IN p[n]

\* How many values so many bytes have.
Span == [size \in {1, 2, 4, 8} |-> Pow(B, size)]

ASSUME BaseAssumption == B \in Nat /\ B % 2 = 0 /\ B > 3
ASSUME WordAssumption == W \in Nat /\ W > G /\ W <= Span[8]

OK        == 0
OVERFLOW  == 1
TRUNCATED == 2
BADTAG    == 3

NULL  == 0
FALSE_TAG == 1
TRUE_TAG  == 2
F32   == 11
F64   == 12
BYTES == 13
STR   == 14
LIST  == 15
MAP   == 16
SCHEMA == 17

\* The tags of integers: INT8 .. INT64 are 3 .. 6, UINT8 .. UINT64 are 7 .. 10.
IntTag(signed, size) ==
    (IF signed THEN 3 ELSE 7) + CHOOSE e \in 0 .. 3 : 2^e = size

\* Mutant: the decoder has no case for UINT64.
IntTagsShort == 3 .. 9

IntTags      == 3 .. 10
IntSize(tag) == 2^((tag - 3) % 4)

\* Mutant: the sign of the widest integers is not extended.
IsSignedShort(tag) == tag \in 3 .. 5

IsSigned(tag) == tag \in 3 .. 6

Unsigned(size) == 0 .. Span[size] - 1
Signed(size)   == -(Span[size] \div 2) .. Span[size] \div 2 - 1

-----------------------------------------------------------------------------
(***************************************************************************)
(* Digits and varints.                                                     *)
(***************************************************************************)
\* What is left of a number when n digits have been taken off it.
Left(v, base, n) == LET q[i \in Nat] == IF i = 0 THEN v ELSE q[i - 1] \div base IN q[n]

Digits(v, base, n) == [i \in 1 .. n |-> Left(v, base, i - 1) % base]

\* The number with these digits, highest digit first.
FromDigits(s, base) ==
    LET n == Len(s)
        h[i \in 0 .. n] == IF i = 0 THEN 0 ELSE s[n + 1 - i] + base * h[i - 1]
    IN  h[n]

\* So many groups, until nothing is left.  Sixteen are enough for eight bytes,
\* as G * G >= B.
VarintSize(n) == CHOOSE k \in 1 .. 16 : Left(n, G, k) = 0 /\ (k = 1 \/ Left(n, G, k - 1) # 0)

\* The reader gives up after the group that reaches the word's width.
MaxGroups == VarintSize(W - 1)

\* flux_write_varint, in a buffer with room for it.
Varint(n) ==
    LET k == VarintSize(n)
        d == Digits(n, G, k)
    IN  [i \in 1 .. k |-> (IF i < k THEN G ELSE 0) + d[i]]

\* flux_read_varint from position p: its status, the position it leaves the
\* cursor at and the number.  Every byte is consumed as it is looked at.
ReadVarint(s, p) ==
    LET last(k) == s[p + k] < G
        groups  == {k \in 1 .. MaxGroups : p + k <= Len(s)}
        ends    == {k \in groups : last(k)}
    IN  CASE ends # {} ->
               LET k == Min(ends) IN
               [st |-> OK, pos |-> p + k,
                n |-> FromDigits([i \in 1 .. k |-> s[p + i] % G], G) % W]
          [] ends = {} /\ groups = 1 .. MaxGroups ->
               [st |-> OVERFLOW, pos |-> p + MaxGroups, n |-> 0]
          [] OTHER ->
               [st |-> TRUNCATED, pos |-> Len(s), n |-> 0]

-----------------------------------------------------------------------------
(***************************************************************************)
(* What is encoded: one call of an encoder for each item.                  *)
(***************************************************************************)
Null       == [t |-> "null"]
Bool(b)    == [t |-> "bool", b |-> b]
Int64(v)   == [t |-> "int", v |-> v]
Double(v)  == [t |-> "double", v |-> v]
Blob(t, s) == [t |-> t, s |-> s]         \* t is "bytes" or "str"
Count(t, n) == [t |-> t, n |-> n]         \* t is "list", "map" or "schema"

\* What the encoders can be given: 64-bit integers and lengths, counts and schema
\* identifiers of a word.
ApiItems ==
    {Null} \cup [t : {"bool"}, b : BOOLEAN]
      \cup [t : {"int"}, v : Signed(8)] \cup [t : {"double"}, v : Unsigned(8)]
      \cup {x \in [t : {"bytes", "str"}, s : Seq(0 .. B - 1)] : Len(x.s) < W}
      \cup [t : {"list", "map", "schema"}, n : 0 .. W - 1]

HeaderTag(t) == CASE t = "bytes" -> BYTES [] t = "str" -> STR
                   [] t = "list" -> LIST   [] t = "map" -> MAP
                   [] t = "schema" -> SCHEMA

\* Mutant: 256 is taken to fit in an unsigned byte.
CIntTagOffByOne(v) ==
    LET fits == {n \in {1, 2, 4} : IF v >= 0 THEN v <= Span[n] ELSE v >= -(Span[n] \div 2)}
    IN  IF fits = {} THEN IntTag(TRUE, 8) ELSE IntTag(v < 0, Min(fits))

\* flux_encode_int64: the first width whose range holds v, and INT64 last.
CIntTag(v) ==
    LET fits == {n \in {1, 2, 4} : IF v >= 0 THEN v <= Span[n] - 1 ELSE v >= -(Span[n] \div 2)}
    IN  IF fits = {} THEN IntTag(TRUE, 8) ELSE IntTag(v < 0, Min(fits))

\* flux_enc_i64: four unsigned bytes only up to the largest i32, and UINT64 for
\* every larger number.
VexIntTag(v) ==
    LET most(n) == IF n = 4 THEN Span[4] \div 2 - 1 ELSE Span[n] - 1
        fits == {n \in {1, 2, 4} : IF v >= 0 THEN v <= most(n) ELSE v >= -(Span[n] \div 2)}
    IN  IF fits = {} THEN IntTag(v < 0, 8) ELSE IntTag(v < 0, Min(fits))

IntBytes(tag, v) == <<tag>> \o Digits(v, B, IntSize(tag))

(***************************************************************************)
(* The bytes an encoder call writes: `Header' one at a time, each with its   *)
(* own test of the capacity, then `Payload' after one test for all of it.     *)
(***************************************************************************)
Header(x) ==
    CASE x.t = "null" -> <<NULL>>
      [] x.t = "bool" -> <<IF x.b THEN TRUE_TAG ELSE FALSE_TAG>>
      [] x.t \in {"bytes", "str"} -> <<HeaderTag(x.t)>> \o Varint(Len(x.s))
      [] x.t \in {"list", "map", "schema"} -> <<HeaderTag(x.t)>> \o Varint(x.n)
      [] OTHER -> << >>

Payload(lang, x) ==
    CASE x.t = "int" -> IntBytes(IF lang = "C" THEN CIntTag(x.v) ELSE VexIntTag(x.v), x.v)
      [] x.t = "double" ->
            IF lang = "C" /\ x.v < Span[4] THEN <<F32>> \o Digits(x.v, B, 4)
                                       ELSE <<F64>> \o Digits(x.v, B, 8)
      [] x.t \in {"bytes", "str"} -> x.s
      [] OTHER -> << >>

\* Mutant: no test of the room for the bytes of a string.
RoomForgetsBlobs(x) == IF x.t \in {"int", "double"} THEN 9 ELSE 0

\* The room the test before the payload asks for: nine bytes for any number.
PayloadRoom(x) == CASE x.t \in {"int", "double"} -> 9
                 [] x.t \in {"bytes", "str"} -> Len(x.s)
                 [] OTHER -> 0

\* An encoder call with `room' bytes left: its status and what it has written.
Encoded(lang, x, room) ==
    LET head == Header(x)
        body == Payload(lang, x)
    IN  IF Len(head) + PayloadRoom(x) <= room
        THEN [st |-> OK, bytes |-> head \o body]
        ELSE [st |-> OVERFLOW, bytes |-> SubSeq(head, 1, Min({room, Len(head)}))]

-----------------------------------------------------------------------------
(***************************************************************************)
(* flux_decode and flux_dec: one item from position p of the bytes s.  The *)
(* cursor is past the tag before anything else is looked at.               *)
(***************************************************************************)
NoItem == [t |-> "none"]

Failed(st, p)  == [st |-> st, pos |-> p, item |-> NoItem]
Decoded(p, x)  == [st |-> OK, pos |-> p, item |-> x]

\* Mutant: an integer is only decoded when another byte follows it.
DecodeIntAsksMore(tag, s, q) ==
    LET size == IntSize(tag)
        u    == FromDigits(SubSeq(s, q + 1, q + size), B)
    IN  IF q + size >= Len(s) THEN Failed(TRUNCATED, q)
        ELSE Decoded(q + size,
                Int64(IF IsSigned(tag) /\ u >= Span[size] \div 2 THEN u - Span[size] ELSE u))

DecodeInt(tag, s, q) ==
    LET size == IntSize(tag)
        u    == FromDigits(SubSeq(s, q + 1, q + size), B)
    IN  IF q + size > Len(s) THEN Failed(TRUNCATED, q)
        ELSE Decoded(q + size,
                Int64(IF IsSigned(tag) /\ u >= Span[size] \div 2 THEN u - Span[size] ELSE u))

DecodeDouble(tag, s, q) ==
    LET size == IF tag = F32 THEN 4 ELSE 8
    IN  IF q + size > Len(s) THEN Failed(TRUNCATED, q)
        ELSE Decoded(q + size, Double(FromDigits(SubSeq(s, q + 1, q + size), B)))

DecodeBlob(t, s, q) ==
    LET r   == ReadVarint(s, q)
        end == (r.pos + r.n) % W
    IN  CASE r.st # OK                  -> Failed(r.st, r.pos)
          [] r.st = OK /\ end > Len(s) -> Failed(TRUNCATED, r.pos)
          [] OTHER -> Decoded(end, Blob(t, SubSeq(s, r.pos + 1, end)))

DecodeCount(t, s, q) ==
    LET r == ReadVarint(s, q)
    IN  IF r.st # OK THEN Failed(r.st, r.pos) ELSE Decoded(r.pos, Count(t, r.n))

\* Only std/flux.vex knows the tag of a schema header.
Decode(lang, s, p) ==
    IF p >= Len(s) THEN Failed(TRUNCATED, p)
    ELSE LET tag == s[p + 1]
             q   == p + 1
         IN  CASE tag = NULL                 -> Decoded(q, Null)
               [] tag \in {FALSE_TAG, TRUE_TAG} -> Decoded(q, Bool(tag = TRUE_TAG))
               [] tag \in IntTags            -> DecodeInt(tag, s, q)
               [] tag \in {F32, F64}         -> DecodeDouble(tag, s, q)
               [] tag = BYTES                -> DecodeBlob("bytes", s, q)
               [] tag = STR                  -> DecodeBlob("str", s, q)
               [] tag = LIST                 -> DecodeCount("list", s, q)
               [] tag = MAP                  -> DecodeCount("map", s, q)
               [] tag = SCHEMA /\ lang = "Vex" -> DecodeCount("schema", s, q)
               [] OTHER                      -> Failed(BADTAG, q)
=============================================================================
