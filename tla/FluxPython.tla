------------------------------ MODULE FluxPython ------------------------------
(***************************************************************************)
(* encode and decode of flux/flux.py: whole Python values, lists and       *)
(* dictionaries inside one another, to and from the bytes of FluxWire.     *)
(*                                                                         *)
(* A dict is the row of its items in insertion order.  Characters are one  *)
(* byte each, but for lone surrogates, which have none in UTF-8.  As in    *)
(* FluxWire a number stands for a double; those from DoubleMax up are      *)
(* finite doubles beyond the range of a float.                             *)
(***************************************************************************)
EXTENDS FluxWire, SequencesExt

DoubleMax == Pow(B, 7)
Surrogate == B

List(items)   == [t |-> "list", items |-> items]
Tuple(items)  == [t |-> "tuple", items |-> items]
Dict(entries) == [t |-> "map", entries |-> entries]

-----------------------------------------------------------------------------
(***************************************************************************)
(* Encoding.                                                               *)
(***************************************************************************)
PyInts == -(Span[8] \div 2) .. Span[8] - 1

\* _enc_int: the first width whose range holds n.
PyIntTag(n) ==
    LET fits == {s \in {1, 2, 4, 8} : IF n >= 0 THEN n <= Span[s] - 1 ELSE n >= -(Span[s] \div 2)}
    IN  IntTag(n < 0, Min(fits))

\* What encode does not raise an exception for: struct.pack refuses an integer
\* that has no eight-byte form, and packs every double as a float first; str.encode
\* refuses a lone surrogate.
RECURSIVE Accepts(_)
Accepts(v) ==
    CASE v.t = "int"               -> v.v \in PyInts
      [] v.t = "double"            -> v.v < DoubleMax
      [] v.t = "str"               -> Surrogate \notin ToSet(v.s)
      [] v.t \in {"list", "tuple"} -> \A i \in DOMAIN v.items : Accepts(v.items[i])
      [] v.t = "map"               -> \A i \in DOMAIN v.entries :
                                         Accepts(v.entries[i][1]) /\ Accepts(v.entries[i][2])
      [] OTHER                     -> TRUE

RECURSIVE Enc(_)
Enc(v) ==
    CASE v.t = "int" -> IntBytes(PyIntTag(v.v), v.v)
      [] v.t \in {"list", "tuple"} ->
            <<LIST>> \o Varint(Len(v.items))
                     \o FlattenSeq([i \in DOMAIN v.items |-> Enc(v.items[i])])
      [] v.t = "map" ->
            <<MAP>> \o Varint(Len(v.entries))
                    \o FlattenSeq([i \in DOMAIN v.entries |->
                                     Enc(v.entries[i][1]) \o Enc(v.entries[i][2])])
      [] OTHER -> Header(v) \o Payload("C", v)

-----------------------------------------------------------------------------
(***************************************************************************)
(* Decoding.  A result is [ok, pos, val]; ~ok is an exception.             *)
(***************************************************************************)
Raised       == [ok |-> FALSE, pos |-> 0, val |-> NoItem]
Returned(p, v) == [ok |-> TRUE, pos |-> p, val |-> v]

\* _decode_varint has no limit and raises at the end of the buffer.
PyVarint(s, p) ==
    LET ends == {k \in 1 .. Len(s) - p : s[p + k] < G} IN
    IF ends = {} THEN Raised
    ELSE Returned(p + Min(ends), FromDigits([i \in 1 .. Min(ends) |-> s[p + i] % G], G))

\* Mutant: a number is unpacked from the bytes there are.
PyFixedShort(s, q, x) == [x EXCEPT !.ok = TRUE, !.val = IF x.ok THEN @ ELSE Int64(0)]

\* struct.unpack_from and buf[pos] raise when the bytes are not all there.
PyFixed(s, q, x) == x

PyNumber(tag, s, q) ==
    LET r == IF tag \in IntTags THEN DecodeInt(tag, s, q) ELSE DecodeDouble(tag, s, q)
    IN  PyFixed(s, q, [ok |-> r.st = OK, pos |-> r.pos, val |-> r.item])

\* A slice past the end of the buffer is cut without a word; the position is not.
PyBlob(t, s, q) ==
    LET n == PyVarint(s, q) IN
    IF ~n.ok THEN Raised
    ELSE Returned(n.pos + n.val, Blob(t, SubSeq(s, n.pos + 1, Min({n.pos + n.val, Len(s)}))))

\* d[k] = v
SetItem(d, k, v) ==
    IF \E i \in DOMAIN d : d[i][1] = k
    THEN [i \in DOMAIN d |-> IF d[i][1] = k THEN <<k, v>> ELSE d[i]]
    ELSE Append(d, <<k, v>>)

Hashable(k) == k.t \notin {"list", "map"}

RECURSIVE PyDec(_, _), PyDecItems(_, _, _), PyDecPairs(_, _, _, _)

PyDec(s, p) ==
    IF p >= Len(s) THEN Raised
    ELSE LET tag == s[p + 1]
             q   == p + 1
         IN  CASE tag = NULL                    -> Returned(q, Null)
               [] tag \in {FALSE_TAG, TRUE_TAG} -> Returned(q, Bool(tag = TRUE_TAG))
               [] tag \in IntTags \cup {F32, F64} -> PyNumber(tag, s, q)
               [] tag = BYTES                   -> PyBlob("bytes", s, q)
               [] tag = STR                     -> PyBlob("str", s, q)
               [] tag \in {LIST, MAP} ->
                     LET n == PyVarint(s, q)
                         r == IF tag = LIST THEN PyDecItems(s, n.pos, n.val)
                                            ELSE PyDecPairs(s, n.pos, n.val, << >>)
                     IN  IF ~n.ok \/ ~r.ok THEN Raised
                         ELSE Returned(r.pos, IF tag = LIST THEN List(r.val) ELSE Dict(r.val))
               [] OTHER                         -> Raised

\* n values in a row.
PyDecItems(s, p, n) ==
    IF n = 0 THEN Returned(p, << >>)
    ELSE LET first == PyDec(s, p)
             rest  == PyDecItems(s, first.pos, n - 1)
         IN  IF ~first.ok \/ ~rest.ok THEN Raised
             ELSE Returned(rest.pos, <<first.val>> \o rest.val)

\* n keys with their values, put into the dict d.
PyDecPairs(s, p, n, d) ==
    IF n = 0 THEN Returned(p, d)
    ELSE LET k == PyDec(s, p)
             v == PyDec(s, k.pos)
         IN  IF ~k.ok \/ ~v.ok \/ ~Hashable(k.val) THEN Raised
             ELSE PyDecPairs(s, v.pos, n - 1, SetItem(d, k.val, v.val))
=============================================================================
