------------------------------ MODULE FluxStream ------------------------------
(***************************************************************************)
(* An encoder and a decoder of Flux at the two ends of a byte stream.      *)
(*                                                                         *)
(* The writer encodes items into a buffer of Cap bytes and, as both APIs   *)
(* leave to it, puts the cursor back to where it was when a call reports   *)
(* OVERFLOW.  The bytes of finished calls reach the reader in order, any   *)
(* number at a time; the reader decodes from what has arrived, one item    *)
(* per call, and puts its cursor back when a call reports TRUNCATED.       *)
(* The two ends may be the C and the Vex implementation in any mixture.    *)
(***************************************************************************)
EXTENDS FluxWire, SequencesExt

CONSTANTS Items,      \* the items the writer may encode
          Cap,        \* the capacity of the buffer
          MaxItems,   \* bound: calls of the encoder that succeed
          Ends        \* who is at the two ends: records [writer, reader, schemas]

ASSUME CapAssumption == Cap \in Nat /\ Cap < W

\* An item is one the encoders take, in a message whose size a word can hold.
ASSUME ItemAssumption ==
    /\ Items \subseteq ApiItems
    /\ \A x \in Items : Len(Header(x)) + PayloadRoom(x) < W

\* Only std/flux.vex reads schema headers.
ASSUME EndsAssumption ==
    /\ Ends \subseteq [writer : {"C", "Vex"}, reader : {"C", "Vex"}, schemas : BOOLEAN]
    /\ \A e \in Ends : e.schemas => e.reader = "Vex"

VARIABLES ends,             \* the implementation at each end, and whether the
                            \* writer uses schema headers
          buf,              \* the bytes before the writer's cursor
          mark,             \* the cursor before the last encoder call
          wst,              \* the status of that call
          sent,             \* ghost: the items whose calls succeeded, with sizes
          seen,             \* the number of bytes that have arrived
          rpos, rmark, rst, \* the reader's cursor, the one it saved, the status
          got               \* the items decoded

wvars == <<buf, mark, wst, sent>>
rvars == <<rpos, rmark, rst, got>>
vars  == <<ends, wvars, seen, rvars>>

Init == /\ ends \in Ends
        /\ buf = << >> /\ mark = 0 /\ wst = OK /\ sent = << >>
        /\ seen = 0
        /\ rpos = 0 /\ rmark = 0 /\ rst = OK /\ got = << >>

\* Only Vex has an encoder for schema headers.
EncodableAt(e, x) == x.t = "schema" => e.writer = "Vex" /\ e.schemas
Encodable(x) == EncodableAt(ends, x)

Encode(x) ==
    LET r == Encoded(ends.writer, x, Cap - Len(buf)) IN
    /\ wst = OK
    /\ Len(sent) < MaxItems
    /\ Encodable(x)
    /\ buf' = buf \o r.bytes
    /\ mark' = Len(buf)
    /\ wst' = r.st
    /\ sent' = IF r.st = OK THEN Append(sent, [item |-> x, size |-> Len(r.bytes)]) ELSE sent
    /\ UNCHANGED <<ends, seen, rvars>>

\* The writer takes back what a failed call left in the buffer.
Rewind == /\ wst # OK
          /\ buf' = SubSeq(buf, 1, mark)
          /\ wst' = OK
          /\ UNCHANGED <<ends, mark, sent, seen, rvars>>

\* Bytes of finished calls arrive.
Deliver == /\ seen' \in seen + 1 .. (IF wst = OK THEN Len(buf) ELSE mark)
           /\ UNCHANGED <<ends, wvars, rvars>>

DecodeCall ==
    LET r == Decode(ends.reader, SubSeq(buf, 1, seen), rpos) IN
    /\ rst = OK
    /\ rpos' = r.pos
    /\ rmark' = rpos
    /\ rst' = r.st
    /\ got' = IF r.st = OK THEN Append(got, r.item) ELSE got
    /\ UNCHANGED <<ends, wvars, seen>>

\* The reader goes back and will try again.
Retry == /\ rst = TRUNCATED
         /\ rpos' = rmark
         /\ rst' = OK
         /\ UNCHANGED <<ends, wvars, seen, rmark, got>>

Next == \/ \E x \in Items : Encode(x)
        \/ Rewind
        \/ Deliver
        \/ DecodeCall
        \/ Retry

\* The writer need not encode anything; what it has encoded is transmitted, and
\* the reader polls.
Fairness == WF_vars(Deliver) /\ WF_vars(DecodeCall) /\ WF_vars(Retry) /\ WF_vars(Rewind)

Spec == Init /\ [][Next]_vars /\ Fairness

-----------------------------------------------------------------------------
\* The cursors stay inside the buffer and inside what has arrived.
TypeOK ==
    /\ ends \in Ends
    /\ Len(buf) <= Cap
    /\ mark \in 0 .. Len(buf)
    /\ wst \in {OK, OVERFLOW}
    /\ seen \in 0 .. Len(buf)
    /\ rpos \in 0 .. seen /\ rmark \in 0 .. rpos
    /\ rst \in {OK, OVERFLOW, TRUNCATED, BADTAG}

SentItems == [i \in DOMAIN sent |-> sent[i].item]

\* Whatever the pieces the bytes arrive in, and whichever calls overflowed in
\* between, the reader decodes the very items that were encoded, in their order.
GotIsSent == IsPrefix(got, SentItems)

\* An item alone comes back: its bytes are decoded as that item, to the last one;
\* there are no more of them than the encoder has asked room for; and the number
\* before the bytes of a string is their length.
ComesBack(writer, reader, x) ==
    LET bytes == Header(x) \o Payload(writer, x) IN
    /\ Header(x) \in Seq(Nat) /\ Payload(writer, x) \in Seq(Nat)
    /\ Len(Payload(writer, x)) <= PayloadRoom(x) /\ PayloadRoom(x) \in Nat
    /\ Decode(reader, bytes, 0) = Decoded(Len(bytes), x)
    /\ x.t \in {"bytes", "str"} =>
          ReadVarint(bytes, 1) = [st |-> OK, pos |-> Len(Header(x)), n |-> Len(x.s)]

\* The law of the codec, for items one at a time: it holds of either implementation
\* at either end.  Every tag an encoder writes is known to the decoder, every
\* width it chooses holds the number, and every sign is read as it was meant
\* (flux.c:48-77 and flux.vex:111-156 against flux.c:130-207).
CodecLaw == \A x \in Items : Encodable(x) => ComesBack(ends.writer, ends.reader, x)

\* A call fails only when the bytes of the next item have not all arrived, and then
\* it reports TRUNCATED: no decoder asks for more than the item, or finds anything
\* else wrong with what the encoders write.
FailsOnlyWhenShort ==
    [][(rst' # OK /\ DecodeCall) =>
         /\ rst' = TRUNCATED
         /\ \/ Len(got) = Len(sent)
            \/ rpos + sent[Len(got) + 1].size > seen]_vars

\* Every item that was encoded is decoded in the end.
AllArrive == \A n \in 1 .. MaxItems : Len(sent) >= n ~> Len(got) >= n
=============================================================================
