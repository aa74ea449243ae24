------------------------------- MODULE PySchemas ------------------------------
(***************************************************************************)
(* Processes that exchange messages of flux/flux.py: plain values, and     *)
(* records without their field names, which only a schema id stands for.   *)
(*                                                                         *)
(* Each process numbers its Schema objects in the order it creates them.   *)
(* As docs/flux.md asks, all create the same schemas in the same order;    *)
(* they do so at their own pace, and a process that restarts begins again. *)
(* A message may reach a reader cut short, and a reader may call either of *)
(* decode and Schema.decode on it.                                         *)
(***************************************************************************)
EXTENDS FluxPython

CONSTANTS Procs,      \* the processes
          Startup,    \* the field lists they create schemas for, in order
          Values,     \* values given to encode
          Records     \* records given to Schema.encode: functions on fields

VARIABLES reg,        \* Schema._registry of each process: field lists by id + 1
          msg,        \* the message in transit
          last        \* what the last decoding returned

vars == <<reg, msg, last>>

\* A message: its bytes, how many of them are missing, and as a ghost what was
\* encoded, a value or the items of a record.
NoMsg == [full |-> FALSE, schema |-> FALSE, bytes |-> << >>, cut |-> 0, of |-> NoItem]

NoResult == [ok |-> FALSE, api |-> FALSE, val |-> NoItem, msg |-> NoMsg]

Init == /\ reg = [p \in Procs |-> << >>]
        /\ msg = NoMsg
        /\ last = NoResult

\* Schema(fields): the next id, and the entry in the registry.
Create(p) ==
    /\ Len(reg[p]) < Len(Startup)
    /\ reg' = [reg EXCEPT ![p] = Append(@, Startup[Len(@) + 1])]
    /\ UNCHANGED <<msg, last>>

Restart(p) ==
    /\ reg[p] # << >>
    /\ reg' = [reg EXCEPT ![p] = << >>]
    /\ UNCHANGED <<msg, last>>

Send(schema, bytes, of) ==
    /\ msg' = [full |-> TRUE, schema |-> schema, bytes |-> bytes, cut |-> 0, of |-> of]
    /\ UNCHANGED <<reg, last>>

\* encode: a value it raises for gives no message.
EncodeValue(v) ==
    /\ ~msg.full
    /\ Accepts(v)
    /\ Send(FALSE, Enc(v), v)

Items(fields, rec) == [i \in DOMAIN fields |-> <<Blob("str", fields[i]), rec[fields[i]]>>]

\* Mutant: the values are written in the order the record has them.
RecordBytesUnordered(fields, rec) ==
    FlattenSeq([i \in DOMAIN fields |-> Enc(rec[fields[Len(fields) + 1 - i]])])

RecordBytes(fields, rec) == FlattenSeq([i \in DOMAIN fields |-> Enc(rec[fields[i]])])

\* Schema.encode: the values in field order; a record that lacks a field
\* raises KeyError, other fields are left out.
EncodeRecord(p, id, rec) ==
    LET fields == reg[p][id + 1] IN
    /\ ~msg.full
    /\ ToSet(fields) \subseteq DOMAIN rec
    /\ \A f \in ToSet(fields) : Accepts(rec[f])
    /\ Send(TRUE, <<SCHEMA>> \o Varint(id) \o RecordBytes(fields, rec), Dict(Items(fields, rec)))

Cut == /\ msg.full /\ msg.cut = 0
       /\ \E n \in 1 .. Len(msg.bytes) :
             msg' = [msg EXCEPT !.bytes = SubSeq(@, 1, Len(@) - n), !.cut = n]
       /\ UNCHANGED <<reg, last>>

\* Schema.decode: the fields the reader's registry has for the id, in order.
SchemaDec(p, s) ==
    LET id     == PyVarint(s, 1)
        fields == reg[p][id.val + 1]
        r      == PyDecItems(s, id.pos, Len(fields))
    IN  IF s = << >> \/ s[1] # SCHEMA \/ ~id.ok THEN Raised
        ELSE IF id.val >= Len(reg[p]) \/ ~r.ok THEN Raised
        ELSE Returned(r.pos, Dict([i \in DOMAIN fields |-> <<Blob("str", fields[i]), r.val[i]>>]))

\* decode or Schema.decode; positions after the value are not looked at.
Decoding(p, schema) ==
    LET r == IF schema THEN SchemaDec(p, msg.bytes) ELSE PyDec(msg.bytes, 0) IN
    /\ msg.full
    /\ last' = [ok |-> r.ok, api |-> schema, val |-> r.val, msg |-> msg]
    /\ msg' = NoMsg
    /\ UNCHANGED reg

Next == \/ \E p \in Procs : Create(p) \/ Restart(p)
        \/ \E v \in Values : EncodeValue(v)
        \/ \E p \in Procs, rec \in Records : \E id \in 0 .. Len(reg[p]) - 1 : EncodeRecord(p, id, rec)
        \/ Cut
        \/ \E p \in Procs, schema \in BOOLEAN : Decoding(p, schema)

Spec == Init /\ [][Next]_vars

-----------------------------------------------------------------------------
\* What comes back for a value: tuples have become lists.
RECURSIVE Norm(_)
Norm(v) ==
    CASE v.t \in {"list", "tuple"} -> List([i \in DOMAIN v.items |-> Norm(v.items[i])])
      [] v.t = "map" -> Dict([i \in DOMAIN v.entries |->
                                <<Norm(v.entries[i][1]), Norm(v.entries[i][2])>>])
      [] OTHER -> v

\* decode and Schema.decode give back what was encoded, whichever process
\* encoded it, whatever schemas reader and writer have by now and however often
\* they restarted in between; or they raise, and a whole plain message never
\* makes decode raise.
RoundTrip ==
    last.msg.full /\ last.msg.cut = 0 =>
        /\ last.ok => last.val = Norm(last.msg.of) /\ last.api = last.msg.schema
        /\ ~last.msg.schema /\ ~last.api => last.ok

\* The value v with its very last string or bytes cut short.
RECURSIVE CutAtEnd(_, _)
CutAtEnd(x, v) ==
    /\ x.t = v.t
    /\ CASE v.t \in {"bytes", "str"} -> IsStrictPrefix(x.s, v.s)
         [] v.t = "list" -> /\ Len(x.items) = Len(v.items) /\ v.items # << >>
                            /\ Front(x.items) = Front(v.items)
                            /\ CutAtEnd(Last(x.items), Last(v.items))
         [] v.t = "map"  -> /\ Len(x.entries) = Len(v.entries) /\ v.entries # << >>
                            /\ Front(x.entries) = Front(v.entries)
                            /\ Last(x.entries)[1] = Last(v.entries)[1]
                            /\ CutAtEnd(Last(x.entries)[2], Last(v.entries)[2])
         [] OTHER -> FALSE

\* A message that was cut makes the decoder raise, unless the cut is in the
\* text of its last string or bytes: only that can come out shorter.
CutIsNoticed ==
    (last.ok /\ last.msg.cut > 0) => CutAtEnd(last.val, Norm(last.msg.of))
=============================================================================
