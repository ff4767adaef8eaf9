-------------------------------- MODULE Wire --------------------------------
(*************************************************************************)
(* Encoding and decoding of the messages of pkg/corepb: MarshalVT,       *)
(* SizeVT and UnmarshalVT, driven by the tables of WireMessages. Every   *)
(* generated function has the same shape; what differs is in the tables. *)
(*                                                                       *)
(* A message is [type, fields, unknown]: fields maps the fields that are *)
(* set (not the zero value of their Go type) to their values, unknown is *)
(* unknownFields. A string or byte slice is its length, true is 1. The   *)
(* encoding is a sequence of items [tag, value, bytes]: value is what    *)
(* stands after the tag, bytes the length of the whole item. Encodings   *)
(* that no MarshalVT writes (truncated, overlong) are left out.          *)
(*************************************************************************)
EXTENDS WireMessages, Integers, SequencesExt

Message(type, fields) ==
  [type |-> type, fields |-> fields, unknown |-> << >>]

Empty(type) == Message(type, [f \in {} |-> 0])

IsSet(m, f) == f \in DOMAIN m.fields

(* protohelpers.SizeOfVarint(uint64(x)): seven bits a byte; a negative   *)
(* number is a large uint64 and takes ten. Numbers stay below 2^28.      *)
SizeOfVarint(x) ==
  IF x < 0 THEN 10
  ELSE CHOOSE n \in 1..4 : x < 128^n /\ (n = 1 \/ x >= 128^(n - 1))

SumOf(s, Op(_)) == FoldLeft(LAMBDA sum, x : sum + Op(x), 0, s)

(* The length of an encoding: what MarshalToSizedBufferVT returns. *)
Written(wire) == SumOf(wire, LAMBDA item : item.bytes)

Item(tag, value, bytes) == [tag |-> tag, value |-> value, bytes |-> bytes]

(* A length-delimited item: the content, its length, the tag. *)
Delimited(tag, value, n) == Item(tag, value, 1 + SizeOfVarint(n) + n)

RECURSIVE MarshalVT(_)

(* What one block of MarshalToSizedBufferVT writes for a field. *)
FieldItems(tag, kind, v) ==
  CASE kind = "varint"   -> << Item(tag, v, 1 + SizeOfVarint(v)) >>
    [] kind = "bool"     -> << Item(tag, v, 2) >>
    [] kind = "fixed64"  -> << Item(tag, v, 9) >>
    [] kind = "bytes"    -> << Delimited(tag, v, v) >>
    [] kind = "packed"   -> << Delimited(tag, v, SumOf(v, SizeOfVarint)) >>
    [] kind = "packed64" -> << Delimited(tag, v, 8 * Len(v)) >>
    [] kind = "message"  ->
         LET w == MarshalVT(v) IN << Delimited(tag, w, Written(w)) >>
    [] kind = "messages" ->
         [i \in DOMAIN v |->
            LET w == MarshalVT(v[i]) IN Delimited(tag, w, Written(w))]

(* The buffer is filled from its end: unknownFields first, then the      *)
(* blocks in the order of the table, each before what is there already.  *)
MarshalVT(m) ==
  FoldLeft(LAMBDA wire, row :
             IF IsSet(m, row[3])
             THEN FieldItems(row[1], row[2], m.fields[row[3]]) \o wire
             ELSE wire,
           m.unknown, MarshalTable[m.type])

RECURSIVE SizeVT(_)

(* Mutant of FieldSize: the length of a nested message is not counted. *)
FieldSizeUnframed(tagBytes, kind, v) ==
  LET Framed(l) == tagBytes + l + SizeOfVarint(l)
  IN  CASE kind = "varint"   -> tagBytes + SizeOfVarint(v)
        [] kind = "bool"     -> tagBytes + 1
        [] kind = "fixed64"  -> tagBytes + 8
        [] kind = "bytes"    -> Framed(v)
        [] kind = "packed"   -> Framed(SumOf(v, SizeOfVarint))
        [] kind = "packed64" -> Framed(8 * Len(v))
        [] kind = "message"  -> tagBytes + SizeVT(v)
        [] kind = "messages" -> SumOf(v, LAMBDA e : Framed(SizeVT(e)))

(* What one block of SizeVT adds for a field. *)
FieldSize(tagBytes, kind, v) ==
  LET Framed(l) == tagBytes + l + SizeOfVarint(l)
  IN  CASE kind = "varint"   -> tagBytes + SizeOfVarint(v)
        [] kind = "bool"     -> tagBytes + 1
        [] kind = "fixed64"  -> tagBytes + 8
        [] kind = "bytes"    -> Framed(v)
        [] kind = "packed"   -> Framed(SumOf(v, SizeOfVarint))
        [] kind = "packed64" -> Framed(8 * Len(v))
        [] kind = "message"  -> Framed(SizeVT(v))
        [] kind = "messages" -> SumOf(v, LAMBDA e : Framed(SizeVT(e)))

SizeVT(m) ==
  Written(m.unknown)
    + SumOf(SizeTable[m.type],
            LAMBDA row : IF IsSet(m, row[3])
                         THEN FieldSize(row[1], row[2], m.fields[row[3]])
                         ELSE 0)

(* MarshalBinary: a buffer of SizeVT bytes, filled from its end, cut to  *)
(* the bytes written. Where the two differ the code panics or returns    *)
(* bytes that start with a zero, an illegal tag.                         *)
MarshalBinary(m) ==
  LET wire == MarshalVT(m)
  IN  IF Written(wire) = SizeVT(m) THEN wire ELSE << Item(0, 0, 1) >>

(* What UnmarshalVT leaves when it returns an error. *)
Garbled == Empty("garbled")

RECURSIVE UnmarshalInto(_, _, _)

(* One field of a message that already has the fields decoded so far: a  *)
(* scalar is replaced, a nested message is merged into, a repeated field *)
(* is appended to. An error in a nested message is an error.             *)
Decoded(m, row, wireType, v, lacking) ==
  LET f      == row[4]
      kind   == row[3]
      old    == IF IsSet(m, f) THEN m.fields[f] ELSE << >>
      target == IF kind = "message" /\ IsSet(m, f) THEN old ELSE Empty(row[5])
      nested == UnmarshalInto(target, v, lacking)
      new    == CASE kind = "message"  -> nested
                  [] kind = "messages" -> Append(old, nested)
                  [] kind \in {"packed", "packed64"} ->
                       old \o (IF wireType = 2 THEN v ELSE << v >>)
                  [] OTHER -> v
  IN  IF kind \in {"message", "messages"} /\ nested = Garbled THEN Garbled
      ELSE [m EXCEPT !.fields = [g \in (DOMAIN @) \cup {f} |->
                                   IF g = f THEN new ELSE @[g]]]

(* Mutant of UnmarshalItem: unknown fields are skipped, not kept. *)
UnmarshalSkipping(m, item, lacking) ==
  LET number == item.tag \div 8
      rows   == SelectSeq(UnmarshalTable[m.type],
                          LAMBDA r : /\ r[1] = number
                                     /\ <<m.type, r[4]>> \notin lacking)
  IN  IF rows = << >> THEN m
      ELSE Decoded(m, rows[1], item.tag % 8, item.value, lacking)

(* One turn of the loop of UnmarshalVT: the switch on the field number.  *)
(* A node of an older version does not have the cases of the fields it   *)
(* is lacking; they are kept in unknownFields like any unknown field.    *)
UnmarshalItem(m, item, lacking) ==
  LET number == item.tag \div 8
      wire   == item.tag % 8
      rows   == SelectSeq(UnmarshalTable[m.type],
                          LAMBDA r : /\ r[1] = number
                                     /\ <<m.type, r[4]>> \notin lacking)
  IN  IF number = 0 THEN Garbled
      ELSE IF rows = << >> THEN [m EXCEPT !.unknown = Append(@, item)]
      ELSE IF wire \notin rows[1][2] THEN Garbled
      ELSE Decoded(m, rows[1], wire, item.value, lacking)

UnmarshalInto(m, wire, lacking) ==
  FoldLeft(LAMBDA acc, item :
             IF acc = Garbled THEN Garbled
             ELSE UnmarshalItem(acc, item, lacking),
           m, wire)

UnmarshalBinary(type, wire, lacking) ==
  UnmarshalInto(Empty(type), wire, lacking)

RECURSIVE Seen(_, _)

(* The fields of a message that a node lacking some of them reads. *)
Seen(m, lacking) ==
  LET fields == {f \in DOMAIN m.fields : <<m.type, f>> \notin lacking}
      Value(f) ==
        CASE Fields[m.type][f][1] = "*" -> Seen(m.fields[f], lacking)
          [] Fields[m.type][f][1] = "[]*" ->
               [i \in DOMAIN m.fields[f] |-> Seen(m.fields[f][i], lacking)]
          [] OTHER -> m.fields[f]
  IN  Message(m.type, [f \in fields |-> Value(f)])
=============================================================================
