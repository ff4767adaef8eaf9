---------------------------- MODULE MessageTypes ----------------------------
(*************************************************************************)
(* The Go types of the fields of the messages of pkg/corepb.             *)
(*************************************************************************)

String == <<"string">>
Bytes == <<"[]byte">>
Int64 == <<"int64">>
Uint64 == <<"uint64">>
Int32 == <<"int32">>
Bool == <<"bool">>
Enum == <<"enum">>
Int64s == <<"[]int64">>
Uint64s == <<"[]uint64">>
Enums == <<"[]enum">>
One(t) == <<"*", t>>
Many(t) == <<"[]*", t>>

(* No fields: the struct has only unknownFields. *)
NoFields == [f \in {} |-> Bool]
=============================================================================
