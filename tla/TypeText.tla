------------------------------ MODULE TypeText -------------------------------
(***************************************************************************)
(* The text of a type descriptor (src/typedesc.c): what TypeDesc_Get_*     *)
(* write into desc, and how String_To_TypeDesc reads it.  A text is a      *)
(* sequence of tokens, one per character or name.  C functions declare     *)
(* their types with such texts, and the table of descriptors is keyed by   *)
(* them.                                                                   *)
(***************************************************************************)
EXTENDS Integers, SequencesExt

CONSTANT Types   \* the types that lists are made of

BaseLetters == {"b", "c", "i", "f", "z", "s", "e", "A"}

Kind(t) == t[1]

-----------------------------------------------------------------------------
(* Writing *)

Brackets(t) == [i \in 1 .. t[2] |-> "["]

(* <<"base", letter>>, <<"klass", path, name>>, <<"array", dims, type>>,   *)
(* <<"map", key, val>>, <<"set", type>>, <<"varg", type>>,                 *)
(* <<"proto", args, rets>> with two sequences.                             *)
RECURSIVE TextOf(_)
TextOf(t) ==
  LET all(list) == FlattenSeq([i \in DOMAIN list |-> TextOf(list[i])])
  IN  CASE Kind(t) = "base"  -> <<t[2]>>
        [] Kind(t) = "klass" -> <<"L", t[2], ".", t[3], ";">>
        [] Kind(t) = "array" -> Brackets(t) \o TextOf(t[3])
        [] Kind(t) = "map"   -> <<"M">> \o TextOf(t[2]) \o <<":">> \o TextOf(t[3])
        [] Kind(t) = "set"   -> <<"S">> \o TextOf(t[2])
        [] Kind(t) = "varg"  -> <<".", ".", ".">> \o TextOf(t[2])
        [] Kind(t) = "proto" -> <<"P">> \o all(t[2]) \o <<":">> \o all(t[3]) \o <<";">>

(* TypeList_ToString *)
ListText(list) == FlattenSeq([i \in DOMAIN list |-> TextOf(list[i])])

-----------------------------------------------------------------------------
(* Reading: the type and the text after it, or a failed assertion          *)

Failed == [ok |-> FALSE, type |-> <<>>, rest |-> <<>>]
Read(t, s) == [ok |-> TRUE, type |-> t, rest |-> s]
Drop(s, n) == SubSeq(s, n + 1, Len(s))
At(s, n) == IF n <= Len(s) THEN s[n] ELSE "end"

(* Where token x first is in s, or 0 (strchr).                             *)
Index(s, x) == LET found == {i \in DOMAIN s : s[i] = x}
               IN  IF found = {} THEN 0 ELSE Min(found)

(* string_to_klass splits at the first dot.                                *)
ReadKlass(s) ==
  LET end == Index(s, ";")
      dot == Index(s, ".")
  IN  IF end = 0 \/ dot # 2 \/ end # 4 THEN Failed
      ELSE Read(<<"klass", s[1], s[3]>>, Drop(s, end))

DimsUpToTwo(s) == IF At(s, 2) = "[" THEN 2 ELSE 1

Dims(s) == CHOOSE n \in 0 .. Len(s) : /\ \A i \in 1 .. n : s[i] = "["
                                      /\ At(s, n + 1) # "["

RECURSIVE ReadType(_, _, _), ReadUntil(_, _)

(* The types up to a closing token, which is skipped.                      *)
ReadUntil(s, close) ==
  IF s = <<>> THEN Failed
  ELSE IF s[1] = close THEN Read(<<>>, Drop(s, 1))
  ELSE LET one  == ReadType(s, 0, FALSE)
           more == ReadUntil(one.rest, close)
       IN  IF one.ok /\ more.ok THEN Read(<<one.type>> \o more.type, more.rest) ELSE Failed

ReadTwo(s) == LET key == ReadType(s, 0, FALSE)
                  val == ReadType(key.rest, 0, FALSE)
              IN  IF key.ok /\ val.ok THEN Read(<<"map", key.type, val.type>>, val.rest)
                  ELSE Failed

(* String_To_TypeDesc: neither arrays nor variable arguments nest directly. *)
ReadType(s, dims, varg) ==
  CASE s = <<>>   -> Failed
    [] s # <<>> /\ s[1] = "L" -> ReadKlass(Drop(s, 1))
    [] s # <<>> /\ s[1] = "[" ->
         LET base == ReadType(Drop(s, Dims(s)), Dims(s), FALSE)
         IN  IF dims # 0 \/ varg \/ ~ base.ok THEN Failed
             ELSE Read(<<"array", Dims(s), base.type>>, base.rest)
    [] s # <<>> /\ s[1] = "M" -> ReadTwo(Drop(s, 1))
    [] s # <<>> /\ s[1] = "S" ->
         LET base == ReadType(Drop(s, 1), 0, FALSE)
         IN  IF base.ok THEN Read(<<"set", base.type>>, base.rest) ELSE Failed
    [] s # <<>> /\ s[1] = "P" ->
         LET args == ReadUntil(Drop(s, 1), ":")
             rets == ReadUntil(args.rest, ";")
         IN  IF args.ok /\ rets.ok THEN Read(<<"proto", args.type, rets.type>>, rets.rest)
             ELSE Failed
    [] s # <<>> /\ s[1] = "." ->
         LET base == IF At(s, 4) = "A" THEN Read(<<"base", "A">>, Drop(s, 4))
                     ELSE ReadType(Drop(s, 3), 0, TRUE)
         IN  IF dims # 0 \/ varg \/ At(s, 2) # "." \/ At(s, 3) # "." \/ ~ base.ok THEN Failed
             ELSE Read(<<"varg", base.type>>, base.rest)
    [] OTHER -> IF s[1] \in BaseLetters THEN Read(<<"base", s[1]>>, Drop(s, 1)) ELSE Failed

(* String_ToTypeList *)
RECURSIVE ReadList(_)
ReadList(s) ==
  IF s = <<>> THEN Read(<<>>, <<>>)
  ELSE LET one  == ReadType(s, 0, FALSE)
           more == ReadList(one.rest)
       IN  IF one.ok /\ more.ok THEN Read(<<one.type>> \o more.type, <<>>) ELSE Failed

-----------------------------------------------------------------------------
(* Properties: of lists of up to two types, which is enough for what is    *)
(* written after a type to be taken for a part of it.                      *)

HasMap(t) == "M" \in Range(TextOf(t))

(* Reading what was written gives the same types back, with nothing needed *)
(* between two types, and the one assertion of the reader that can fail is *)
(* the one on the colon in the text of a map (typedesc.h documents a map   *)
(* without a colon).                                                       *)
ReadBack(types, got) ==
  IF \E i \in DOMAIN types : HasMap(types[i]) THEN ~ got.ok ELSE got = Read(types, <<>>)
RoundTrip == \A types \in BoundedSeq(Types, 2) : ReadBack(types, ReadList(ListText(types)))

(* The table is keyed by the text, so different types have different texts. *)
TextIsKey == \A t, u \in Types : TextOf(t) = TextOf(u) => t = u
=============================================================================
