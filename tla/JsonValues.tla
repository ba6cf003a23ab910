----------------------------- MODULE JsonValues -----------------------------
(***************************************************************************)
(* JSON values as documents hold them, and the field paths that reach into *)
(* them.  A value is a record of one field, whose name is its kind, so     *)
(* that values of two kinds differ without being compared.                 *)
(*                                                                         *)
(* A text is a sequence of characters, which are numbers.  A JSON number   *)
(* is an integer Num(n) or a fraction Frac(n) between n and n + 1.  A path *)
(* is a sequence of names: the code splits Address/City at the slash       *)
(* whenever it resolves one.                                               *)
(***************************************************************************)
EXTENDS Integers, Sequences, SequencesExt

Str(text) == [str |-> text]
Num(n)    == [num |-> n]
Frac(n)   == [frac |-> n]
Bool(b)   == [bool |-> b]
Null      == [null |-> TRUE]
Arr(seq)  == [arr |-> seq]
Obj(map)  == [obj |-> map]

IsKind(value, kind) == kind \in DOMAIN value
IsStr(value)  == IsKind(value, "str")
IsInt(value)  == IsKind(value, "num")
IsNum(value)  == IsKind(value, "num") \/ IsKind(value, "frac")
IsBool(value) == IsKind(value, "bool")
IsNull(value) == IsKind(value, "null")
IsArr(value)  == IsKind(value, "arr")
IsObj(value)  == IsKind(value, "obj")

\* The number as an f64, on a scale that orders and equates as f64 does.
AsF64(value) == IF IsInt(value) THEN 2 * value.num ELSE 2 * value.frac + 1

-----------------------------------------------------------------------------

\* The member of an object, as a sequence of at most one value.
Member(value, segment) ==
    IF IsObj(value) /\ segment \in DOMAIN value.obj
    THEN <<value.obj[segment]>> ELSE <<>>

Concat(f) == FoldLeft(LAMBDA all, part : all \o part, <<>>, f)

Each(Op(_), seq) == FoldLeft(LAMBDA all, elem : all \o Op(elem), <<>>, seq)

\* One segment, against every value found so far; an array answers for each
\* of its elements.
Descend(values, segment) ==
    Concat([i \in DOMAIN values |->
              IF IsArr(values[i])
              THEN Concat([j \in DOMAIN values[i].arr |->
                             Member(values[i].arr[j], segment)])
              ELSE Member(values[i], segment)])

ResolveInElement(element, path) == FoldLeft(Descend, <<element>>, path)

\* The values a path leads to in a document's fields; none when a segment is
\* missing everywhere.
ResolveFieldPath(fields, path) ==
    IF Head(path) \in DOMAIN fields
    THEN FoldLeft(Descend, <<fields[Head(path)]>>, Tail(path))
    ELSE <<>>

=============================================================================
