---------------------------- MODULE ParcelLayouts ----------------------------
(***************************************************************************)
(* How an object crosses the boundary between the Java service and the     *)
(* native library: one side writes its fields into a Parcel, the other     *)
(* reads them back by position alone.  A layout is the sequence of fields  *)
(* one writer or reader goes through; a parcel is a sequence of tokens,    *)
(* each with the width it has on the wire.  android.os.Parcel and          *)
(* android::Parcel themselves are external to this repository.             *)
(***************************************************************************)
EXTENDS Integers, Sequences, SequencesExt

CONSTANT Null   \* a null String or parcelable on the Java side

Token(width, val) == [width |-> width, val |-> val]

(* Layouts: consecutive fields of one type, and a nested parcelable.       *)
Fields(as, names) == [i \in DOMAIN names |-> [f |-> names[i], as |-> as]]
Ints(names)  == Fields("int", names)
Longs(names) == Fields("long", names)
Bytes(names) == Fields("byte", names)
Bools(names) == Fields("bool", names)
Strs(names)  == Fields("str", names)
Arrays(names) == Fields("ints", names)
\* class: the name written before the fields; dflt: what a null name leaves;
\* fresh: the object the fields are read into.
Sub(name, class, body, dflt, fresh) ==
    << [f |-> name, as |-> "sub", class |-> class, body |-> body,
        dflt |-> dflt, fresh |-> fresh] >>
\* A reader that takes a null string for an empty one, one that ignores that
\* it could not be read, one that takes only 1 for true.
NullableStr(name) == << [f |-> name, as |-> "strOrEmpty"] >>
IgnoredStr(name)  == << [f |-> name, as |-> "strOrKept"] >>
OneIsTrue(name)   == << [f |-> name, as |-> "boolOne"] >>

(***************************************************************************)
(* Writing.  A byte and a boolean take a whole int; a parcelable is the    *)
(* name of its class followed by its own fields, or a null name.           *)
(***************************************************************************)
Tokens(e, val) ==
    CASE e.as \in {"int", "byte"} -> << Token("i32", val) >>
      [] e.as = "long" -> << Token("i64", val) >>
      [] e.as = "bool" -> << Token("i32", IF val THEN 1 ELSE 0) >>
      [] e.as = "str"  -> << Token("str", val) >>
      [] e.as = "ints" -> << Token("i32", Len(val)) >>
                              \o [i \in DOMAIN val |-> Token("i32", val[i])]

Written(e, obj) ==
    IF e.as # "sub" THEN Tokens(e, obj[e.f])
    ELSE IF obj[e.f] = Null THEN << Token("str", Null) >>
    ELSE << Token("str", e.class) >>
         \o FlattenSeq([i \in DOMAIN e.body |-> Tokens(e.body[i], obj[e.f][e.body[i].f])])

WriteToParcel(layout, obj) == FlattenSeq([i \in DOMAIN layout |-> Written(layout[i], obj)])

(***************************************************************************)
(* Reading.  A reader is where it stands in the parcel, the object so far  *)
(* and its status; after an error it reads no further.                     *)
(***************************************************************************)
AsByte(n) == ((n + 128) % 256) - 128

Reading(wire, at, obj) == [wire |-> wire, at |-> at, obj |-> obj, status |-> "OK"]

Got(r, name, val, n) == [r EXCEPT !.obj = [@ EXCEPT ![name] = val], !.at = @ + n]
Failed(r, why) == [r EXCEPT !.status = why]

ReadField(r, e) ==
    LET t == r.wire[r.at]
        Needs(w) == r.at <= Len(r.wire) /\ t.width = w
    IN CASE r.status # "OK" -> r
         [] e.as \in {"int", "byte", "bool", "boolOne", "ints"} /\ ~Needs("i32") -> Failed(r, "BAD")
         [] e.as = "long" /\ ~Needs("i64") -> Failed(r, "BAD")
         [] e.as \in {"str", "strOrEmpty", "strOrKept"} /\ ~Needs("str") -> Failed(r, "BAD")
         [] e.as \in {"int", "long"} -> Got(r, e.f, t.val, 1)
         [] e.as = "byte"    -> Got(r, e.f, AsByte(t.val), 1)
         [] e.as = "bool"    -> Got(r, e.f, t.val # 0, 1)
         [] e.as = "boolOne" -> Got(r, e.f, t.val = 1, 1)
         [] e.as = "ints"    -> Got(r, e.f, [i \in 1..t.val |-> r.wire[r.at + i].val], 1 + t.val)
         [] e.as = "str" /\ t.val = Null -> Failed(r, "NULL")
         [] e.as = "strOrEmpty" /\ t.val = Null -> Got(r, e.f, "", 1)
         [] e.as = "strOrKept"  /\ t.val = Null -> [r EXCEPT !.at = @ + 1]
         [] OTHER -> Got(r, e.f, t.val, 1)

ReadFields(r, layout) == FoldLeft(ReadField, r, layout)

\* A nested object: null leaves its default, otherwise its fields follow.  The
\* Java side finds the class to read by its name, the native side skips it.
ReadSub(r, e) ==
    CASE r.status # "OK" -> r
      [] r.at > Len(r.wire) \/ r.wire[r.at].width # "str" -> Failed(r, "BAD")
      [] r.wire[r.at].val = Null -> Got(r, e.f, e.dflt, 1)
      [] e.class # "" /\ r.wire[r.at].val # e.class -> Failed(r, "BAD")
      [] OTHER ->
         LET inner == ReadFields(Reading(r.wire, r.at + 1, e.fresh), e.body)
         IN [r EXCEPT !.obj = [@ EXCEPT ![e.f] = inner.obj], !.at = inner.at,
                      !.status = inner.status]

ReadOne(r, e) == IF e.as = "sub" THEN ReadSub(r, e) ELSE ReadField(r, e)

ReadFromParcel(layout, wire, obj) == FoldLeft(ReadOne, Reading(wire, 1, obj), layout)

(***************************************************************************)
(* Copying and comparing member by member, over the members that a copy    *)
(* constructor, an assignment or a comparison names.                       *)
(***************************************************************************)
Copied(from, onto, names) ==
    [f \in DOMAIN onto |-> IF f \in names THEN from[f] ELSE onto[f]]
Agree(a, b, names) == \A f \in names : a[f] = b[f]
Differ(a, b, names) == \E f \in names : a[f] # b[f]
=============================================================================
