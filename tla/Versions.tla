------------------------------ MODULE Versions ------------------------------
(***************************************************************************)
(* Version numbers and the comparisons a package pattern may ask for.  A   *)
(* version is a sequence of parts.  Of the text of a part the comparisons  *)
(* tell apart only its place among other texts and, if it is a number of   *)
(* at most six digits, its value.                                          *)
(***************************************************************************)
EXTENDS Integers, Sequences

NotWhole == -1

(* text is the place of the part in alphabetical order.                    *)
Part == [number : Nat \cup {NotWhole}, text : Nat]

IsVersion(v) == v \in Seq(Part)

Whole(x, y) == x.number # NotWhole /\ y.number # NotWhole

PartLess(x, y) == IF Whole(x, y) THEN x.number < y.number ELSE x.text < y.text

SamePart(x, y) == IF Whole(x, y) THEN x.number = y.number ELSE x.text = y.text

(* VersionNumber::operator<: the first parts that differ decide, or else   *)
(* the shorter version comes first.                                        *)
Less(v, w) ==
    \/ \E i \in DOMAIN v \cap DOMAIN w :
          PartLess(v[i], w[i]) /\ \A j \in 1 .. (i - 1) : SamePart(v[j], w[j])
    \/ Len(v) < Len(w) /\ \A i \in DOMAIN v : SamePart(v[i], w[i])

(* VersionNumber::operator-: w is a prefix of v.                           *)
StartsWith(v, w) == Len(w) <= Len(v) /\ \A i \in DOMAIN w : v[i] = w[i]

(* VersionNumbers::greatest.                                               *)
Greatest(V) == CHOOSE v \in V : \A w \in V \ {v} : Less(w, v)

Operator == {"=", "!=", "<", "<=", ">", ">=", "-"}

(* PackagePattern::matches: version v compared with the version w of a     *)
(* pattern, which may have none.                                           *)
Compare(v, op, w) ==
    CASE w = <<>>   -> TRUE
      [] op = "="   -> v = w
      [] op = "!="  -> v # w
      [] op = "<"   -> Less(v, w)
      [] op = ">="  -> ~ Less(v, w)
      [] op = "<="  -> Less(v, w) \/ v = w
      [] op = ">"   -> ~ (Less(v, w) \/ v = w)
      [] op = "-"   -> StartsWith(v, w)
=============================================================================
