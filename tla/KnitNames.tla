------------------------------ MODULE KnitNames ------------------------------
(***************************************************************************)
(* Names of fields and relations.  A name is a sequence of characters;     *)
(* "a" and "b" stand for the lower-case letters, "A" and "B" for the       *)
(* upper-case ones, "1" for digits.                                        *)
(***************************************************************************)
EXTENDS Naturals, Sequences, SequencesExt

toUpper(c) == CASE c = "a" -> "A" [] c = "b" -> "B" [] OTHER -> c
toLower(c) == CASE c = "A" -> "a" [] c = "B" -> "b" [] OTHER -> c

(* Drop underscores; a lower-case letter after one becomes upper-case.     *)
camelCase(str) ==
    FlattenSeq([i \in DOMAIN str |->
        IF str[i] = "_" THEN << >>
        ELSE <<IF i > 1 /\ str[i - 1] = "_" THEN toUpper(str[i]) ELSE str[i]>>])

(* An upper-case letter becomes an underscore and the lower-case letter.   *)
snakeCase(str) ==
    FlattenSeq([i \in DOMAIN str |->
        IF str[i] # toLower(str[i]) THEN <<"_", toLower(str[i])>> ELSE <<str[i]>>])

(* Slip: no fallback to the slow search.                                   *)
fieldWithCamelCaseNameFast(fields, name) ==
    SelectInSeq(fields, LAMBDA f : f.name = snakeCase(name))

(* The index of the field that a mask means by name, 0 for none: the one   *)
(* with that name in snake case, else the first whose camel case it is.    *)
fieldWithCamelCaseName(fields, name) ==
    LET exact == SelectInSeq(fields, LAMBDA f : f.name = snakeCase(name))
    IN  IF exact # 0 THEN exact
        ELSE SelectInSeq(fields, LAMBDA f : camelCase(f.name) = name)
=============================================================================
