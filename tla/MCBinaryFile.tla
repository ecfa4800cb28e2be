---------------------------- MODULE MCBinaryFile ----------------------------
(***************************************************************************)
(* Variables of every kind and place, with short and long names; two texts *)
(* of one size, longer than f_data.                                        *)
(***************************************************************************)
EXTENDS BinaryFile

Declared(name, where, type, full) == [name |-> name, where |-> where, type |-> type, full |-> full]

MCDeclarations == <<Declared("%flag", "temporary", "Boolean", FALSE),
                    Declared("%other", "temporary", "Boolean", FALSE),
                    Declared("%result", "extern", "String", FALSE),
                    Declared("%text", "temporary", "String", FALSE),
                    Declared("kept", "private", "Boolean", FALSE),
                    Declared("p", "private", "Integer", FALSE),
                    Declared("q", "private", "String", FALSE)>>

MCNames == {MCDeclarations[i].name : i \in DOMAIN MCDeclarations}
MCConstantNames == <<"@s1", "@s10000">>
MCNameSize == [n \in MCNames \cup {"@s1", "@s10000"} |->
                  CASE n \in {"p", "q"} -> 1
                    [] n = "@s1"              -> 3
                    [] n = "kept"             -> 4
                    [] OTHER                 -> 7]
MCTextSize == [t \in {"one", "two"} |-> 9]
=============================================================================
