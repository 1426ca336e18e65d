------------------------------ MODULE MCLayout ------------------------------
(***************************************************************************)
(* Structures for Layout: every three fields of Members, with and without  *)
(* densa; structures in structures and in arrays; unions.                  *)
(***************************************************************************)
EXTENDS Layout

Field(name, bits) == [type |-> <<name>>, bits |-> bits]
Forma(densa, fields) == [unio |-> FALSE, densa |-> densa, fields |-> fields]
Unio(densa, fields)  == [unio |-> TRUE, densa |-> densa, fields |-> fields]

Members == { Field("i8", 0), Field("i8", 3), Field("p8", 8), Field("p16", 0), Field("p16", 11),
             Field("i32", 0), Field("i32", 20), Field("p64", 40), Field("logica", 1) }

Flat == {<<Forma(z, <<a, b, c>>)>> : z \in BOOLEAN, a, b, c \in Members}

Inner == { Forma(FALSE, <<Field("i16", 0), Field("i8", 0)>>),
           Forma(TRUE,  <<Field("i32", 0), Field("p8", 3)>>),
           Forma(FALSE, <<Field("logica", 1), Field("i64", 0)>>),
           Unio(FALSE,  <<Field("i16", 0), Field("f64", 0)>>),
           Unio(FALSE,  <<[type |-> <<"acies", 3, <<"i16">>>>, bits |-> 0], Field("i32", 0)>>),
           Unio(TRUE,   <<[type |-> <<"acies", 5, <<"i8">>>>, bits |-> 0], Field("i32", 0)>>) }
Around == { Field("i8", 0), Field("i16", 9), Field("via", 0),
            [type |-> <<"forma", 1>>, bits |-> 0], [type |-> <<"acies", 2, <<"forma", 1>>>>, bits |-> 0] }

Nested == {<<s, Forma(z, <<a, b, c>>)>> : s \in Inner, z \in BOOLEAN, a, b, c \in Around}
            \cup {<<s, Unio(z, <<a, b>>)>> : s \in Inner, z \in BOOLEAN, a, b \in Around \ {Field("i16", 9)}}

MCPrograms == Flat \cup Nested
=============================================================================
