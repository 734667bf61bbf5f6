------------------------------ MODULE MCTryItOut ------------------------------
(* Small instances of TryItOut with RequestForm. *)
EXTENDS RequestForm

Param(name, location, required, texts) ==
    [name |-> name, in |-> location, required |-> required, texts |-> texts]

Field(name, kind, required) ==
    [name |-> name, array |-> kind = "array", nested |-> kind = "nested", required |-> required, texts |-> {"x"}]

Literal(text) == [text |-> text, encoded |-> FALSE]

(* Two placeholders, and an optional parameter q twice. *)
Get == [server |-> "s1", path |-> <<Literal("/x"), Placeholder("a"), Placeholder("b")>>,
        parameters |-> {Param("a", "path", "omitted", {"x", "{b}"}), Param("b", "path", "yes", {"x"}),
                        Param("q", "query", "no", {"x"}), Param("q", "header", "no", {"x"})},
        fields |-> {}]

(* A placeholder that need not be filled, and a body whose fields are off at  *)
(* first, with forms in them.                                                *)
Post == [server |-> "s1", path |-> <<Literal("/y"), Placeholder("a")>>,
         parameters |-> {Param("a", "path", "no", {"x"}), Param("q", "query", "yes", {"x"})},
         fields |-> {Field("note", "nested", FALSE), Field("tags", "array", FALSE)}]

(* An endpoint of another document, with a placeholder it does not declare, *)
(* and a text where the other's body has an array.                          *)
Put2 == [server |-> "s2", path |-> <<Literal("/z"), Placeholder("b")>>,
         parameters |-> {Param("h", "header", "yes", {"x"})},
         fields |-> {Field("note", "text", TRUE), Field("tags", "text", FALSE)}]

MCEndpoints == {Get, Post, Put2}
==============================================================================
