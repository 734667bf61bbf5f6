------------------------------ MODULE MCSpecView ------------------------------
(* Small documents: two schemas that may refer to each other, to themselves *)
(* and to one the document does not declare, and two operations on a path.  *)
EXTENDS GraphCanvas, TLC

CONSTANTS A, B, X, p1, p2, q, t1, t2, path

Media(ref, items, others) == [ref |-> ref, items |-> items, others |-> others]

Property(label, ref, items) == [label |-> label, ref |-> ref, items |-> items]

Part(ref) == [keyword |-> "allOf", ref |-> ref]

PropertiesOfA == {<<Property(p1, A, None)>>,
                  <<Property(p1, B, None), Property(p2, None, B)>>}

RestOfB == {[properties |-> <<>>, parts |-> <<>>],
            [properties |-> <<>>, parts |-> <<Part(A), Part(None)>>],
            [properties |-> <<Property(p1, A, None), Property(p2, X, None)>>, parts |-> <<Part(A)>>]}

Responses == <<[status |-> "200", content |-> <<Media(None, A, {}), Media(X, None, {})>>],
               [status |-> "404", content |-> <<Media(None, None, {B}), Media(A, B, {})>>]>>

Parameters == <<[label |-> p1, ref |-> B, others |-> {}], [label |-> p2, ref |-> None, others |-> {A}]>>

Calls == {[responses |-> Responses, shared |-> {}, parameters |-> <<>>],
          [responses |-> <<>>, shared |-> {B}, parameters |-> Parameters]}

Empty == [schemas |-> <<>>, operations |-> <<>>]

MCDocuments ==
    {Empty} \cup
    {[schemas |-> <<[name |-> A, words |-> {}, properties |-> a, parts |-> <<>>],
                    [name |-> B, words |-> {q}, properties |-> b.properties, parts |-> b.parts]>>,
      operations |-> <<[method |-> "GET", path |-> path, words |-> {q}, tags |-> {t1},
                        body |-> <<>>, responses |-> c.responses, parameters |-> <<>>,
                        shared |-> c.shared],
                       [method |-> "POST", path |-> path, words |-> {}, tags |-> {t1, t2},
                        body |-> <<Media(None, B, {}), Media(A, None, {})>>, responses |-> <<>>,
                        parameters |-> c.parameters, shared |-> {}]>>] :
        a \in PropertiesOfA, b \in RestOfB, c \in Calls}
==============================================================================
