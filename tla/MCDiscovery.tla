----------------------------- MODULE MCDiscovery -----------------------------
(***************************************************************************)
(* The field lists, mappings and data objects that TLC tries: a known path, *)
(* a path that is a dotted key or nested or both, one below a dotted key,   *)
(* one in an array and one that is never reported.                          *)
(***************************************************************************)
EXTENDS Discovery, TLC

Kinds == "rule_name" :> "text" @@ "app_category" :> "text"
           @@ "src_port" :> "port" @@ "bytes_in" :> "counter"
Columns == "rule_name" :> "rule_name" @@ "category" :> "app_category"
           @@ "src_port" :> "src_port" @@ "bytes_in" :> "bytes_in"
Names == "risk" :> "risk" @@ "app_category" :> "app_category" @@ "user-id" :> "user_id"

Lists == [c \in DOMAIN Kinds |-> IF c = "src_port" THEN << <<"srcport">>, <<"sport">> >>
                                 ELSE IF c = "bytes_in" THEN << <<"sent">> >> ELSE <<>>]
Other == {<<"aws", "requestParameters", "keyId">>}
Objects == {<<"aws", "requestParameters">>}

A == <<"edr", "port">>
B == <<"edr", "name">>
Keyed == Literal(A)
Deep == Nested(A)
DeepName == Nested(B)
Below == <<Key(<<"edr">>), Key(<<"port", "raw">>)>>
InArray == <<Key(<<"tags">>), Index("0")>>
InAws == Nested(<<"aws", "requestParameters", "name">>)

Text == [type |-> "text", num |-> NotANumber]
Leaf(type, num) == [type |-> type, num |-> num]
Blank == Leaf("blank", NotANumber)
Leafs == {Text, Blank, Leaf("text", 443), Leaf("padded", 443), Leaf("number", 443),
          Leaf("number", 70000), Leaf("number", 0), Leaf("bool", NotANumber),
          Leaf("null", NotANumber)}

\* Data objects with the path A in both forms, or with one field of any kind.
Probes ==
  {Keyed :> v @@ Deep :> w : v \in Leafs, w \in Leafs}
    \cup {Keyed :> v @@ DeepName :> Text : v \in Leafs}
    \cup {Deep :> v @@ pos :> Text : v \in Leafs, pos \in {Below, InArray, InAws}}

Files ==
  {<<Keyed :> Blank @@ Deep :> Leaf("number", 443), DeepName :> Text @@ InArray :> Text>>,
   <<Keyed :> Text @@ DeepName :> Leaf("bool", NotANumber) @@ InAws :> Text,
     Nested(<<"srcport">>) :> Leaf("number", 70000) @@ Deep :> Leaf("text", 443)>>}

None == <<>>
Mappings == {None, A :> "risk" @@ B :> "rule_name", A :> "src_port" @@ B :> "user-id"}
DocMappings == {None, A :> "risk" @@ B :> "app_category"}
=============================================================================
