----------------------------- MODULE MCArguments -----------------------------
(* Instances of Arguments for TLC: four handlers, one of them with exclusive options. *)
EXTENDS Arguments

Wait == [flags |-> {3}, opts |-> {4}, value |-> [b \in Byte |-> "number"],
         need |-> <<"number">>, may |-> <<>>, rest |-> "none", apart |-> {}]
BindVars == [flags |-> {}, opts |-> {3, 4}, value |-> [b \in Byte |-> "word"],
         need |-> <<>>, may |-> <<>>, rest |-> "name", apart |-> {3, 4}]
Open == [flags |-> {3, 4}, opts |-> {}, value |-> [b \in Byte |-> "word"],
         need |-> <<"word">>, may |-> <<"name">>, rest |-> "none", apart |-> {}]
Close == [flags |-> {}, opts |-> {}, value |-> [b \in Byte |-> "word"],
         need |-> <<"integer">>, may |-> <<>>, rest |-> "integer", apart |-> {}]
Handlers4 == <<Wait, BindVars, Open, Close>>

TheTables == {<< <<3, 4>>, <<3, 4, 5>>, <<3, 5, 5>> >>, << <<5>>, <<4, 3>>, <<4>>, <<3, 5>> >>,
              << <<5, 5, 5>>, <<4, 4>>, <<3>> >>, << <<4, 5>>, <<3>>, <<4, 5>> >>}

SomeWords == {<<5>>, <<3>>, <<>>, <<1>>, <<1, 5>>, <<1, 1>>, <<1, 1, 2>>, <<1, 2>>, <<1, 3>>, <<1, 4>>,
              <<1, 3, 4>>, <<1, 4, 5>>, <<1, 3, 4, 5>>}
Lists(n) == UNION {[1..k -> SomeWords] : k \in 0..n}
Names(n) == UNION {[1..k -> 3..5] : k \in 0..n}
TheCalls == {<<w>> : w \in Names(4)}
            \cup {<<w>> \o l : w \in {<<3, 4>>, <<3, 4, 5>>, <<3, 5>>}, l \in Lists(3)}
            \cup Lists(1)
\* The two options of the second handler, alone and together, in both orders.
FewCalls == {<<w>> \o l : w \in {<<3, 4>>, <<3, 4, 5>>, <<3, 5>>},
                         l \in {<< >>, << <<1, 3, 5>> >>, << <<1, 4>>, <<5>> >>,
                               << <<1, 3>>, <<5>>, <<1, 4, 5>> >>, << <<1, 4, 5>>, <<1, 3, 5>> >>}}
=============================================================================
