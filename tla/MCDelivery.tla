----------------------------- MODULE MCDelivery -----------------------------
EXTENDS DeliveryProperties

CONSTANTS c1, c2

AB == <<"a", "b">>

Number(type, sign, number) ==
  [topic |-> AB, data_type |-> type, sign |-> sign, number |-> number, power |-> 2,
   text |-> "t"]

Topic(topic) == [Number(3, 0, 0) EXCEPT !.topic = topic]

(* Numbers at both ends of an int, every data type, and topics with one    *)
(* level, with a level twice, with none and with an empty one.             *)
MCDatagrams ==
  {Number(0, 0, Half - 1), Number(0, 0, Half), Number(0, 1, Half), Number(0, 1, Half + 1)}
    \cup {Number(1, 0, 5), Number(2, 1, 3), Number(4, 0, 0)}
    \cup {Topic(t) : t \in {<<"a">>, <<"a", "b", "b">>, <<"">>, <<"a", "b", "">>}}

Pair == <<Number(0, 1, Half), Number(1, 0, 5)>>

MCBursts == {<<d>> : d \in MCDatagrams} \cup {Pair}

MCSubscriptions ==
  {c1 :> {p} @@ c2 :> {AB} :
     p \in {<<"*", "b">>, <<"a", "*">>, <<"+", "b">>, <<"a", "*", "b">>, <<"a", "">>}}

(* One request, whose answer is a message without a payload.               *)
MCPatterns == c1 :> {} @@ c2 :> {AB}

(* One byte that tells messages apart, and the NUL; a topic with an empty  *)
(* level makes the message longer than one byte of a length can say.       *)
MCText(topic, content) ==
  LET tag == IF content.kind = "STRING" THEN Len(topic)
             ELSE (content.num + 3 * content.decimals) % Base
  IN  IF Last(topic) = "" THEN [i \in 1..(Base + 1) |-> IF i > Base THEN 0 ELSE tag]
      ELSE <<tag, 0>>
=============================================================================
