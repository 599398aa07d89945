-------------------------- MODULE MCSerialization ---------------------------
(* Fields with bytes that tell their positions apart, the framing's 255 and *)
(* 0, and arrays with no element, a few and more than 255.                  *)
EXTENDS Serialization

Floats == {Scalar("float", <<63, 192, 0, 1>>)}

MCFields ==
  {Scalar("uint8", <<255>>), Scalar("bool", <<1>>), Scalar("uint16", <<1, 2>>),
   Scalar("uint32", <<0, 255, 3, 4>>),
   Scalar("double", <<1, 2, 3, 4, 5, 6, 7, 8>>),
   Array("char", <<>>), Array("char", <<<<7>>, <<8>>, <<0>>>>),
   Array("uint16", <<<<0, 2>>, <<3, 4>>>>),
   Array("uint8", [i \in 1..258 |-> <<i % 256>>]),
   Fixed("uint16", <<<<5, 6>>, <<7, 8>>>>),
   Fixed("uint8", <<<<255>>, <<1>>, <<2>>>>)}

FloatFields == Floats \cup {Scalar("uint8", <<9>>)}
MCBehind == {<<0, 0, 0, 0>>, <<10, 11, 12, 13>>}
NoBehind == {<<0, 0, 0, 0>>}
=============================================================================
