------------------------------- MODULE MCEncoder -------------------------------
(* Instances of EncoderScheduling. *)
EXTENDS EncoderScheduling

\* An item at an offset; all its placeholders have embeddings, or all but the first.
Item(h, offset) ==
  [hash |-> h, offset |-> offset, length |-> Embeds[h], is_embed |-> 0 .. Embeds[h] - 1]
Framed(h, offset) ==
  [hash |-> h, offset |-> offset, length |-> Embeds[h] + 1, is_embed |-> 1 .. Embeds[h]]

\* Three items that do not fit together.
Sizes == [A |-> 1, B |-> 2, C |-> 1]

\* Request 1 has the same item twice, 2 a large one late; 3 shares one with 1, and
\* 4 one with 2.
SharedFeatures ==
  <<  <<Item("A", 0), Framed("A", 2)>>,
      <<Item("B", 2)>>,
      <<Item("C", 0), Item("A", 1)>>,
      <<Item("B", 0)>>  >>
SharedTokens == <<4, 4, 3, 3>>

\* Request 2 has a large item late, 3 the same item as 1.
HeldSizes == [A |-> 1, B |-> 2]
HeldFeatures == << <<Item("A", 0)>>, <<Item("B", 2)>>, <<Item("A", 0)>> >>
HeldTokens == <<1, 4, 3>>

=============================================================================
