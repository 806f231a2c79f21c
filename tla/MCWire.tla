------------------------------- MODULE MCWire -------------------------------
(* Wire with bytes of ten values, so that eight of them fit TLC's integers. *)
EXTENDS Wire

Message(t, f, c) == [type |-> t, fields |-> f, components |-> c]

c1 == <<1, <<1, 2>>, <<3>>>>
c2 == <<-1, <<>>, <<9, 9>>>>

MCMessages ==
  { Message(Subscription, <<<<7>>, -1, 4999, TRUE>>, <<>>),
    Message(Pair, <<-1, <<1>>, <<>>, 3, 0, -1>>, <<>>),
    \* exactly at the limit, and one byte over it
    Message(PairUpdate, <<1234, <<1, 2, 3>>, <<4, 5, 6, 7, 8, 9, 0, 1>>, 1, 49999999, -50000000>>, <<>>),
    Message(PairUpdate, <<1234, <<1, 2, 3>>, <<4, 5, 6, 7, 8, 9, 0, 1, 2>>, 1, 49999999, 0>>, <<>>),
    Message(IndicatePresence, <<<<4, 2>>, FALSE, -1>>, <<>>),
    Message(MasterMessage, <<-5000>>, <<c1, c2>>),
    Message(UpdateComponents, <<1>> \o c2, <<>>),
    Message(RemovePair, <<3, <<5, 5>>>>, <<>>),
    Message(PairRemoved, <<-1, <<>>>>, <<>>) }
=============================================================================
