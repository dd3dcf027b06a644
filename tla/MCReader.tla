------------------------------ MODULE MCReader ------------------------------
(***************************************************************************)
(* Bytes of two bits, so that an int32 has 8 bits and an int64 has 16.     *)
(***************************************************************************)
EXTENDS Reader

MCValues == [k \in Kinds |->
    CASE k = "byte" -> {-2, 1}
      [] k = "int32" -> {-128, -2, 37}
      [] k = "int64" -> {-32768, -2, 300}
      [] k = "double" -> {<<0, 1, 2, 3, 3, 2, 0, 2>>}
      [] k = "string" -> {<<>>, <<3, 1>>, <<1, 0, 2>>}
      [] k = "blob" -> {<<>>, <<0, 3>>}]

MCStored == {-129, 128, 511}

\* Frames whose contents can be read as a string or blob that is empty, exact,
\* too long, of negative length, or without its zero byte; a frame length of 0,
\* one beyond MAX_LEN, and frames that are cut short.
Frame(bytes) == <<0, 0, Len(bytes) \div 4, Len(bytes) % 4>> \o bytes

MCGarbage ==
    {Frame(length \o bytes) :
        length \in {<<0, 0, 0, n>> : n \in 0..3} \cup {<<3, 3, 3, 3>>, <<2, 0, 0, 0>>},
        bytes \in {<<>>, <<0>>, <<1>>, <<1, 0>>, <<0, 0, 0, 0, 3>>}}
    \cup {Frame(<<3>>), <<0, 0, 0, 0>>, <<2, 0, 0, 0, 1>>, <<0, 0>>, <<0, 0, 0, 2, 1>>}
=============================================================================
