--------------------------- MODULE MCRowCommands ---------------------------
(* A table of two columns, one of them spelled two ways; the values are a small
   number, one that is not printed in full, and a text that is also the name of
   a column.  A text of where() is one condition, or two with an OR or an AND.  *)
EXTENDS RowCommands, TLC

MCFolded == [n \in Spellings |-> IF n = "A" THEN "a" ELSE n]
MCByteOrder == <<"A", "a", "b">>

MCStreamed == [v \in Values |->
                  CASE v = "b" -> [is |-> "column", of |-> "b"]
                    [] v = "1.0000001" -> Value("1")
                    [] OTHER -> Value(v)]

MCQuoted == [v \in Values |-> Value(v)]

MCHolds == [t \in {"a=1", "b=1"} |->
               {row \in Rows : row[IF t = "a=1" THEN "a" ELSE "b"] = "1"}]

Part(link, test) == [link |-> link, test |-> test]

MCTexts ==
    {<<p>> : p \in Parts}
        \cup {<<Part("", "a=1"), Part("OR", "b=1")>>, <<Part("AND", "b=1"), Part("OR", "a=1")>>,
              <<Part("AND", "a=1"), Part("AND", "b=1")>>}
=============================================================================
