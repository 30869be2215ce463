---------------------------- MODULE MCSchemaGen ----------------------------
(* A small instance of SchemaGen for TLC. *)
EXTENDS DumpTree

Line(class, text) == [class |-> class, text |-> text]
Lines == {Line("prose", "p"), Line("value", "a"), Line("value", "b"), Line("blank", ""),
          Line("aside", "n"), Line("banner", "u")}
Comments == BoundedSeq(Lines, 2)
            \cup {<<Line("banner", "u"), Line("prose", "p"), Line("value", "a"), Line("value", "b")>>,
                  <<Line("prose", "p"), Line("prose", "q"), Line("blank", ""), Line("prose", "p")>>,
                  <<Line("aside", "n"), Line("value", "a"), Line("prose", "p"), Line("value", "b")>>}

Leaf(key, type, val, head, line) ==
    [key |-> key, type |-> type, val |-> val, head |-> head, line |-> line, content |-> <<>>]
Map(key, content) ==
    [key |-> key, type |-> "map", val |-> "", head |-> <<>>, line |-> <<>>, content |-> content]

Version == Leaf("version", "int", "1", <<Line("banner", "u")>>, <<>>)
\* One option with every comment, among others; and a later version.
OldDumps ==
    {<<Version,
       Map("document", <<Leaf("toc", "string", "a", c, <<>>),
                         Map("images", <<Leaf("optimize", "bool", "true", <<>>, c)>>),
                         Map("vignettes", <<>>),
                         Leaf("bodies", "list", "a", <<>>, <<>>)>>)>> : c \in Comments}
NewDumps ==
    {<<Map("document", <<Leaf("optimize", "bool", "true", <<>>, <<>>),
                         Leaf("toc", "string", v, <<Line("value", "a"), Line("value", "b")>>, <<>>),
                         Leaf("bodies", "string", "a", <<>>, <<>>)>>), Version>> : v \in {"a", "c"}}
SomeDumps == OldDumps \cup NewDumps
SomeDocs == {<<>>, <<[key |-> <<"document", "toc">>, text |-> "d"],
                     [key |-> <<"document", "toc">>, text |-> "e"],
                     [key |-> <<"reporting">>, text |-> "d"]>>}
=============================================================================
