--------------------------- MODULE MCConfigLayers ---------------------------
(* Small instances of ConfigLayers for TLC. *)
EXTENDS EditorGrid

\* One option the application sets, one it does not.
hyphen == <<"document", "insert_soft_hyphen">>
jpeg == <<"document", "images", "jpeg_quality_level">>
cover == <<"document", "images", "cover", "generate">>
\* Two options the schema tells apart by more than their last segment.
bookEnd == <<"document", "vignettes", "book", "end">>
chapterEnd == <<"document", "vignettes", "chapter", "end">>
\* A template of several lines.
names == <<"document", "output_name_template">>

TheOrder == <<hyphen, bookEnd, jpeg, names, chapterEnd>>
TheSchema == {hyphen, jpeg, names, bookEnd, chapterEnd}
TheKinds == hyphen :> "bool" @@ jpeg :> "int" @@ names :> "area" @@
            bookEnd :> "text" @@ chapterEnd :> "text"
TheDefaults == hyphen :> "false" @@ jpeg :> "75" @@ names :> "two\nlines" @@
               bookEnd :> "nothing" @@ chapterEnd :> "nothing"
TheTexts == [bool |-> {"true", "false"}, int |-> {"75", "040", ""}, text |-> {"nothing"},
             area |-> {"two\nlines", "\nodd"}, old |-> {""}]
TheIntegers == "75" :> "75" @@ "40" :> "40" @@ "040" :> "40"
TheCrlf == "two\nlines" :> "two\r\nlines" @@ "\nodd" :> "\r\nodd"
TheHeld == "two\r\nlines" :> "two\nlines" @@ "\nodd" :> "odd" @@ "\r\nodd" :> "odd"
TheAppDefaults == {Leaf(hyphen, Val("bool", "true")), Leaf(cover, Val("bool", "true"))}
TheLegacy == {Leaf(<<"document", "gone">>, Val("int", "5")), Leaf(<<"gone">>, Val("int", "6"))}
TheFlip == Leaf(<<"use_broken_images">>, Val("bool", "true"))
=============================================================================
