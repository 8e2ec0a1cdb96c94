------------------------ MODULE MCLoweringSoundness ------------------------
EXTENDS LoweringSoundness, TLC

CONSTANTS a, b

Val(t) == [string |-> TRUE, text |-> t]
Num(t) == [string |-> FALSE, text |-> t]
Field(name, mods, values) == [name |-> name, mods |-> mods, values |-> values]
Selection(fields) == [selection |-> TRUE, mapping |-> TRUE, fields |-> fields]
Filter(fields)    == [selection |-> FALSE, mapping |-> TRUE, fields |-> fields]
Keywords          == [selection |-> TRUE, mapping |-> FALSE, fields |-> <<>>]
Rule(category, blocks, accepts) ==
    [category |-> category, blocks |-> blocks, accepts |-> accepts]

Mods == {<<>>, <<"startswith">>, <<"endswith">>, <<"contains">>,
         <<"startswith", "all">>, <<"all", "endswith">>, <<"all">>, <<"startswith", "endswith">>}
Texts == {<<a>>, <<b, a>>, <<a, b, a>>, <<Star>>, <<Star, a>>, <<b, Star>>,
          <<a, Star, b>>, <<Star, a, Star>>, <<Query, a>>}
Values == {<<Val(t)>> : t \in Texts}
            \cup {<<Num(<<a>>)>>, <<Num(<<a>>), Num(<<b>>)>>, <<Val(<<b>>), Num(<<a>>)>>}
            \cup {<<Val(t), Val(u)>> : t \in {<<a>>, <<b, a>>, <<Star, a>>}, u \in {<<b>>, <<b, Star>>}}

Pushed(c) == IF c = "syscall" THEN "TargetFilename" ELSE "Image"
OneField(c) == {Selection(<<Field(Pushed(c), m, v)>>) : m \in Mods, v \in Values}
FewFields(c) ==
    {Selection(<<Field(Pushed(c), m, <<Val(t)>>)>>) :
        m \in {<<>>, <<"startswith">>, <<"endswith">>}, t \in {<<a>>, <<b, a>>}}
      \cup { Selection(<<Field("User", <<>>, <<Val(<<a>>)>>)>>), Keywords }
      \cup {Selection(<<Field(Pushed(c), <<"endswith">>, <<Val(<<a>>)>>),
                        Field("CommandLine", <<>>, <<Val(<<a>>)>>)>>),
            Selection(<<Field("CommandLine", <<>>, <<Val(<<a>>)>>)>>)}

Categories == {"syscall", "lsm", "process_creation"}

\* The conditions of the corpus with a filter, and some that are true without a selection.
FilterConditions == {{{1}}, {{1}, {1, 2}}, {{1}, {2}, {1, 2}}, {{1}, {}}}

\* One selection; two of them under each condition of the corpus; a filter.
MCRules ==
    UNION {
        {Rule(c, <<s>>, {{1}}) : s \in OneField(c)}
          \cup {Rule(c, <<s, t>>, acc) : s \in FewFields(c), t \in FewFields(c),
                    acc \in {{{1}, {2}, {1, 2}}, {{1, 2}}}}
          \cup {Rule(c, <<s, Filter(<<Field(Pushed(c), <<"endswith">>, <<Val(<<a>>)>>)>>)>>, acc) :
                    s \in OneField(c), acc \in FilterConditions} : c \in Categories}
      \cup {Rule("syscall", <<Selection(<<Field("Syscall", <<>>, <<Val(ModuleLoad)>>)>>)>>, {{1}}),
            Rule("syscall", <<Selection(<<Field("Syscall", <<>>, <<Val(ModuleLoad)>>)>>),
                              Selection(<<Field("TargetFilename", <<"endswith">>, <<Val(<<a>>)>>)>>)>>,
                 {{1}, {2}, {1, 2}}),
            Rule("network", <<Selection(<<Field("Image", <<>>, <<Val(<<a>>)>>)>>)>>, {{1}}),
            Rule("file_event", <<Selection(<<Field("Image", <<>>, <<Val(<<a>>)>>)>>)>>, {{1}})}

Strs == {<<>>, <<a>>, <<b>>, <<a, a>>, <<b, a>>, <<a, b>>, <<a, b, a>>, <<b, b, a>>, <<a, b, b>>}
Rec(type, comm, path, args) ==
    [type |-> type, comm |-> comm, path |-> path, user |-> <<a>>, args |-> args]
MCEvents ==
    {Rec(ET_FILE, c, p, <<>>) : c \in {<<a>>, <<b>>}, p \in Strs}
      \cup {Rec(ET_LSM, c, <<>>, <<>>) : c \in Strs}
      \cup {Rec(ET_EXECVE, c, p, x) : c \in {<<a>>, <<b>>}, p \in Strs \ {<<>>}, x \in {<<>>, <<b>>}}
      \cup {Rec(ET_MODULE, <<b>>, <<>>, <<>>), Rec(ET_NETWORK, <<a>>, <<>>, <<>>)}
MCModuleLoad == <<b, b, a, a>>
MCExecve     == <<b, b, b, b>>
MCOpenat     == <<a, a, b, b>>
MCConnect    == <<a, a, a, b>>
=============================================================================
