----------------------------- MODULE MCFastPath -----------------------------
EXTENDS FastPath, TLC

CONSTANTS a, b

Field(name, mod, text) ==
    [name |-> name, mods |-> mod, values |-> <<[string |-> TRUE, text |-> text]>>]
Rule(category, field) ==
    [category |-> category, accepts |-> {{1}},
     blocks |-> <<[selection |-> TRUE, mapping |-> TRUE, fields |-> <<field>>]>>]

\* Files that are lowered, fail open, are too long, load a module, have no event type.
MCRules == {
    Rule("syscall", Field("TargetFilename", <<"endswith">>, <<a>>)),
    Rule("syscall", Field("TargetFilename", <<"startswith">>, <<b>>)),
    Rule("syscall", Field("TargetFilename", <<"contains">>, <<a>>)),
    Rule("lsm", Field("Image", <<>>, <<a>>)),
    Rule("lsm", Field("Image", <<"startswith">>, <<b, b, b>>)),
    Rule("process_creation", Field("Image", <<"endswith">>, <<b>>)),
    Rule("syscall", Field("Syscall", <<>>, ModuleLoad)),
    Rule("file_event", Field("TargetFilename", <<>>, <<a>>)) }

Call(type, comm, path, readable, write) ==
    [type |-> type, comm |-> comm, path |-> path, arg0 |-> <<a>>, user |-> <<a>>,
     readable |-> readable, write |-> write, args |-> <<b>>]

MCCalls ==
    {Call(ET_FILE, <<b>>, p, TRUE, FALSE) :
        p \in {<<a>>, <<b>>, <<b, a>>, <<a, b>>, <<b, b, a>>, <<a, b, b, b, b, b, b>>}}
      \cup {Call(ET_FILE, <<b>>, <<b, b>>, TRUE, TRUE), Call(ET_FILE, <<b>>, <<a>>, FALSE, FALSE),
            Call(ET_LSM, <<a>>, <<>>, TRUE, FALSE), Call(ET_LSM, <<b, b>>, <<>>, TRUE, FALSE),
            Call(ET_EXECVE, <<b>>, <<a, b>>, TRUE, FALSE),
            Call(ET_EXECVE, <<b>>, <<a, a, a, a, a, a, a>>, TRUE, FALSE),
            Call(ET_EXECVE, <<b>>, <<b>>, FALSE, FALSE),
            [Call(ET_EXECVE, <<b>>, <<b>>, FALSE, FALSE) EXCEPT !.arg0 = <<>>],
            Call(ET_NETWORK, <<b>>, <<>>, TRUE, FALSE),
            Call(ET_NETWORK, <<b>>, <<>>, FALSE, FALSE),
            Call(ET_MODULE, <<b>>, <<>>, TRUE, FALSE)}
MCModuleLoad == <<b, b, a, a>>
MCExecve     == <<b, b, b, b>>
MCOpenat     == <<a, a, b, b>>
MCConnect    == <<a, a, a, b>>

Symmetric == Permutations(Files) \cup Permutations(Cpus)
=============================================================================
