------------------------------ MODULE MCFsDriver ------------------------------
EXTENDS FsDriver

Slashed(p) == [p EXCEPT !.slash = TRUE]

RootDef == <<"w">>
PathsDef ==
    {Rel(<<"a">>), Rel(<<"b">>), Rel(<<"a", "b">>), Slashed(Rel(<<"a">>)),
     Abs(<<"tmp", "s", "a">>), Abs(<<"var", "tmp", "s", "b">>)}
TargetsDef ==
    {Rel(<<"a">>), Rel(<<"a", "b">>), Rel(<<"..", "s", "b">>), Abs(<<"tmp", "s", "a">>),
     Abs(<<"private">>)}
ProbesDef ==
    {Rel(cs) : cs \in {<<"..">>, <<"b", "..", "a">>, <<"..", "..", "tmp", "s">>,
                       <<"a", "..", "..", "..", "var">>, <<"..", "..", "var", "tmp", "s">>,
                       <<"b", "l">>}}
    \cup {Abs(cs) : cs \in {<<"tmp", "s", "a", "..", "b">>, <<"tmp", "..", "tmp">>,
                            <<"tmp", "s", "a", "..", "..", "..", "..", "tmp", "s">>,
                            <<"var", "tmp", "s", "b", "..", "..", "..", "tmp", "s">>,
                            <<"tmp", "s", "a", "b", "..", "..", "..", "var">>, <<"w", "..", "tmp">>}}
    \cup {Slashed(Abs(<<"private", "tmp", "s", "a">>))}
LongNamesDef == {"l"}
WideNamesDef == {"l", "b"}
ComponentDef == {".", "..", "private", "tmp", "var", "s", "w", "a", "b", "l"}
===============================================================================
