--------------------------- MODULE MCAuthzEngine ---------------------------
(* A small instance of AuthzEngine.                                        *)
EXTENDS AuthzEngine

Slice(types, resolver, docs) == [types |-> types, resolver |-> resolver, policies |-> docs]

\* Slices that go together, and one for every reason to refuse.
MCSlices == {
    Slice(<<"Todo">>, TRUE, <<"user", "notCompleted">>),
    Slice(<<"Service">>, TRUE, <<"onlyOpen">>),
    Slice(<<"Todo">>, FALSE, <<"notCompleted">>),
    Slice(<<>>, TRUE, <<>>),
    Slice(<<"Todo", "Todo">>, TRUE, <<>>),
    Slice(<<"User">>, TRUE, <<>>),
    Slice(<<>>, FALSE, <<"user", "malformed">>)}

File(cedar, readable, doc) == [cedar |-> cedar, readable |-> readable, doc |-> doc]
Files(files) == [kind |-> "files", files |-> files]

\* The embedded policies, a directory of several files, and one for every error.
MCDirs == {
    [kind |-> "embedded", files |-> <<>>],
    [kind |-> "missing", files |-> <<>>],
    Files(<<>>),
    Files(<<File(FALSE, TRUE, <<>>)>>),
    Files(<<File(TRUE, TRUE, <<"admin">>), File(TRUE, FALSE, <<>>)>>),
    Files(<<File(TRUE, TRUE, <<"malformed">>)>>),
    Files(<<File(TRUE, TRUE, <<"admin">>), File(FALSE, TRUE, <<"malformed">>),
            File(TRUE, TRUE, <<"onlyOpen">>)>>)}
=============================================================================
