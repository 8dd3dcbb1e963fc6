------------------------------ MODULE MCFileSys ------------------------------
EXTENDS FileSys
P(abs, parts) == [abs |-> abs, parts |-> parts]
MCPath == {P(FALSE, <<"a">>), P(FALSE, <<"a", "b">>), P(TRUE, <<>>), P(FALSE, <<".", "..", "..">>)}
MCMaxCalls == [p |-> 3, q |-> 1]
MCDoes == [p |-> {"create", "mkdir", "remove", "open"}, q |-> {"chdir", "exec"}]
=============================================================================
