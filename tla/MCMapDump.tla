----------------------------- MODULE MCMapDump -----------------------------
\* Two pages of one file and one without a file, in two hash chains.  Zero and
\* the last have the same name; Zero is the key the walks start from.
EXTENDS MapDump, TLC

Zero == <<{}, {}>>
Pages == {Zero, <<{1}, {}>>, <<{1}, {1}>>}
Shared == Zero :> 2 @@ <<{1}, {}>> :> 1 @@ <<{1}, {1}>> :> 1
=============================================================================
