----------------------------- MODULE MCLinking -----------------------------
EXTENDS Linking

\* Scalars with a tail, the smallest buffer with a rest, the largest one and
\* one byte more; main's own draws are of 4, 18 and 32 bytes.
MCLens == [v02 |-> {5, 65, 4080, 4081}, v03 |-> {0, 9}]

\* A name longer than one cipher block.
MCName == <<"block", "rest">>

MCThreads == {"main", "other"}

\* Below, at and above the minimum of 65, and one that is not whole blocks.
MCBodyLens == {0, 33, 48, 49, 64, 65, 66}

\* The words that give the smallest and the largest id.
MCRegistrationWords == {16379}
MCPreKeyWords == {0, 16777214}
=============================================================================
