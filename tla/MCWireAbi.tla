----------------------------- MODULE MCWireAbi -----------------------------
EXTENDS WireAbi

\* Short types go as chars do.
MCTypes ==
    {"bool", "char", "uchar", "int", "uint", "long", "ulong", "llong", "ullong", "ptr"}

\* On both sides of the sign, and all ones.
MCSamples(w) == {w \div 2 - 1, w \div 2, w - 1}
=============================================================================
