--------------------------- MODULE MCVersionLaws ---------------------------
(* A small alphabet for VersionLaws: MaxInt + 1 stands for every number    *)
(* that does not fit an int.                                               *)
EXTENDS VersionLaws

SmallAlphabet == {Num(0), Num(2), Num(MaxInt + 1), V, Dot, Sep(0), Sep(2), Txt(0)}

=============================================================================
