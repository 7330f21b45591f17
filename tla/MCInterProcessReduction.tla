------------------------ MODULE MCInterProcessReduction ------------------------
EXTENDS InterProcessReduction
TwoIds == {5, 6}        \* different homes in a table of two
=============================================================================
