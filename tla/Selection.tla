------------------------------- MODULE Selection -------------------------------
(***************************************************************************)
(* What std::remove_if and std::copy_if select.  Selected(s, T) is         *)
(* SelectSeq(s, LAMBDA x : x \in T); the definition of SelectSeq is closed *)
(* to the proof system.                                                    *)
(***************************************************************************)
EXTENDS Integers, Sequences

(* The elements of s that are in T, in their order.                        *)
Selected(s, T) ==
  LET upto[i \in 0 .. Len(s)] ==
        IF i = 0 THEN <<>>
        ELSE IF s[i] \in T THEN Append(upto[i - 1], s[i]) ELSE upto[i - 1]
  IN  upto[Len(s)]
=============================================================================
