---------------------------- MODULE Subsequences ----------------------------
(***************************************************************************)
(* The elements of a sequence that lie in a set, in their order: what a loop *)
(* with a filter leaves (std::remove_if, or a continue in a range loop).     *)
(* SelectSeq says the same with an operator for the set, which cannot be     *)
(* reasoned about; Keep can, see Induction.                                  *)
(***************************************************************************)
EXTENDS Integers, Sequences

Keep(s, T) ==
  LET kept[n \in 0 .. Len(s)] ==
        IF n = 0 THEN <<>>
        ELSE IF s[n] \in T THEN Append(kept[n - 1], s[n])
        ELSE kept[n - 1]
  IN  kept[Len(s)]

=============================================================================
