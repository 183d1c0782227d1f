---------------------------- MODULE MCProcedures ----------------------------
(* Small instances of the procedures. *)
EXTENDS Procedures

\* blocked_network_syscalls[] on x86-64.
NetworkCalls == <<41, 53, 42, 49, 50, 43, 288, 44, 46, 307, 45, 47, 299, 48, 54, 55>>

\* Their numbers, the neighbours of these and a few that have nothing to do
\* with the network.
CallNumbers == {0, 1, 40, 51, 52, 56, 59, 231, 287, 289, 298, 300, 306, 308}
                 \cup {NetworkCalls[i] : i \in 1..16}

\* Numerals at the edges of a four-bit unsigned long and of the limits.
EdgeNumerals ==
  {Numeral(FALSE, 0, FALSE), Numeral(FALSE, 3, FALSE), Numeral(FALSE, 4, FALSE),
   Numeral(FALSE, 17, FALSE), Numeral(FALSE, 2, TRUE), Numeral(TRUE, 15, FALSE)}
=============================================================================
