--------------------------- MODULE MCWindowRanges ---------------------------
(* A leap year and the one after it, two moments a day. *)
EXTENDS WindowRanges

\* Around the ends of February, a quarter and the year, and inside a week
\* that spans two years: 28 and 29 February, 1 March, 31 March, 1 April,
\* 30 and 31 December 2024, 1 and 6 January 2025.
MCMoments == {117, 118, 120, 181, 182, 729, 731, 732, 741}
=============================================================================
