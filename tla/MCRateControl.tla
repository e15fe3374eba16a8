-------------------------- MODULE MCRateControl --------------------------
(* A normal client, one that has set fractions without denominators, one   *)
(* with a low target rate (a first delay beyond MAX_IPD), one with a rate  *)
(* for which the delay is zero, one whose first delay wraps, and two with  *)
(* a filter that diverges and an error rate of 100 %, or more.             *)
EXTENDS RateControl
Usual == [target_rate |-> 8, block_size |-> 1, error_rate |-> 1, history |-> 50,
          slower_num |-> 3, slower_den |-> 2, faster_num |-> 1, faster_den |-> 2]
MCParams == {Usual, [Usual EXCEPT !.slower_den = 0, !.faster_num = 0, !.faster_den = 0],
             [Usual EXCEPT !.block_size = 2, !.history = 0],
             [Usual EXCEPT !.target_rate = 16, !.history = 100],
             [Usual EXCEPT !.block_size = 3],
             [Usual EXCEPT !.history = 150, !.error_rate = 4],
             [Usual EXCEPT !.history = 150, !.error_rate = 5, !.slower_num = 1]}
==========================================================================
