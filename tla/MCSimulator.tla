---------------------------- MODULE MCSimulator ----------------------------
(***************************************************************************)
(* Instance of Simulator for TLC: every input file of NumJobs of the lines *)
(* below, in any order and repeated, under every scheme.                   *)
(***************************************************************************)
EXTENDS Simulator

MCJobs == 0 .. NumJobs - 1

Line(a, r, p) == [arrival_time |-> a, run_time |-> r, priority |-> p]

\* Jobs that preempt a longer or less important one in the time unit it started
\* in or later, that tie with one, that arrive when others finish, and that
\* leave the cores idle between.
MCLines == {Line(0, 3, 1), Line(0, 2, 0), Line(1, 1, 0), Line(1, 2, 1),
            Line(1, 3, 0), Line(2, 1, 1), Line(4, 2, 0)}
=============================================================================
