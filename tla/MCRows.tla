------------------------------- MODULE MCRows -------------------------------
(* A Query over results of up to three columns with two names, an int of three
   bits, and of every type a value or its error value.  Rows are written on a day in
   every 613 from 1902 to 2037 and on leap days and the ends of a year and a month,
   four times a day.                                                               *)
EXTENDS Rows, TLC

MCFields == [t \in Texts |-> IF t = EmptyText THEN <<>> ELSE <<2020, 2, 29, 12>>]
MCFloatTime == [f \in Floats |-> IF f = ZeroFloat THEN -2 ELSE 1]
MCMoments == {DaySeconds * day + s :
                day \in {613 * k : k \in -40..40} \cup {-25, 11016, 11322, 18627},
                s \in {0, 43200, 82800, 86399}}

Symmetry == Permutations(Names)
=============================================================================
