---------------------------- MODULE MCBackfill -----------------------------
(* Model-checking instances of Backfill. *)
EXTENDS Backfill, TLC

At(n) == [at |-> n, date |-> n]

(* A full listing, one with an empty page in the middle, one with a hole    *)
(* and a date that did not parse, and one without any row.                  *)
MCListings == {
  <<At(6), At(5), At(4), At(3), At(2), At(1)>>,
  <<At(8), Blank, Blank, Blank, Blank, Blank, At(2), At(1)>>,
  <<At(6), Blank, [at |-> 4, date |-> ZeroDate], At(3), At(2), At(1)>>,
  <<Blank, Blank, Blank, Blank, Blank, Blank>> }

Lookback(w, d, r) == [weeks |-> w, days |-> d, rest |-> r]

(* None, 1w1d, one that wraps to -12, one that wraps to 2, one malformed. *)
MCLookbacks == { Lookback(0, 0, 0), Lookback(1, 1, 0), Lookback(9, 1, 1),
                 Lookback(16, 2, 0), Lookback(0, 1, -1) }

NoLookbacks == { Lookback(0, 0, 0) }

(* Six posts on three pages. *)
LongListing == { <<At(6), At(5), At(4), At(3), At(2), At(1)>> }
=============================================================================
