-------------------------- MODULE MCCrawlTrigger ---------------------------
(* Model-checking instances of CrawlTrigger. *)
EXTENDS CrawlTrigger, TLC

At(n) == [at |-> n, date |-> n - (n % Granule)]

(* A full listing, and one whose archive ends above the first pass's floor. *)
MCListings == { <<At(4), At(3), At(2), At(1)>>, <<At(4), Blank, Blank, Blank>> }

(* With dates that parse these instances are among those the theorems about *)
(* the watermark speak of.                                                  *)
ASSUME TheoremsApply == DateParses = {TRUE} => TidyListings /\ DatesParse
=============================================================================
