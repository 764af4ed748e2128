----------------------------- MODULE MCIngest ------------------------------
(* Model-checking instances of Ingest. *)
EXTENDS Ingest, TLC

CONSTANTS a, b, c1, c2

Btih(enc, torrent) == [kind |-> "btih", enc |-> enc, torrent |-> torrent]
Btmh(torrent) == [kind |-> "btmh", enc |-> "other", torrent |-> torrent]

(* Two posts of one torrent from two sources, one in base32; an id whose    *)
(* magnet was edited to another torrent, a hybrid in upper case; a repost   *)
(* of that under another id; and a v2-only post.                            *)
P1 == [key |-> <<"dmhy", 1>>, magnet |-> <<Btih("base32", a)>>, date |-> 2, size |-> NULL]
P2 == [key |-> <<"nyaa", 1>>, magnet |-> <<Btih("hex", a)>>, date |-> 1, size |-> 7]
P3 == [key |-> <<"dmhy", 1>>, magnet |-> <<Btmh(b), Btih("HEX", b)>>, date |-> 3, size |-> 8]
P4 == [key |-> <<"nyaa", 2>>, magnet |-> <<Btih("hex", b)>>, date |-> 1, size |-> NULL]
P5 == [key |-> <<"nyaa", 3>>, magnet |-> <<Btmh(a)>>, date |-> 1, size |-> NULL]

MCPosts == {P1, P2, P3, P4, P5}

MCBatches == {<<P1, P5, P2>>, <<P2, P3, P4>>}
=============================================================================
