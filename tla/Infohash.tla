------------------------------ MODULE Infohash -----------------------------
(***************************************************************************)
(* internal/infohash: the canonical infohash of a post's magnet, the key    *)
(* under which posts of one torrent meet.  A magnet is the sequence of its  *)
(* urns [kind, enc, torrent]; kind "bare" is a value without a urn.  A text *)
(* [enc, torrent] spells the infohash of a torrent in lower-case hex        *)
(* ("hex"), in other hex ("HEX"), in base32, or not at all ("other").       *)
(***************************************************************************)
EXTENDS Sequences, Integers, FiniteSetsExt

CONSTANT NULL

Text(enc, torrent) == [enc |-> enc, torrent |-> torrent]

\* Mutant: the 32-character form is passed on as it is.
CanonicalBtih_NoBase32(u) ==
  CASE u.enc \in {"hex", "HEX"} -> Text("hex", u.torrent)
    [] u.enc = "base32"         -> Text("base32", u.torrent)
    [] OTHER                    -> NULL

CanonicalBtih(u) ==
  IF u.enc \in {"hex", "HEX", "base32"} THEN Text("hex", u.torrent) ELSE NULL

(* The first v1 urn counts, whatever else the magnet carries; NULL is       *)
(* ErrSkipInfohash.                                                         *)
NormalizeInfohash(magnet) ==
  LET v1 == {n \in 1..Len(magnet) : magnet[n].kind = "btih"}
  IN  IF v1 # {} THEN CanonicalBtih(magnet[Min(v1)])
      ELSE IF magnet # <<>> /\ magnet[1].kind = "bare" THEN CanonicalBtih(magnet[1])
      ELSE NULL

IsCanonicalInfohash(ih) == ih # NULL /\ ih.enc = "hex"
=============================================================================
