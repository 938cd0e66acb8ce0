------------------------------ MODULE MCSessionKeys ------------------------------
(* Small instances of SessionKeys for TLC.                                  *)
EXTENDS SessionKeys, TLC

CONSTANTS alice, bob, k1, k2

Keys == Permutations({k1, k2})
People == Permutations({alice, bob})
KeysAndPeople == Keys \cup People

(* Two keys for one slot, sessions that expire on the way. *)
ShortTerms == {[expiry |-> 5, limit |-> 0, window |-> 0], [expiry |-> 8, limit |-> 1, window |-> 2]}
==================================================================================
