----------------------------- MODULE MCLocalKeys -----------------------------
(* LocalKeys on a small instance; see local_keys.cfg.                        *)
EXTENDS LocalKeys

\* "a", "ab", "a:1" and the empty family.
MCFamily == {<<97>>, <<97, 98>>, <<97, 58, 49>>, <<>>}

\* "0" and "1".
MCItoa == [n \in 0 .. 1 |-> <<48 + n>>]

\* "1:0", with which a name of family "a" has the key of one of "a:1", and "".
MCOtherName == {<<49, 58, 48>>, <<>>}
=============================================================================
