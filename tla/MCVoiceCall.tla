---------------------------- MODULE MCVoiceCall ----------------------------
(* VoiceCall for TLC: two users, the names they may take and dial.            *)
EXTENDS VoiceCall, TLC

CONSTANTS a, b, ann, bob

Two == {a, b}
OwnNames == {<<a, ann>>, <<b, bob>>}
AnnTwice == OwnNames \cup {<<b, ann>>}
AnnCallsBob == {<<a, bob>>}
BothCall == {<<a, bob>>, <<b, ann>>}

\* When both have their own names and dial each other, exchanging the users
\* together with their names changes nothing (neither alone would do).
ExchangeUsers ==
    {p \in Permutations({a, b, ann, bob}) :
        OwnNames = {<<p[t[1]], p[t[2]]>> : t \in OwnNames}}

=============================================================================
