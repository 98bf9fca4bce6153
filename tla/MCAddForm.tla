------------------------------- MODULE MCAddForm -------------------------------
(* Small instances of AddForm.                                               *)
EXTENDS AddForm

Share(s) == [share |-> s, sub |-> FALSE, user |-> None]
Folder(s) == [share |-> s, sub |-> TRUE, user |-> None]
AsUser(s, a) == [share |-> s, sub |-> FALSE, user |-> a]

CONSTANTS s1, s2, alice, bob

\* Two shares, a folder in one of them, and an address that names a user.
MCTexts == {Prefix, Share(s1), Folder(s1), Share(s2), AsUser(s1, alice)}

\* One share, picked by one account after another.
OneShare == {Prefix, Share(s1)}
=============================================================================
