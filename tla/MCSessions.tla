----------------------------- MODULE MCSessions -------------------------------
(* Small instances of Sessions; the .cfg files give the bounds.             *)
EXTENDS Sessions, TLC

\* Requests are interchangeable, and so are users.
MCSymmetry == Permutations(Clients) \cup Permutations(Users)
=============================================================================
