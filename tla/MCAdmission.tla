----------------------------- MODULE MCAdmission ------------------------------
(* A small instance of Admission: requests may come from a controller whose *)
(* clock is behind or ahead, some live too long, and the cache holds fewer  *)
(* nonces than there are requests.                                          *)
EXTENDS Admission, TLC

\* No catalogue knows "shell.exec".
MCRequested == { {"screen.view", "clipboard.write", "shell.exec"}, {"shell.exec"} }
MCConsented == { {"screen.view"}, {"clipboard.write", "keyboard.key"} }
MCPolicy == {"screen.view", "clipboard.write"}
MCTimes == 0 .. 3
MCLifetimes == {2, 3}

(* Nothing tells two nonces or two endpoints apart.                         *)
Interchangeable == Permutations(Nonces) \cup Permutations(Endpoints)
===============================================================================
