------------------------------ MODULE MCMachine ------------------------------
(* A small instance of Machine for TLC: the server comes to offer another   *)
(* tool in place of the first, or another server tool in place of one; a    *)
(* second screen of another scale is left of the first; two of the letters  *)
(* are session commands.                                                    *)
EXTENDS Machine, TLC

Offers == {{"draft"}, {"send", "search"}, {"draft", "fetch"}}
Hostable == {"search", "fetch"}
Dispatched == {"fetch"}

Screens == {[origin |-> -3, captured |-> 5, shipped |-> 2], [origin |-> 0, captured |-> 2, shipped |-> 2]}

Alike == Permutations(Servers)

Mail == 1..4
Resumed == 1..3
=============================================================================
