----------------------------- MODULE MCReaderList -----------------------------
EXTENDS ReaderList, TLC

\* The second reader's name begins with a letter of the prefix ("Vasco ...").
MCNameLength == 1 :> 3 @@ 2 :> 5
MCArrays == {[names |-> <<Soft(2), Hard(2)>>, states |-> <<"unaware", "present">>],
             [names |-> <<Soft(2), Soft(1)>>, states |-> <<"unaware", "unaware">>]}

Symmetry == Permutations(Threads)
===============================================================================
