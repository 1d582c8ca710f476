----------------------------- MODULE MCModules -----------------------------
(* One library in three generations, a client of it, and a module that     *)
(* does not stay.                                                          *)
EXTENDS Modules

Generation(n) == [lib |-> "L", minor |-> n]
NoTable == [lib |-> Nothing, minor |-> 0]

MCExported == [first |-> Generation(1), second |-> Generation(2),
               third |-> Generation(3), client |-> NoTable,
               oneshot |-> NoTable]

MCImported == [i \in DOMAIN MCExported |->
                 IF i = "client" THEN <<"L">> ELSE <<>>]

MCBootList == <<"second", "oneshot", "client">>
=============================================================================
