------------------------------- MODULE MCWire --------------------------------
(***************************************************************************)
(* A client of the RPC server whose commands fit into a datagram, lose     *)
(* their signature in it, or lose their data as well, and the sender tool, *)
(* whose data are no command.                                              *)
(***************************************************************************)
EXTENDS Wire

Command(type, n) ==
  [Client |-> 3, Type |-> type, Key |-> <<107>>, Value |-> [i \in 1..n |-> i]]

MCRequests ==
  {Command(setCommandString, 1), Command(appendCommandString, 70),
   Command(setCommandString, 120),
   [Client |-> 5, Type |-> <<>>, Key |-> <<>>, Value |-> [i \in 1..32 |-> 99]]}

MCGenesis == Sample(GenesisParamsViewer, 1)

MCContract == [i \in 1..20 |-> 17]

MCProof == <<1, 2>>

=============================================================================
