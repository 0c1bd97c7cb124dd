----------------------------- MODULE MCTopology -----------------------------
EXTENDS Topology

(* Machines with the same number of cores on every socket, one or two     *)
(* sockets, with and without hyperthreads, both OS numberings.            *)
MCEqualMachines ==
  [cores : {<<1>>, <<2>>, <<1, 1>>, <<2, 2>>}, threads : {1, 2},
   numbering : {"adjacent", "offset"}, snc : {FALSE}]

(* Two sockets with different numbers of cores.                            *)
MCUnequalMachines ==
  [cores : {<<1, 2>>, <<2, 1>>}, threads : {1, 2}, numbering : {"offset"}, snc : {FALSE}]

=============================================================================
