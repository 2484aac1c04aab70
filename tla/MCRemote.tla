------------------------------ MODULE MCRemote ------------------------------
(* One peer serving one library, within several sets of bounds, one for    *)
(* each behaviour: an end_links beside a connection being served, with a   *)
(* closer and without; two threads connecting two links beside a           *)
(* disconnect; one link over which a library is loaded, listed, opened and *)
(* closed several times, the link failing at any time where one of loads   *)
(* and opens is single; and a library held across a reconnect.             *)
EXTENDS Remote, TLC

Symmetry == Permutations(Hosts)

Bounds(ld, en, di, ln, op, th, cl, fa) ==
  [loads |-> ld, ends |-> en, disconnects |-> di, links |-> ln, opens |-> op,
   threads |-> th, closer |-> cl, faulty |-> fa]

MCScopes ==
  {Bounds(0, 1, 0, 1, 0, Hosts, TRUE, TRUE), Bounds(0, 1, 0, 1, 0, Hosts, FALSE, TRUE),
   Bounds(0, 0, 1, 2, 0, Hosts, TRUE, TRUE),
   Bounds(2, 0, 0, 1, 2, {"registry"}, TRUE, FALSE),
   Bounds(2, 0, 0, 1, 1, {"registry"}, TRUE, TRUE),
   Bounds(1, 0, 0, 1, 2, {"registry"}, TRUE, TRUE),
   Bounds(1, 0, 0, 2, 2, {"registry"}, TRUE, FALSE)}

=============================================================================
