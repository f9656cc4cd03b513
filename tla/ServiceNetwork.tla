--------------------------- MODULE ServiceNetwork ---------------------------
(***************************************************************************)
(* The addresses that oneinfra takes from the service CIDR of a cluster.   *)
(* net.ParseCIDR returns the address of the network, and the code adds an  *)
(* offset to the last byte of it, which is all that changes: a network is  *)
(* here that byte and the number of addresses that differ from it in the   *)
(* last byte only.                                                         *)
(***************************************************************************)
EXTENDS Naturals

Byte == 0..255

\* The networks: their address is a multiple of their size.
Network ==
    {net \in [last : Byte, size : {1, 2, 4, 8, 16, 32, 64, 128, 256}] :
        net.last % net.size = 0}

\* A byte has no carry.
KubernetesServiceIP(net) == (net.last + 1) % 256
CoreDNSServiceIP(net) == (net.last + 10) % 256

\* net.IPNet contains the address, as the API server of the cluster demands.
Contains(net, ip) == net.last <= ip /\ ip < net.last + net.size
=============================================================================
