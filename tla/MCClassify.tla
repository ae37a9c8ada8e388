------------------------------ MODULE MCClassify ------------------------------
(* Two sockets, ports 0 to 2 of which port 2 has rules but is never enabled, *)
(* batches of two in bursts of up to three.                                 *)
EXTENDS Classify

Header(e, x, p, k) == [ether |-> e, ext |-> x, proto |-> p, key |-> k]

\* Flows 0, 1 and 4 of the generated ones (0 and 1 of the arrays), a flow to
\* the disabled port, one that no table has, and a packet with options whose
\* bytes look like flow 1.
MCHeaders ==
  { Header("ipv4", FALSE, "udp", <<"udp", 0, 0, 0, 0>>),
    Header("ipv4", FALSE, "udp", <<"udp", 1, 0, 0, 0>>),
    Header("ipv4", FALSE, "udp", <<"udp", 0, 0, 1, 0>>),
    Header("ipv4", FALSE, "udp", <<"udp", 2, 0, 0, 0>>),
    Header("ipv4", FALSE, "other", <<"other", 1, 0, 0, 0>>),
    Header("ipv4", TRUE, "udp", <<"udp", 1, 0, 0, 0>>),
    Header("ipv6", FALSE, "tcp", <<"tcp", 0, 0, 0, 0>>),
    Header("ipv6", FALSE, "tcp", <<"tcp", 1, 0, 0, 1>>),
    Header("ipv6", TRUE, "tcp", <<"other", 1, 0, 0, 0>>),
    Header("other", FALSE, "other", <<"other", 0, 0, 0, 0>>) }

MCMasks == {{0}, {1}, {0, 1}}
=============================================================================
