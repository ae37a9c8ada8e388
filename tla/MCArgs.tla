-------------------------------- MODULE MCArgs --------------------------------
(* Args on small widths: an int of 4 bits, an uint8_t of 2. *)
EXTENDS Args

CONSTANTS cfgA, cfgB

Opt(name, vals) == {[opt |-> name, val |-> v] : v \in vals}

\* 9 is negative as an int, 17 is 1; port 4 is port 0 as an uint8_t.
MCOptions ==
  Opt("p", {{}, {0, 1}, {32}})
    \cup Opt("config", {cfgA, cfgB, Malformed})
    \cup Opt("hash-entry-num", {2, 9, 17})
    \cup Opt("max-pkt-len", {3, 5})
    \cup Opt("eth-dest", {3, 4, Malformed})
    \cup UNION {Opt(o, {0}) : o \in {"P", "E", "L", "ipv6", "no-numa", "parse-ptype", "enable-jumbo"}}
=============================================================================
