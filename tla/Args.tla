--------------------------------- MODULE Args ---------------------------------
(***************************************************************************)
(* parse_args (l3fwd/main.c): the options, one after another, in whatever   *)
(* order they were given, and the settling of the mode after the last.      *)
(*                                                                          *)
(* An option is a record [opt, val].  A value is what the string says: a    *)
(* number, the name of a well-formed --config, or Malformed; a port mask is *)
(* the set of its bits, {} when it is not a number or is zero.              *)
(***************************************************************************)
EXTENDS Integers, Sequences

CONSTANTS
  Options,        \* the options an operator may give
  MaxOptions,     \* bound: how many of them
  Malformed,      \* a value that is not of its form
  DefaultParams,  \* lcore_params_array_default
  HashDefault,    \* HASH_ENTRY_NUMBER_DEFAULT
  MaxHash,        \* L3FWD_HASH_ENTRIES
  MinLen, MaxLen, \* 64 and MAX_JUMBO_PKT_LEN
  LenDefault,     \* ETHER_MAX_LEN
  IntBits,        \* width of an int
  CharBits,       \* width of an uint8_t
  MaxEthPorts     \* RTE_MAX_ETHPORTS

\* Powers are positive: the prover knows no more about 2 ^ IntBits than is said here.
ASSUME ArgsAssumption ==
  /\ MaxOptions \in Nat
  /\ {MaxHash, MinLen, MaxLen, MaxEthPorts} \subseteq Nat
  /\ HashDefault \in 1 .. MaxHash
  /\ 2 ^ IntBits \in Nat \ {0}
  /\ 2 ^ CharBits \in Nat \ {0}

\* Where a number is asked for, a value is one or is malformed.
ASSUME OptionsAssumption ==
  \A o \in Options : o.opt \in {"hash-entry-num", "max-pkt-len", "eth-dest"} =>
    o.val = Malformed \/ o.val \in Nat

VARIABLES
  argv,       \* the command line
  optind,     \* how many options of it have been consumed
  pc,         \* "parse", "ok" or "exit"
  mask,       \* enabled_port_mask
  params,     \* lcore_params
  lpm, em,    \* l3fwd_lpm_on, l3fwd_em_on
  ipv6, numa, promisc, ptype, jumbo,   \* the flags
  hash,       \* hash_entry_number
  maxLen,     \* port_conf.rxmode.max_rx_pkt_len
  dest        \* the ports whose dest_eth_addr was given

flags == <<ipv6, numa, promisc, ptype, jumbo>>
settings == <<mask, params, lpm, em, flags, hash, maxLen, dest>>
vars == <<argv, optind, pc, settings>>

AllBits == 0 .. 31

TypeOK ==
  /\ argv \in Seq(Options) /\ Len(argv) <= MaxOptions
  /\ optind \in 0 .. Len(argv)
  /\ pc \in {"parse", "ok", "exit"}
  /\ mask \subseteq AllBits
  /\ lpm \in BOOLEAN /\ em \in BOOLEAN
  /\ ipv6 \in BOOLEAN /\ numa \in BOOLEAN /\ promisc \in BOOLEAN
  /\ ptype \in BOOLEAN /\ jumbo \in BOOLEAN
  /\ hash \in 1 .. MaxHash
  /\ maxLen \in {LenDefault} \cup MinLen .. MaxLen
  /\ dest \subseteq 0 .. (MaxEthPorts - 1)

Init ==
  /\ argv \in UNION {[1 .. n -> Options] : n \in 0 .. MaxOptions}
  /\ optind = 0
  /\ pc = "parse"
  /\ mask = {}
  /\ params = DefaultParams
  /\ lpm = FALSE /\ em = FALSE
  /\ ipv6 = FALSE /\ numa = TRUE /\ promisc = FALSE /\ ptype = FALSE /\ jumbo = FALSE
  /\ hash = HashDefault
  /\ maxLen = LenDefault
  /\ dest = {}

\* The option getopt_long returns is opt.
Reads(opt) ==
  /\ pc = "parse"
  /\ optind < Len(argv)
  /\ argv[optind + 1].opt = opt
Val == argv[optind + 1].val

Consume(n) ==
  /\ optind' = optind + n
  /\ UNCHANGED <<argv, pc>>

\* print_usage and return -1, or rte_exit.
Refuse ==
  /\ pc' = "exit"
  /\ UNCHANGED <<argv, optind, settings>>

-----------------------------------------------------------------------------
(* The conversions. *)

\* The caller of parse_portmask stores an uint32_t: of -1, all bits; of a wider
\* mask, the low 32.
ParsePortmask(m) == IF m = {} THEN AllBits ELSE m \cap AllBits

\* An unsigned long returned as an int.
AsInt(n) ==
  LET w == n % (2 ^ IntBits) IN IF w >= 2 ^ (IntBits - 1) THEN w - 2 ^ IntBits ELSE w

\* parse_hash_entry_number and parse_max_pkt_len.
ParseNumber(n) == IF n = Malformed \/ n = 0 THEN -1 ELSE AsInt(n)

\* Mutant of HashOK: a negative number passes.
HashNotTooHigh(n) == n # 0 /\ n <= MaxHash

HashOK(n) == n > 0 /\ n <= MaxHash
LenOK(n) == ~(n < MinLen \/ n > MaxLen)

-----------------------------------------------------------------------------
Portmask ==
  /\ Reads("p")
  /\ \/ /\ ParsePortmask(Val) # {}
        /\ mask' = ParsePortmask(Val)
        /\ Consume(1)
     \/ /\ ParsePortmask(Val) = {}
        /\ pc' = "exit"
        /\ mask' = {}
        /\ UNCHANGED <<argv, optind>>
  /\ UNCHANGED <<params, lpm, em, flags, hash, maxLen, dest>>

\* -E and -L
Mode ==
  /\ \/ Reads("E") /\ em' = TRUE /\ UNCHANGED lpm
     \/ Reads("L") /\ lpm' = TRUE /\ UNCHANGED em
  /\ Consume(1)
  /\ UNCHANGED <<mask, params, flags, hash, maxLen, dest>>

\* -P, --no-numa, --ipv6 and --parse-ptype
Flag ==
  /\ \/ Reads("P") /\ promisc' = TRUE /\ UNCHANGED <<numa, ipv6, ptype>>
     \/ Reads("no-numa") /\ numa' = FALSE /\ UNCHANGED <<promisc, ipv6, ptype>>
     \/ Reads("ipv6") /\ ipv6' = TRUE /\ UNCHANGED <<promisc, numa, ptype>>
     \/ Reads("parse-ptype") /\ ptype' = TRUE /\ UNCHANGED <<promisc, numa, ipv6>>
  /\ Consume(1)
  /\ UNCHANGED <<mask, params, lpm, em, jumbo, hash, maxLen, dest>>

\* parse_config: the params given last replace all earlier ones.
Config ==
  /\ Reads("config")
  /\ Val # Malformed
  /\ params' = Val
  /\ Consume(1)
  /\ UNCHANGED <<mask, lpm, em, flags, hash, maxLen, dest>>

\* parse_eth_dest: the port number is stored in an uint8_t before it is checked.
EthDest ==
  /\ Reads("eth-dest")
  /\ Val # Malformed
  /\ Val % (2 ^ CharBits) < MaxEthPorts
  /\ dest' = dest \cup {Val % (2 ^ CharBits)}
  /\ Consume(1)
  /\ UNCHANGED <<mask, params, lpm, em, flags, hash, maxLen>>

HashEntries ==
  /\ Reads("hash-entry-num")
  /\ HashOK(ParseNumber(Val))
  /\ hash' = ParseNumber(Val)
  /\ Consume(1)
  /\ UNCHANGED <<mask, params, lpm, em, flags, maxLen, dest>>

(***************************************************************************)
(* --enable-jumbo asks getopt_long for --max-pkt-len; if the next option is *)
(* another one, that call consumes it and its result is not looked at.      *)
(***************************************************************************)
Following == IF optind + 1 < Len(argv) THEN argv[optind + 2].opt ELSE "none"

Jumbo ==
  /\ Reads("enable-jumbo")
  /\ jumbo' = TRUE
  /\ \/ /\ Following = "none"
        /\ Consume(1)
        /\ UNCHANGED maxLen
     \/ /\ Following = "max-pkt-len"
        /\ LenOK(ParseNumber(argv[optind + 2].val))
        /\ maxLen' = ParseNumber(argv[optind + 2].val)
        /\ Consume(2)
     \/ /\ Following = "max-pkt-len"
        /\ ~LenOK(ParseNumber(argv[optind + 2].val))
        /\ pc' = "exit"
        /\ UNCHANGED <<argv, optind, maxLen>>
     \/ /\ Following \notin {"none", "max-pkt-len"}
        /\ Consume(2)
        /\ UNCHANGED maxLen
  /\ UNCHANGED <<mask, params, lpm, em, ipv6, numa, promisc, ptype, hash, dest>>

\* A malformed value, a number out of range, an option out of place.
Invalid ==
  /\ \/ Reads("config") /\ Val = Malformed
     \/ Reads("eth-dest") /\ Val = Malformed
     \/ Reads("eth-dest") /\ Val # Malformed /\ Val % (2 ^ CharBits) >= MaxEthPorts
     \/ Reads("hash-entry-num") /\ ~HashOK(ParseNumber(Val))
     \/ Reads("max-pkt-len")
  /\ Refuse

\* Mutant of Settle: the options of the other mode are kept.
SettleKeep ==
  /\ pc = "parse"
  /\ optind = Len(argv)
  /\ IF lpm /\ em
     THEN pc' = "exit" /\ UNCHANGED lpm
     ELSE pc' = "ok" /\ lpm' = ~em
  /\ UNCHANGED <<argv, optind, mask, params, em, flags, hash, maxLen, dest>>

\* After the last option: one mode, and the options that belong to the other reset.
Settle ==
  /\ pc = "parse"
  /\ optind = Len(argv)
  /\ IF lpm /\ em
     THEN pc' = "exit" /\ UNCHANGED <<lpm, ipv6, hash>>
     ELSE /\ pc' = "ok"
          /\ lpm' = ~em
          /\ IF em THEN UNCHANGED <<ipv6, hash>>
             ELSE ipv6' = FALSE /\ hash' = HashDefault
  /\ UNCHANGED <<argv, optind, mask, params, em, numa, promisc, ptype, jumbo, maxLen, dest>>

Finished == pc # "parse" /\ UNCHANGED vars

Next ==
  \/ Portmask \/ Mode \/ Flag \/ Config \/ EthDest \/ HashEntries \/ Jumbo
  \/ Invalid \/ Settle \/ Finished

Spec == Init /\ [][Next]_vars

-----------------------------------------------------------------------------
(* Properties. *)

Given(opt) == {n \in 1 .. Len(argv) : argv[n].opt = opt}
LastVal(opt) == argv[CHOOSE n \in Given(opt) : \A m \in Given(opt) : m <= n].val

(***************************************************************************)
(* Without jumbo frames the order of the options does not matter beyond     *)
(* "the last one wins": an accepted command line selects exact match if -E  *)
(* is anywhere in it, and then the IPv6 and hash options anywhere in it     *)
(* apply, and otherwise none of them does.                                  *)
(***************************************************************************)
OrderFree ==
  pc = "ok" /\ Given("enable-jumbo") = {} =>
    /\ lpm <=> ~em
    /\ em <=> Given("E") # {}
    /\ ipv6 <=> em /\ Given("ipv6") # {}
    /\ hash = IF em /\ Given("hash-entry-num") # {}
              THEN ParseNumber(LastVal("hash-entry-num")) ELSE HashDefault
    /\ params = IF Given("config") # {} THEN LastVal("config") ELSE DefaultParams
=============================================================================
