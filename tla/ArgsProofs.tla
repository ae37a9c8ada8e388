------------------------------ MODULE ArgsProofs ------------------------------
(***************************************************************************)
(* That the options of l3fwd may be given in any order, for command lines   *)
(* of any length.                                                           *)
(***************************************************************************)
EXTENDS Args, TLAPS

-----------------------------------------------------------------------------
(* Types. *)

\* TypeOK in three parts: the parser, the flags and the values.
ParserTyped ==
  /\ argv \in Seq(Options) /\ Len(argv) <= MaxOptions
  /\ optind \in 0 .. Len(argv)
  /\ pc \in {"parse", "ok", "exit"}
FlagsTyped ==
  /\ lpm \in BOOLEAN /\ em \in BOOLEAN
  /\ ipv6 \in BOOLEAN /\ numa \in BOOLEAN /\ promisc \in BOOLEAN
  /\ ptype \in BOOLEAN /\ jumbo \in BOOLEAN
ValuesTyped ==
  /\ mask \subseteq AllBits
  /\ hash \in 1 .. MaxHash
  /\ maxLen \in {LenDefault} \cup MinLen .. MaxLen
  /\ dest \subseteq 0 .. (MaxEthPorts - 1)

LEMMA TypeParts == TypeOK <=> ParserTyped /\ FlagsTyped /\ ValuesTyped
BY DEF TypeOK, ParserTyped, FlagsTyped, ValuesTyped

LEMMA NumberType ==
  ASSUME NEW v, v = Malformed \/ v \in Nat
  PROVE  ParseNumber(v) \in Int
<1>1. CASE v = Malformed \/ v = 0
  BY <1>1 DEF ParseNumber
<1>2. CASE v # Malformed /\ v # 0
  <2>1. v % (2 ^ IntBits) \in Int
    BY <1>2, ArgsAssumption
  <2>2. AsInt(v) \in Int
    BY <2>1, ArgsAssumption DEF AsInt
  <2>3. QED BY <1>2, <2>2 DEF ParseNumber
<1>3. QED BY <1>1, <1>2

LEMMA ATypeInit == Init => TypeOK
<1> SUFFICES ASSUME Init PROVE TypeOK
  OBVIOUS
<1>1. PICK n \in 0 .. MaxOptions : argv \in [1 .. n -> Options]
  BY DEF Init
<1>2. n \in Nat /\ n <= MaxOptions
  BY ArgsAssumption
<1>3. argv \in Seq(Options) /\ Len(argv) = n
  BY <1>1, <1>2
<1>4. ParserTyped
  BY <1>2, <1>3 DEF Init, ParserTyped
<1>5. FlagsTyped
  BY DEF Init, FlagsTyped
<1>6. ValuesTyped
  BY ArgsAssumption DEF Init, ValuesTyped
<1>7. QED BY <1>4, <1>5, <1>6, TypeParts

\* Values of the options under way.
LEMMA Numeric ==
  ASSUME TypeOK, NEW n \in 1 .. Len(argv),
         argv[n].opt \in {"hash-entry-num", "max-pkt-len", "eth-dest"}
  PROVE  argv[n].val = Malformed \/ argv[n].val \in Nat
<1>1. argv[n] \in Options
  BY DEF TypeOK
<1>2. QED BY <1>1, OptionsAssumption

LEMMA ATypeNext == TypeOK /\ [Next]_vars => TypeOK'
<1> SUFFICES ASSUME TypeOK, [Next]_vars PROVE TypeOK'
  OBVIOUS
<1>0. Len(argv) \in Nat /\ optind \in Nat
  BY DEF TypeOK
<1>1. CASE Portmask
  <2>1. ParserTyped'
    BY <1>0, <1>1, TypeParts DEF ParserTyped, Portmask, Reads, Consume
  <2>2. FlagsTyped'
    BY <1>1, TypeParts DEF FlagsTyped, Portmask, flags
  <2>3. ParsePortmask(Val) \subseteq AllBits
    BY DEF ParsePortmask
  <2>4. ValuesTyped'
    BY <1>1, <2>3, TypeParts DEF ValuesTyped, Portmask
  <2>5. QED BY <2>1, <2>2, <2>4 DEF TypeOK, ParserTyped, FlagsTyped, ValuesTyped
<1>2. CASE Mode
  <2>1. ParserTyped'
    BY <1>0, <1>2, TypeParts DEF ParserTyped, Mode, Reads, Consume
  <2>2. FlagsTyped'
    BY <1>2, TypeParts DEF FlagsTyped, Mode, flags
  <2>3. ValuesTyped'
    BY <1>2, TypeParts DEF ValuesTyped, Mode
  <2>4. QED BY <2>1, <2>2, <2>3 DEF TypeOK, ParserTyped, FlagsTyped, ValuesTyped
<1>3. CASE Flag
  <2>1. ParserTyped'
    BY <1>0, <1>3, TypeParts DEF ParserTyped, Flag, Reads, Consume
  <2>2. FlagsTyped'
    BY <1>3, TypeParts DEF FlagsTyped, Flag
  <2>3. ValuesTyped'
    BY <1>3, TypeParts DEF ValuesTyped, Flag
  <2>4. QED BY <2>1, <2>2, <2>3 DEF TypeOK, ParserTyped, FlagsTyped, ValuesTyped
<1>4. CASE Config
  BY <1>0, <1>4 DEF TypeOK, Config, Reads, Consume, flags
<1>5. CASE EthDest
  <2>1. Val \in Nat
    BY <1>0, <1>5, Numeric DEF EthDest, Reads, Val
  <2>2. Val % (2 ^ CharBits) \in 0 .. (MaxEthPorts - 1)
    BY <2>1, <1>5, ArgsAssumption DEF EthDest
  <2>3. ParserTyped'
    BY <1>0, <1>5, TypeParts DEF ParserTyped, EthDest, Reads, Consume
  <2>4. FlagsTyped'
    BY <1>5, TypeParts DEF FlagsTyped, EthDest, flags
  <2>5. ValuesTyped'
    BY <1>5, <2>2, TypeParts DEF ValuesTyped, EthDest
  <2>6. QED BY <2>3, <2>4, <2>5 DEF TypeOK, ParserTyped, FlagsTyped, ValuesTyped
<1>6. CASE HashEntries
  <2>1. ParseNumber(Val) \in Int
    BY <1>0, <1>6, Numeric, NumberType DEF HashEntries, Reads, Val
  <2>2. ParseNumber(Val) \in 1 .. MaxHash
    BY <2>1, <1>6, ArgsAssumption DEF HashEntries, HashOK
  <2>3. QED BY <1>0, <1>6, <2>2 DEF TypeOK, HashEntries, Reads, Consume, flags
<1>7. CASE Jumbo
  <2>1. Following # "none" => optind + 2 \in 1 .. Len(argv) /\ argv[optind + 2].opt = Following
    BY <1>0 DEF Following
  <2>2. CASE Following = "none"
    BY <1>0, <1>7, <2>2 DEF TypeOK, Jumbo, Reads, Consume
  <2>3. CASE Following = "max-pkt-len"
    <3>1. ParseNumber(argv[optind + 2].val) \in Int
      BY <2>1, <2>3, Numeric, NumberType
    <3>2. LenOK(ParseNumber(argv[optind + 2].val)) =>
            ParseNumber(argv[optind + 2].val) \in MinLen .. MaxLen
      BY <3>1, ArgsAssumption DEF LenOK
    <3>3. QED BY <1>0, <1>7, <2>1, <2>3, <3>2 DEF TypeOK, Jumbo, Reads, Consume
  <2>4. CASE Following \notin {"none", "max-pkt-len"}
    BY <1>0, <1>7, <2>1, <2>4 DEF TypeOK, Jumbo, Reads, Consume
  <2>5. QED BY <2>2, <2>3, <2>4
<1>8. CASE Invalid
  BY <1>8 DEF TypeOK, Invalid, Refuse, settings, flags
<1>9. CASE Settle
  BY <1>9, ArgsAssumption DEF TypeOK, Settle
<1>10. CASE Finished \/ UNCHANGED vars
  BY <1>10 DEF TypeOK, Finished, vars, settings, flags
<1>11. QED
  BY <1>1, <1>2, <1>3, <1>4, <1>5, <1>6, <1>7, <1>8, <1>9, <1>10 DEF Next

\* Every setting keeps its type: lengths, numbers of entries and ports are in range.
THEOREM ArgsTyped == Spec => []TypeOK
BY ATypeInit, ATypeNext, PTL DEF Spec

-----------------------------------------------------------------------------
(***************************************************************************)
(* Order.  While options are read, the settings are what the options read   *)
(* so far say; Settle makes of that what the whole line says.               *)
(***************************************************************************)
Read(opt) == {n \in 1 .. optind : argv[n].opt = opt}
IsLast(n, opt) == n \in Read(opt) /\ \A i \in Read(opt) : i <= n

SoFar ==
  /\ em <=> Read("E") # {}
  /\ ipv6 <=> Read("ipv6") # {}
  /\ \/ Read("hash-entry-num") = {} /\ hash = HashDefault
     \/ \E n \in 1 .. optind :
          IsLast(n, "hash-entry-num") /\ hash = ParseNumber(argv[n].val)
  /\ \/ Read("config") = {} /\ params = DefaultParams
     \/ \E n \in 1 .. optind : IsLast(n, "config") /\ params = argv[n].val

OrderInv ==
  /\ TypeOK
  /\ pc = "parse" /\ Given("enable-jumbo") = {} => SoFar
  /\ OrderFree

\* The option under way is the last of its name; the others keep their last.
LEMMA ReadNext ==
  ASSUME TypeOK, optind < Len(argv), optind' = optind + 1, argv' = argv, NEW opt
  PROVE  /\ argv[optind + 1].opt = opt =>
              \E n \in 1 .. optind' : n = optind + 1 /\ IsLast(n, opt)'
         /\ argv[optind + 1].opt # opt =>
              /\ Read(opt)' = Read(opt)
              /\ \A n \in 1 .. optind : n \in 1 .. optind' /\ IsLast(n, opt)' = IsLast(n, opt)
<1>0. optind \in Nat /\ Len(argv) \in Nat
  BY DEF TypeOK
<1>1. \A n : n \in 1 .. optind' <=> n \in 1 .. optind \/ n = optind + 1
  BY <1>0
<1>2. CASE argv[optind + 1].opt = opt
  <2>1. Read(opt)' = Read(opt) \cup {optind + 1}
    BY <1>1, <1>2 DEF Read
  <2>2. \A i \in Read(opt)' : i <= optind + 1
    BY <1>0, <2>1 DEF Read
  <2>3. \A n : n = optind + 1 => IsLast(n, opt)'
    BY <2>1, <2>2 DEF IsLast
  <2>4. QED BY <1>1, <1>2, <2>3
<1>3. CASE argv[optind + 1].opt # opt
  <2>1. Read(opt)' = Read(opt)
    BY <1>1, <1>3 DEF Read
  <2>2. QED BY <1>1, <1>3, <2>1 DEF IsLast
<1>4. QED BY <1>2, <1>3

\* The last one read is the last one of the line at its end.
LEMMA LastOfLine ==
  ASSUME TypeOK, optind = Len(argv), NEW opt
  PROVE  /\ Read(opt) = Given(opt)
         /\ \A n \in 1 .. optind : IsLast(n, opt) => LastVal(opt) = argv[n].val
<1>0. Read(opt) = Given(opt)
  BY DEF Read, Given
<1>1. ASSUME NEW n \in 1 .. optind, IsLast(n, opt) PROVE LastVal(opt) = argv[n].val
  <2> DEFINE isLast(k) == k \in Given(opt) /\ \A i \in Given(opt) : i <= k
  <2>1. isLast(n)
    BY <1>0, <1>1 DEF IsLast
  <2>2. ASSUME NEW k, isLast(k) PROVE k = n
    BY <2>1, <2>2 DEF Given
  <2>3. (CHOOSE k \in Given(opt) : \A i \in Given(opt) : i <= k) = n
    BY <2>1, <2>2
  <2>4. QED BY <2>3 DEF LastVal
<1>2. QED BY <1>0, <1>1

\* An option that is none of the four is of no consequence to SoFar.
LEMMA OthersRead ==
  ASSUME OrderInv, TypeOK', optind < Len(argv), Consume(1), pc = "parse",
         argv[optind + 1].opt \notin {"E", "ipv6", "hash-entry-num", "config"},
         UNCHANGED <<em, ipv6, hash, params>>
  PROVE  OrderInv'
<1>1. argv' = argv /\ pc' = pc /\ optind' = optind + 1
  BY DEF Consume
<1>2. \A opt \in {"E", "ipv6", "hash-entry-num", "config"} :
        /\ Read(opt)' = Read(opt)
        /\ \A n \in 1 .. optind : n \in 1 .. optind' /\ IsLast(n, opt)' = IsLast(n, opt)
  BY <1>1, ReadNext DEF OrderInv
<1>3. SoFar => SoFar'
  BY <1>1, <1>2 DEF SoFar
<1>4. Given("enable-jumbo")' = Given("enable-jumbo")
  BY <1>1 DEF Given
<1>5. OrderFree'
  BY <1>1 DEF OrderFree
<1>6. QED BY <1>1, <1>3, <1>4, <1>5 DEF OrderInv

LEMMA OrderInit == Init => OrderInv
<1> SUFFICES ASSUME Init PROVE OrderInv
  OBVIOUS
<1>1. \A opt : Read(opt) = {}
  BY DEF Init, Read
<1>2. QED BY <1>1, ATypeInit DEF OrderInv, SoFar, OrderFree, Init

\* The options that SoFar is about.
LEMMA TheseRead ==
  ASSUME OrderInv, TypeOK', pc = "parse", pc' = "parse", Consume(1), optind < Len(argv),
         Mode \/ Flag \/ Config \/ HashEntries
  PROVE  OrderInv'
<1>0. argv' = argv /\ pc' = pc /\ optind' = optind + 1 /\ TypeOK
  BY DEF Consume, OrderInv
<1>1. Given("enable-jumbo")' = Given("enable-jumbo") /\ OrderFree'
  BY <1>0 DEF Given, OrderFree
<1> DEFINE o == argv[optind + 1].opt
<1>2. \A opt \in {"E", "ipv6", "hash-entry-num", "config"} :
        /\ o = opt => /\ \E n \in 1 .. optind' : n = optind + 1 /\ IsLast(n, opt)'
                      /\ Read(opt)' # {}
        /\ o # opt =>
             /\ Read(opt)' = Read(opt)
             /\ \A n \in 1 .. optind : n \in 1 .. optind' /\ IsLast(n, opt)' = IsLast(n, opt)
  BY <1>0, ReadNext DEF IsLast
<1>3. CASE o \notin {"E", "ipv6", "hash-entry-num", "config"}
  <2>1. UNCHANGED <<em, ipv6, hash, params>>
    BY <1>3 DEF Mode, Flag, Config, HashEntries, Reads, flags
  <2>2. QED BY <1>3, <2>1, OthersRead
<1>4. ASSUME SoFar, o = "E" PROVE SoFar'
  <2>1. em' = TRUE /\ UNCHANGED <<ipv6, hash, params>>
    BY <1>4 DEF Mode, Flag, Config, HashEntries, Reads, flags
  <2>2. QED BY <1>0, <1>2, <1>4, <2>1 DEF SoFar
<1>5. ASSUME SoFar, o = "ipv6" PROVE SoFar'
  <2>1. ipv6' = TRUE /\ UNCHANGED <<em, hash, params>>
    BY <1>5 DEF Mode, Flag, Config, HashEntries, Reads, flags
  <2>2. QED BY <1>0, <1>2, <1>5, <2>1 DEF SoFar
<1>6. ASSUME SoFar, o = "hash-entry-num" PROVE SoFar'
  <2>1. hash' = ParseNumber(argv[optind + 1].val) /\ UNCHANGED <<em, ipv6, params>>
    BY <1>6 DEF Mode, Flag, Config, HashEntries, Reads, flags, Val
  <2>2. QED BY <1>0, <1>2, <1>6, <2>1 DEF SoFar
<1>7. ASSUME SoFar, o = "config" PROVE SoFar'
  <2>1. params' = argv[optind + 1].val /\ UNCHANGED <<em, ipv6, hash>>
    BY <1>7 DEF Mode, Flag, Config, HashEntries, Reads, flags, Val
  <2>2. QED BY <1>0, <1>2, <1>7, <2>1 DEF SoFar
<1>8. QED
  BY <1>0, <1>1, <1>3, <1>4, <1>5, <1>6, <1>7 DEF OrderInv

\* What Settle makes of it.
LEMMA Settled == OrderInv /\ Settle /\ TypeOK' => OrderInv'
<1> SUFFICES ASSUME OrderInv, Settle, TypeOK' PROVE OrderInv'
  OBVIOUS
<1>0. TypeOK /\ optind = Len(argv) /\ argv' = argv /\ pc = "parse" /\ pc' # "parse"
  BY DEF OrderInv, Settle
<1>1. SUFFICES ASSUME pc' = "ok", Given("enable-jumbo") = {} PROVE OrderFree'
  BY <1>0 DEF OrderInv, OrderFree, Given
<1>2. SoFar
  BY <1>0, <1>1 DEF OrderInv
<1>3. \A opt : Given(opt)' = Given(opt) /\ LastVal(opt)' = LastVal(opt)
  BY <1>0 DEF Given, LastVal
<1>4. /\ em' = em /\ params' = params
      /\ lpm' <=> ~em
      /\ em => ipv6' = ipv6 /\ hash' = hash
      /\ ~em => ipv6' = FALSE /\ hash' = HashDefault
  BY <1>1 DEF Settle
<1>5. em <=> Given("E") # {}
  BY <1>0, <1>2, LastOfLine DEF SoFar
<1>6. ipv6' <=> em /\ Given("ipv6") # {}
  BY <1>0, <1>2, <1>4, LastOfLine DEF SoFar
<1>7. hash' = IF em /\ Given("hash-entry-num") # {}
              THEN ParseNumber(LastVal("hash-entry-num")) ELSE HashDefault
  <2>1. \/ Given("hash-entry-num") = {} /\ hash = HashDefault
        \/ /\ Given("hash-entry-num") # {}
           /\ hash = ParseNumber(LastVal("hash-entry-num"))
    BY <1>0, <1>2, LastOfLine DEF SoFar, IsLast
  <2>2. QED BY <1>4, <2>1
<1>8. params' = IF Given("config") # {} THEN LastVal("config") ELSE DefaultParams
  BY <1>0, <1>2, <1>4, LastOfLine DEF SoFar, IsLast
<1>9. QED
  BY <1>3, <1>4, <1>5, <1>6, <1>7, <1>8 DEF OrderFree

LEMMA OrderNext == OrderInv /\ [Next]_vars => OrderInv'
<1> SUFFICES ASSUME OrderInv, [Next]_vars PROVE OrderInv'
  OBVIOUS
<1>0. TypeOK /\ TypeOK'
  BY ATypeNext DEF OrderInv
<1>1. CASE Mode \/ Flag \/ Config \/ HashEntries
  <2>1. pc = "parse" /\ optind < Len(argv) /\ Consume(1)
    BY <1>1 DEF Mode, Flag, Config, HashEntries, Reads
  <2>2. pc' = "parse"
    BY <2>1 DEF Consume
  <2>3. QED BY <1>0, <1>1, <2>1, <2>2, TheseRead
<1>2. CASE Portmask \/ EthDest
  <2>1. pc = "parse" /\ optind < Len(argv) /\ argv[optind + 1].opt \in {"p", "eth-dest"}
    BY <1>2 DEF Portmask, EthDest, Reads
  <2>2. UNCHANGED <<em, ipv6, hash, params>> /\ (Consume(1) \/ pc' = "exit")
    BY <1>2 DEF Portmask, EthDest, flags
  <2>3. CASE Consume(1)
    BY <1>0, <2>1, <2>2, <2>3, OthersRead
  <2>4. CASE pc' = "exit"
    BY <1>0, <2>4 DEF OrderInv, OrderFree
  <2>5. QED BY <2>2, <2>3, <2>4
<1>3. CASE Jumbo
  <2>1. pc = "parse" /\ argv[optind + 1].opt = "enable-jumbo" /\ optind + 1 \in 1 .. Len(argv)
    BY <1>0, <1>3 DEF Jumbo, Reads, TypeOK
  <2>2. argv' = argv /\ Given("enable-jumbo") # {}
    BY <1>3, <2>1 DEF Jumbo, Consume, Given
  <2>3. Given("enable-jumbo")' # {}
    BY <2>2 DEF Given
  <2>4. QED BY <1>0, <2>3 DEF OrderInv, OrderFree
<1>4. CASE Invalid
  BY <1>0, <1>4 DEF Invalid, Refuse, OrderInv, OrderFree
<1>5. CASE Settle
  BY <1>0, <1>5, Settled
<1>6. CASE Finished \/ UNCHANGED vars
  <2>1. UNCHANGED vars
    BY <1>6 DEF Finished
  <2>2. UNCHANGED <<argv, optind, pc, em, lpm, ipv6, hash, params>>
    BY <2>1 DEF vars, settings, flags
  <2>3. \A opt : Given(opt)' = Given(opt) /\ LastVal(opt)' = LastVal(opt) /\ Read(opt)' = Read(opt)
    BY <2>2 DEF Given, LastVal, Read
  <2>4. \A opt : \A n \in 1 .. optind : IsLast(n, opt)' = IsLast(n, opt)
    BY <2>3 DEF IsLast
  <2>5. OrderFree' /\ (SoFar => SoFar')
    BY <2>2, <2>3, <2>4 DEF OrderInv, OrderFree, SoFar
  <2>6. QED BY <1>0, <2>2, <2>3, <2>5 DEF OrderInv
<1>7. QED
  BY <1>1, <1>2, <1>3, <1>4, <1>5, <1>6 DEF Next

(***************************************************************************)
(* For command lines of any length, an accepted one without jumbo frames    *)
(* says the same whatever the order of its options, but for repetitions of  *)
(* one option, of which the last counts.                                    *)
(***************************************************************************)
THEOREM OrderIrrelevant == Spec => []OrderFree
<1>1. OrderInv => OrderFree
  BY DEF OrderInv
<1>2. QED
  BY <1>1, OrderInit, OrderNext, PTL DEF Spec
=============================================================================
