----------------------------- MODULE MCPathChecks -----------------------------
EXTENDS PathChecks

\* Packets differ in size and in what the tests look at.
MCPackets == {"arp", "ping", "dns", "jumbo"}
MCLength  == [arp |-> 2, ping |-> 3, dns |-> 3, jumbo |-> 6]
MCMeaning == [ip |-> {"ping", "dns", "jumbo"}, udp |-> {"dns", "jumbo"},
              icmp |-> {"ping"}, long |-> {"jumbo"}, arp |-> {"arp"}, always |-> MCPackets]
MCSymbols == [ip |-> {"packet"}, udp |-> {"packet"}, icmp |-> {"packet", "map"},
              long |-> {"packetsize"}, arp |-> {"packet"}, always |-> {}]

Branch(test, T, F) == [test |-> test, T |-> T, F |-> F]

MCPrograms == [
    repeat |-> <<Branch("ip", 2, 0), Branch("ip", 3, 0), Branch("ip", 0, 0)>>,
    either |-> <<Branch("udp", 2, 2), Branch("icmp", 3, 0), Branch("long", 0, 0)>>,
    sizes  |-> <<Branch("always", 2, 0), Branch("long", 3, 3), Branch("icmp", 0, 0)>>]
Threads == Permutations(Workers)

Option(s, f, ps) ==
    [strategy |-> s, features |-> f, programs |-> ps]

MCOptions ==
    {Option("unsat-core", {"impossible-prefixes"}, {"repeat", "either", "sizes"}),
     Option("unsat-core", {"impossible-prefixes", "check-each-branch"}, {"repeat", "either", "sizes"}),
     Option("unsat-core", {"impossible-prefixes", "check-unlikely-edges"}, {"repeat", "either"}),
     Option("unsat-core", {}, {"sizes"}),
     Option("incremental", {}, {"repeat", "sizes"}),
     Option("incremental", {"check-each-branch"}, {"sizes"})}

\* Cores of the incremental strategy with prefixes
NamedByOthers == {Option("incremental", {"impossible-prefixes"}, {"repeat"})}
=============================================================================
