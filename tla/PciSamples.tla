---------------------------- MODULE PciSamples ----------------------------
(***************************************************************************)
(* Buses, registrations and capability lists for module Pci.               *)
(***************************************************************************)
EXTENDS Integers

bar(a, k) == [addr |-> a, kind |-> k]
BarLists == {<<bar(1, "mem"), bar(0, "mem"), bar(2, "io")>>, <<bar(1, "mem64"), bar(2, "mem64"), bar(3, "mem")>>,
             <<bar(1, "io"), bar(2, "mem64"), bar(0, "mem")>>, <<bar(1, "mem64"), bar(0, "mem"), bar(3, "mem64")>>,
             <<bar(0, "mem64"), bar(0, "mem"), bar(1, "mem")>>,
             <<bar(0, "mem64"), bar(1, "mem"), bar(2, "mem")>>, <<bar(1, "io4"), bar(2, "mem"), bar(0, "mem")>>}
Device(id, isNormal, bars) == [id |-> id, isNormal |-> isNormal, bars |-> bars]

SampleBuses ==
  {<<Device(<<"v", "p">>, TRUE, b), Device(<<"w", "p">>, n, b)>> : b \in BarLists, n \in BOOLEAN}

SampleCalls ==
  {<<[kind |-> "vendor", of |-> "v"], [kind |-> "products", of |-> <<"p", "q">>]>>,
   <<[kind |-> "ids", of |-> <<<<"v", "q">>, <<"w", "p">>>>], [kind |-> "id", of |-> <<"v", "p">>]>>}

\* Configurations of n bytes with FirstCap = 4 and Ones = 15: headers at 4, 6 and, cut in
\* two, at 8; the first two bytes are the vendor id
Config(at, n, next4, next6) ==
  [at |-> at, bytes |-> [o \in 0..n-1 |-> CASE o = 0 -> 11 [] o = 1 -> 6 [] o = 4 -> 10 [] o = 5 -> next4
                                           [] o = 6 -> 11 [] o = 7 -> next6 [] o = 8 -> 12 [] OTHER -> 0]]
SampleChains ==
  {Config(4, 9, k, 0) : k \in {0, 4, 6, 8, 12, 15}} \cup {Config(4, 9, 6, k) : k \in {4, 8}}
    \cup {Config(0, 9, 0, 0), Config(0, 4, 0, 0), Config(4, 4, 0, 0)}
=============================================================================
