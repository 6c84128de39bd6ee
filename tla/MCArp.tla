-------------------------------- MODULE MCArp --------------------------------
\* Addresses for model-checking Arp.
EXTENDS Arp

HostA == <<10, 0, 0, 1>>
HostB == <<10, 0, 0, 2>>
HostC == <<10, 0, 0, 3>>
Us    == <<10, 0, 0, 9>>

TwoHosts   == {HostA, HostB}
ThreeHosts == {HostA, HostB, HostC}

\* arp_init links the entries in any order: they are interchangeable.
EntrySymmetry == Permutations(Entries)
==============================================================================
