-------------------------- MODULE MCExplorerTrace --------------------------
(* The answers of Resolver are the objects of the six scenarios. *)
EXTENDS ExplorerTrace

MCAddrs == {AddrIn(s) : s \in SCENARIOS}
MCBundles == {BundleIn(s) : s \in SCENARIOS}
MCRevocationLists == {<<>>}
=============================================================================
