---------------------------- MODULE MCIpaPackage ----------------------------
(* Small instances of IpaPackage: apps with and without a manifest, one whose *)
(* sinfs do not fit the manifest, one without sinfs, one without a bundle,    *)
(* one whose watch app comes first and one with two sinfs, all with the same  *)
(* file name.                                                                 *)
EXTENDS IpaPackage

WithManifest == [id |-> 1, sinfs |-> 1, paths |-> 1, plist |-> "main"]
WithInfo     == [id |-> 2, sinfs |-> 1, paths |-> -1, plist |-> "main"]
Mismatch     == [id |-> 3, sinfs |-> 2, paths |-> 1, plist |-> "main"]
NoSinfs      == [id |-> 4, sinfs |-> 0, paths |-> -1, plist |-> "main"]
NoBundle     == [id |-> 5, sinfs |-> 1, paths |-> -1, plist |-> "none"]
WatchFirst   == [id |-> 6, sinfs |-> 1, paths |-> -1, plist |-> "watchFirst"]
TwoSinfs     == [id |-> 7, sinfs |-> 2, paths |-> -1, plist |-> "main"]

AllApps == {WithManifest, WithInfo, Mismatch, NoSinfs, NoBundle, WatchFirst, TwoSinfs}
AllFaults == Steps \cup {"response", "stat", "content", "flush"}
=============================================================================
