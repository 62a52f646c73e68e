----------------------------- MODULE MCHidProbe -----------------------------
(***************************************************************************)
(* HidProbe for TLC: a boot mouse, a keyboard with a second interface that *)
(* does not fit the buffer, and a stick whose configuration has nothing    *)
(* but a descriptor of its vendor, so that no driver can serve it.         *)
(***************************************************************************)
EXTENDS HidProbe, TLC

CONSTANTS kbd, mouse, stick

D(type, n, class) == [type |-> type, bLength |-> n, class |-> class]

MCConfig ==
  (mouse :> [length |-> 34, at |->
     0 :> D("config", 9, "other") @@ 9 :> D("interface", 9, "mouse") @@
     18 :> D("other", 9, "other") @@ 27 :> D("endpoint", 7, "other")]) @@
  (kbd :> [length |-> 59, at |->
     0 :> D("config", 9, "other") @@ 9 :> D("interface", 9, "kbd") @@
     18 :> D("other", 9, "other") @@ 27 :> D("endpoint", 7, "other") @@
     34 :> D("interface", 9, "other") @@ 43 :> D("other", 9, "other") @@
     52 :> D("endpoint", 7, "other")]) @@
  (stick :> [length |-> 25, at |->
     0 :> D("config", 9, "other") @@ 9 :> D("other", 16, "other")])

MCMaxPktSize == mouse :> 8 @@ kbd :> 32 @@ stick :> 64
=============================================================================
