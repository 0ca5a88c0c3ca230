------------------------------- MODULE MCPci --------------------------------
(* Instance of Pci for TLC: buses of full size, four cards of which one is *)
(* of an unknown model and one no PCnet after all, a table for two.        *)
EXTENDS Pci, TLC

CONSTANTS k1, k2, k3, k4

MCChipOf == [k \in Cards |-> CASE k = k3 -> "old" [] k = k4 -> "none" [] OTHER -> "fast"]
MCCardAt == \h1000 :> k1 @@ \h1020 :> k2 @@ \hC004 :> k3 @@ \hC024 :> k4

Header(multi) == IF multi THEN \hE :> \h80 ELSE \hE :> \h0
Dev(multi)    == 0 :> \h8086 @@ 2 :> \h7000 @@ \hA :> \h601 @@ Header(multi)
Host(multi)   == 0 :> \h8086 @@ 2 :> \h1237 @@ \hA :> \h600 @@ Header(multi)
BridgeTo(bus) == 0 :> \h8086 @@ 2 :> \h244E @@ \hA :> \h604 @@ \h18 :> bus * 256 @@ \hE :> 1
Pcnet(multi, port) ==
  0 :> \h1022 @@ 2 :> \h2000 @@ 4 :> 0 @@ 6 :> \h280 @@ \hA :> \h200
    @@ \h10 :> port + 1 @@ Header(multi)

(* All cards on one bus. *)
Flat == <<0, 0, 0>> :> Host(FALSE) @@ <<0, 1, 0>> :> Pcnet(FALSE, \hC004)
          @@ <<0, 31, 0>> :> Pcnet(TRUE, \h1000) @@ <<0, 31, 7>> :> Pcnet(FALSE, \h1020)

(* A bridge among the functions of a device, another behind it. *)
Deep == <<0, 0, 0>> :> Host(FALSE) @@ <<0, 1, 0>> :> Dev(TRUE)
          @@ <<0, 1, 1>> :> BridgeTo(1) @@ <<0, 1, 7>> :> Pcnet(FALSE, \h1000)
          @@ <<1, 0, 0>> :> BridgeTo(255) @@ <<1, 2, 0>> :> Pcnet(FALSE, \h1020)
          @@ <<1, 3, 0>> :> Pcnet(FALSE, \hC024)
          @@ <<255, 31, 0>> :> Dev(FALSE) @@ <<255, 31, 1>> :> Dev(FALSE)

(* More cards than the device table has entries. *)
Many == <<0, 0, 0>> :> Host(FALSE) @@ <<0, 1, 0>> :> Pcnet(TRUE, \h1000)
          @@ <<0, 1, 1>> :> Pcnet(FALSE, \h1020) @@ <<0, 2, 0>> :> Pcnet(FALSE, \hC004)

(* A host bridge of two functions. *)
Split == <<0, 0, 0>> :> Host(TRUE) @@ <<0, 0, 1>> :> Host(FALSE)

MCMachines == {Flat, Deep, Many, Split}
=============================================================================
