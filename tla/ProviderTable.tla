---------------------------- MODULE ProviderTable ----------------------------
(***************************************************************************)
(* What linking promises about providers: every key (a symbol as seen from *)
(* a module) is unset, reserved (declared, provider not known yet) or      *)
(* bound to a provider.  A key is written at most twice, in this order,    *)
(* and a step writes one key: whoever asks for a bound key gets the same   *)
(* answer for ever.                                                        *)
(***************************************************************************)
CONSTANTS Keys, Providers, Unset, Reserved

VARIABLE table

Init == table = [k \in Keys |-> Unset]

Reserve(k) ==
  /\ table[k] = Unset
  /\ table' = [table EXCEPT ![k] = Reserved]

Bind(k, p) ==
  /\ table[k] \in {Unset, Reserved}
  /\ table' = [table EXCEPT ![k] = p]

Next == \E k \in Keys : Reserve(k) \/ \E p \in Providers : Bind(k, p)

Spec == Init /\ [][Next]_table
=============================================================================
