--------------------------- MODULE MCIfaceFilter ----------------------------
(***************************************************************************)
(* IfaceFilter on every list of at most four interfaces over seven names.  *)
(***************************************************************************)
EXTENDS IfaceFilter

MCPrefix == {"tun", "wg", "utun", "wlan", "my"}
MCName == {[prefix |-> p, upper |-> FALSE, vpn |-> FALSE] : p \in {"tun", "wg", "utun", "wlan"}}
            \cup {[prefix |-> "tun", upper |-> TRUE, vpn |-> FALSE],
                  [prefix |-> "my", upper |-> FALSE, vpn |-> TRUE], NoName}
MCInputs == UNION {[1 .. k -> MCName] : k \in 0 .. 4}
=============================================================================
