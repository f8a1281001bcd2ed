------------------------ MODULE MCConnectivityHooks ------------------------
(***************************************************************************)
(* ConnectivityHooks with a VPN over nothing but itself, a WiFi and a      *)
(* cellular network.                                                       *)
(***************************************************************************)
EXTENDS ConnectivityHooks

MCNet == {"tun", "wifi", "cell"}
MCTransports == [n \in MCNet |-> IF n = "wifi" THEN {"WIFI"}
                                 ELSE IF n = "cell" THEN {"CELLULAR"} ELSE {}]

MCFailures == { {}, {"getInterfaceName"}, {"getNetworkCapabilities"},
                {"getNetworkCapabilities", "getInterfaceName"},
                {"getNetworkCapabilities", "getInterfaceName", "hasTransport"} }
=============================================================================
