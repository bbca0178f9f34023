------------------------- MODULE MCAlertCorrelation -------------------------
(* Small networks for AlertCorrelation. *)
EXTENDS AlertCorrelation

CONSTANTS a, b, c

Pair == {{a, b}}
\* A chain a - b - c.
Chain == {{a, b}, {b, c}}
OneEnd == {<<a, b>>}
DownFirst == <<"device_down", "interface_down", "collector_offline">>
=============================================================================
