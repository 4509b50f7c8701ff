----------------------------- MODULE MCCommand -----------------------------
(***************************************************************************)
(* Names of one module, of two entries of the table, of a family of         *)
(* modules, of the experimental one and of none; scopes of one and of two   *)
(* parts; interfaces with addresses of each kind, in each order.            *)
(***************************************************************************)
EXTENDS Command

MCNames ==
  {<<"c2">>, <<"ssh">>, <<"ssh", "exfil">>, <<"tunnel", "">>, <<"tor">>, <<"families">>, <<"">>}

MCArguments ==
  {<<n>> : n \in MCNames} \cup {<<n, <<"x">>>> : n \in MCNames} \cup {<<n, <<"x">>, <<"y">>>> : n \in MCNames}

MCInterfaces ==
  [eth0 |-> <<"eth0ext1", "eth0ext2">>, lo |-> <<"lo1">>, wlan0 |-> <<"wlan0link", "wlan0ext">>, down |-> <<>>]
MCSizeFlags == {-1, 0, 3}
=============================================================================
