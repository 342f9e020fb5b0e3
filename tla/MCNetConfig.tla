---------------------------- MODULE MCNetConfig ----------------------------
(* Instances of NetConfig: files that end with a stanza, with an empty line,  *)
(* with stanzas of several kinds and orders; and the one the image ships.     *)
EXTENDS NetConfig

CONSTANTS eth0, wlan0, eth1, addr, mask, essid, two

MCFirstWord == [v \in Values |-> IF v = two THEN essid ELSE v]

MCTyped ==
  [o \in Options |->
     CASE o \in {"address", "gateway"} -> {addr, Null}
       [] o = "netmask"               -> {Null}
       [] o = "wireless-essid"        -> {two, Null}
       [] o = "wireless-key"          -> {essid}
       [] o = "wireless-mode"         -> {addr}]

Of(key, arg)      == <<[key |-> key, arg |-> arg, how |-> Null]>>
Iface(n, how)     == <<[key |-> "iface", arg |-> n, how |-> how]>>
Up(n, how)        == Of("auto", n) \o Iface(n, how)
Loopback          == Up("lo", "loopback")
Gap               == <<Blank>>
Static(n)         == Up(n, "static") \o Of("address", addr) \o Of("other", Null)
Radioed(n)        == Up(n, "dhcp") \o Of("wireless-mode", mask) \o Of("wireless-essid", two)

\* The file of the image: generic/etc/network/interfaces.
ShippedFile ==
  Gap \o Of("auto", "lo") \o Gap \o Iface("lo", "loopback") \o Gap
  \o Of("auto", eth0) \o Of("auto", eth1) \o Of("auto", wlan0) \o Gap
  \o Iface(eth0, "dhcp") \o Iface(eth1, "dhcp") \o Iface(wlan0, "dhcp")

Separated ==
  {<<>>,
   Loopback \o Gap \o Static(eth0) \o Gap \o Radioed(wlan0),
   Radioed(wlan0) \o Gap \o Gap \o Loopback \o Gap \o Static(eth0) \o Gap,
   Of("auto", eth0) \o Of("auto", wlan0) \o Gap \o Iface(wlan0, "static") \o Gap
     \o Iface(eth0, "dhcp") \o Gap \o Loopback}
Shipped == {ShippedFile}
============================================================================
