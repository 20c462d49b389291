------------------------------- MODULE TRoute -------------------------------
(***************************************************************************)
(* The list of interfaces (core/t_netif.c) and the choice of one for a     *)
(* destination (t_ip_route in core/t_ip.c, t_ip_addr_netcmp in             *)
(* include/ipv4/t_ip_addr.h).  The program has one interface, which is the *)
(* default too, so that the choice is the same whatever is compared.  Of   *)
(* an address and its mask only the network they give is kept.             *)
(***************************************************************************)
EXTENDS Sequences, FiniteSets, Naturals

CONSTANTS Netifs,    \* interfaces the program may add, once each
          Networks,  \* networks, of interfaces and of destinations
          NULL

VARIABLES netif_list,     \* the newest in front
          netif_default,
          network         \* of each interface, set by t_netif_set_addr

vars == <<netif_list, netif_default, network>>

Init == netif_list = <<>> /\ netif_default = NULL /\ network \in [Netifs -> Networks]

Listed == {netif_list[i] : i \in 1..Len(netif_list)}

t_netif_add ==
  /\ \E n \in Netifs \ Listed : netif_list' = <<n>> \o netif_list /\ netif_default' = n
  /\ UNCHANGED network

\* The macro compares the masked addresses and negates the result.
t_ip_addr_netcmp(dest, n) == ~(dest = network[n])

\* The first interface of the list for which the macro is true.
t_ip_route(dest) ==
  LET hits == {i \in 1..Len(netif_list) : t_ip_addr_netcmp(dest, netif_list[i])}
  IN IF hits = {} THEN netif_default
     ELSE netif_list[CHOOSE i \in hits : \A j \in hits : i <= j]

Spec == Init /\ [][t_netif_add]_vars

-----------------------------------------------------------------------------
\* t_ip_route: "network mask matches?", and else the default: a destination on
\* the network of some interface is reached through such an interface.
RouteMatches ==
  \A d \in Networks :
    (\E n \in Listed : network[n] = d) => network[t_ip_route(d)] = d
=============================================================================
