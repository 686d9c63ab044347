------------------------------ MODULE NodePolicy ------------------------------
(***************************************************************************)
(* What the wallet engine makes of the node module's answer.               *)
(*                                                                         *)
(* The node module owns the daemon endpoint and the proxy policy.  The     *)
(* engine asks it for the effective node of a network and reads a handful  *)
(* of fields of the JSON it gets back.  A missing field and a null one     *)
(* both read as empty, so every combination below can reach the code.      *)
(*                                                                         *)
(* URLs are opaque.  A proxy is empty, the literal "tor" (the built-in Tor *)
(* is still joining) or a SOCKS address.                                   *)
(***************************************************************************)

CONSTANTS
  Urls,    \* the daemon endpoints the node module may name
  NoUrl    \* an empty or absent URL

ASSUME NoUrlAssumption == NoUrl \notin Urls

Proxies == {"none", "joining", "socks"}

(* How a connection leaves this device: directly, through the SOCKS port,  *)
(* through the proxy that never connects ("nowhere"); "none" dials nothing.*)
Vias == {"clear", "socks", "nowhere", "none"}

Routes == {"direct", "catch_up", "waiting_for_tor", "tor"}

Answer ==
  [error : BOOLEAN, url : Urls \cup {NoUrl}, proxy : Proxies,
   proxyRequired : BOOLEAN, torUse : BOOLEAN, catchUp : Urls \cup {NoUrl}]

(* The answer of a node module that cannot be reached or has no node: the  *)
(* error and nothing else.  Also the value of a variable that holds none.  *)
NoAnswer ==
  [error |-> TRUE, url |-> NoUrl, proxy |-> "none",
   proxyRequired |-> FALSE, torUse |-> FALSE, catchUp |-> NoUrl]

Dial == [url : Urls \cup {NoUrl}, via : Vias]

NoDial == [url |-> NoUrl, via |-> "none"]

-----------------------------------------------------------------------------

(* The policy check an open makes before anything else is touched.         *)
Refuses(a) ==
  \/ a.error
  \/ a.url = NoUrl
  \/ a.proxyRequired /\ a.proxy = "none"

(* The route an open takes.  A catch-up node wins over the proxy.          *)
RouteFor(a) ==
  CASE a.catchUp # NoUrl                          -> "catch_up"
    [] a.catchUp = NoUrl /\ a.proxy = "joining"   -> "waiting_for_tor"
    [] a.catchUp = NoUrl /\ a.proxy = "socks"     -> "tor"
    [] a.catchUp = NoUrl /\ a.proxy = "none"      -> "direct"

ViaOf(route) ==
  CASE route = "tor"             -> "socks"
    [] route = "waiting_for_tor" -> "nowhere"
    [] route \in {"direct", "catch_up"} -> "clear"

(* Where the open points wallet2.                                          *)
DialFor(a) ==
  [url |-> IF RouteFor(a) = "catch_up" THEN a.catchUp ELSE a.url,
   via |-> ViaOf(RouteFor(a))]

(* Tor can be dialled now: an endpoint and a proxy that has joined.        *)
TorReady(a) ==
  /\ ~a.error
  /\ a.url # NoUrl
  /\ a.proxy = "socks"

(* Where the move to Tor points wallet2.                                   *)
TorDial(a) == [url |-> a.url, via |-> "socks"]

=============================================================================
