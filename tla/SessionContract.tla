---------------------------- MODULE SessionContract ----------------------------
(***************************************************************************)
(* What a wallet session promises its user, whatever the engine does in    *)
(* between: which wallet is open, on which route, and over what its sends  *)
(* went.                                                                   *)
(*                                                                         *)
(* The route is chosen when the wallet is opened.  A direct wallet stays   *)
(* direct.  A wallet on any other route goes between waiting for Tor and   *)
(* Tor and never back into the clear; it sends only on Tor, and only       *)
(* through the SOCKS port.                                                 *)
(***************************************************************************)
CONSTANTS
  Wallets,   \* the wallets a session may open
  NoWallet   \* no wallet is open

VARIABLES wallet, route, sent

vars == <<wallet, route, sent>>

TorRoutes == {"catch_up", "waiting_for_tor", "tor"}

Closed == wallet = NoWallet /\ route = "none" /\ sent = {}

Init == Closed

Open ==
  /\ wallet = NoWallet
  /\ wallet' \in Wallets \ {NoWallet}
  /\ route' \in TorRoutes \cup {"direct"}
  /\ sent' = {}

Move ==
  /\ route \in TorRoutes
  /\ route' \in {"waiting_for_tor", "tor"}
  /\ UNCHANGED <<wallet, sent>>

(* A send of the open wallet asks for decoys and is broadcast.             *)
Send ==
  /\ \/ route = "direct" /\ sent' = sent \cup {"clear"}
     \/ route = "tor" /\ sent' = sent \cup {"socks"}
  /\ UNCHANGED <<wallet, route>>

(* A close, an unload or a crash.                                          *)
Close == wallet # NoWallet /\ Closed'

Next == Open \/ Move \/ Send \/ Close

Spec == Init /\ [][Next]_vars

=============================================================================
