---------------------------- MODULE MCWalletEngine ----------------------------
(***************************************************************************)
(* Values for model checking WalletEngine: the answers a node module gives *)
(* in each mode of "Use Tor for", and the job kinds of each question.      *)
(***************************************************************************)
EXTENDS WalletEngine

CONSTANTS onion, onion2, direct

(* "none", local mode, or a node on this network.                          *)
None == [NoAnswer EXCEPT !.error = FALSE, !.url = direct, !.torUse = TRUE]

(* "all": Tor from the open on, still joining, or joined.                  *)
All        == [None EXCEPT !.url = onion, !.proxy = "socks", !.proxyRequired = TRUE]
AllJoining == [All EXCEPT !.proxy = "joining"]

(* "identifying": the catch-up in the clear, then Tor.                     *)
Identifying        == [All EXCEPT !.catchUp = direct]
IdentifyingJoining == [AllJoining EXCEPT !.catchUp = direct]

(* The health check picked another onion.                                  *)
Repicked == [Identifying EXCEPT !.url = onion2]

(* A node module from before "Use Tor for", its proxy required.            *)
Old      == [All EXCEPT !.torUse = FALSE]
OldBare  == [Old EXCEPT !.proxy = "none"]

AllModes       == {None, All, AllJoining, Identifying, IdentifyingJoining,
                   Repicked, Old, OldBare, NoAnswer}
CatchUpModes   == {Identifying, IdentifyingJoining, NoAnswer}
SteadyCatchUp  == {Identifying}
Onions         == {All, AllJoining, Repicked}

OpenClose  == {"open", "close_wallet"}
Rescanning == {"open", "rescan"}

(* Which calls may fail: none, MONERO_Wallet_init, events as well; and     *)
(* with both either notices and the reply to a broadcast, or any call of   *)
(* wallet2.                                                                *)
NoFaults     == {{}}
InitFaults   == {{"init"}}
EventFaults  == {{"init", "emit"}}
EngineFaults == {{"init"}, {"init", "emit", "notify", "reply"}, {"init", "emit", "engine"}}

=============================================================================
