-------------------------------- MODULE Facade --------------------------------
(***************************************************************************)
(* The parts of the module that do not wait for the node: the wallets      *)
(* directory (WalletFiles), and the texts a caller, wallet2 or the node    *)
(* module hands in (AddressCheck, TextHelpers).  They meet in a network:   *)
(* the one a wallet is opened on, and the one an address is judged for.    *)
(*                                                                         *)
(* A text is typed character by character, so that every text up to a      *)
(* length is judged; a node's URL is there from the start.  The texts and  *)
(* the files share no state, so texts are typed while no job has run, and  *)
(* jobs run while no text is there.                                        *)
(***************************************************************************)
EXTENDS WalletFiles, AddressCheck, TextHelpers

CONSTANTS
  Characters,  \* what is typed
  MaxText,     \* bound: the length of a text
  MaxMarked,   \* bound: the length of one that holds a comma
  Scheme,      \* what comes before the "://" of a URL, if it has one
  Hosts,       \* the hosts of nodes: [name, v6]
  Port

ASSUME FacadeAssumption == MaxText \in Nat /\ MaxMarked \in Nat

(* address_check.cpp:97-99: a network is known by prefixes of its own.     *)
ASSUME PrefixAssumption ==
  /\ {"mainnet"} \cup (Networks \ {"regtest"}) \subseteq DOMAIN AddressPrefixes
  /\ \A n1, n2 \in DOMAIN AddressPrefixes : n1 # n2 =>
       \A j, k \in 1 .. 3 : AddressPrefixes[n1][j] # AddressPrefixes[n2][k]

(* What a URL is made of: no colon in a scheme or a port, and none in a    *)
(* host but for an IPv6 one, which comes in brackets.                      *)
ASSUME UrlAssumption ==
  LET IsText(s)  == s \in Seq(Range(s))
      Without(s, marks) == Range(s) \cap marks = {}
  IN  /\ Slash \notin {Colon, Opening, Closing}
      /\ IsText(Scheme) /\ Without(Scheme, {Colon})
      /\ IsText(Port) /\ Port # <<>> /\ Without(Port, {Colon, Slash})
      /\ \A host \in Hosts :
           /\ IsText(host.name) /\ Without(host.name, {Slash})
           /\ ~host.v6 => Without(host.name, {Colon, Opening})

VARIABLE text

(* A node's URL as the node module stores it: an IPv6 host in brackets, a  *)
(* port, perhaps a scheme and slashes at the end.                          *)
NodeUrls == [scheme : BOOLEAN, host : Hosts, slashes : 0 .. 2]

UrlText(url) ==
     (IF url.scheme THEN Scheme \o <<Colon, Slash, Slash>> ELSE <<>>)
  \o (IF url.host.v6 THEN <<Opening>> \o url.host.name \o <<Closing>> ELSE url.host.name)
  \o <<Colon>> \o Port
  \o [i \in 1 .. url.slashes |-> Slash]

FacadeInit == Init /\ text \in {<<>>} \cup {UrlText(url) : url \in NodeUrls}

IsUrl(s) == \E i \in DOMAIN s : s[i] = Colon

Type(c) ==
  /\ jobs = 0 /\ restarts = 0 /\ ~m_stop /\ ~diskFails /\ ~engineRaises
  /\ ~IsUrl(text)
  /\ Len(text) < IF \E i \in DOMAIN text : text[i] = Comma THEN MaxMarked ELSE MaxText
  /\ c = Comma => Len(text) < MaxMarked
  /\ text' = Append(text, c)
  /\ UNCHANGED vars

FacadeNext ==
  \/ \E c \in Characters : Type(c)
  \/ text = <<>> /\ Next /\ UNCHANGED text

FacadeSpec == FacadeInit /\ [][FacadeNext]_<<vars, text>>

-----------------------------------------------------------------------------
(* A text that is decoded is what its bytes are written as: no other text  *)
(* gives the same bytes, short blocks and the last one included, unless a  *)
(* full block is cut to 64 bits (address_check.cpp:59-79).                 *)
DecodesAsWritten ==
  Base58Decode(text) # Refused /\ ~Wraps(text) => Encode(Base58Decode(text)) = text

(* addressValid takes every address of the network, written from prefix,   *)
(* keys and payment id, and no other text, but for a block that is cut and *)
(* a prefix that is longer than it need be (address_check.cpp:94-114).     *)
AddressBook == [network \in Networks |-> Addresses(network)]

ValidIsAddress ==
  \A network \in Networks :
    IF text \in AddressBook[network]
    THEN Valid(text, network)
    ELSE Valid(text, network) => Wraps(text) \/ Overlong(text)

(* An address is judged as the wallet's file is: two networks agree on it  *)
(* if wallet2 has one type for both, and never share one if it has two.    *)
(* With FilesOfOpenWallets, a destination that passes for the recorded     *)
(* network is one of the wallet's own (wallet_runtime.cpp:82-86, 555, 680).*)
DestinationsByNettype ==
  LET valid == {n \in Networks : Valid(text, n)}
  IN  \A n1 \in valid, n2 \in Networks :
        n2 \in valid <=> NettypeOf(n1) = NettypeOf(n2)

(* A text passes for transaction ids just if it is ids joined by commas:   *)
(* no empty, short or trailing part (wallet_runtime.cpp:45-60).            *)
TxidsAsJoined == LooksLikeTxid(text) <=> JoinedTxids(text)

(* The connections counted and shut are those to the node of the URL:      *)
(* scheme, slashes and brackets gone (wallet_runtime.cpp:101-106, 165-171).*)
SocketsOfTheNode ==
  IsUrl(text) =>
    \A url \in {u \in NodeUrls : UrlText(u) = text} :
      SocketsTo(HostPort(text)) = [host |-> url.host.name, port |-> Port]
=============================================================================
