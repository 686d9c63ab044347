------------------------------ MODULE TextHelpers ------------------------------
(***************************************************************************)
(* The engine's small readings of text: transaction ids, and the host and  *)
(* port of a node.  Pure operators; Facade gives them texts.               *)
(*                                                                         *)
(* A character is a digit, a letter, or one of the marks below.  TxidChars *)
(* is 64 in the code.                                                      *)
(***************************************************************************)
EXTENDS Integers, Sequences, SequencesExt

CONSTANTS
  HexDigits,   \* characters isxdigit takes
  TxidChars,   \* the length of a transaction id
  Comma, Colon, Slash, Opening, Closing   \* "," ":" "/" "[" "]"

ASSUME TextAssumption == TxidChars \in Nat /\ Comma \notin HexDigits

(* string::find and string::rfind: the first or last place of a character, *)
(* 0 for npos.                                                             *)
FindFrom(s, c, start) ==
  LET at == {i \in start .. Len(s) : s[i] = c}
  IN  IF at = {} THEN 0 ELSE CHOOSE i \in at : \A j \in at : i <= j

FindLast(s, c) ==
  LET at == {i \in DOMAIN s : s[i] = c}
  IN  IF at = {} THEN 0 ELSE CHOOSE i \in at : \A j \in at : i >= j

-----------------------------------------------------------------------------
(* Transaction ids.                                                        *)

(* A slip: the loop ends before the empty part after a last comma.         *)
LooksWithin(start, joined) == start <= Len(joined)

(* The loop goes on while start <= size(), so that it sees an empty last   *)
(* part.                                                                   *)
LooksOn(start, joined) == start <= Len(joined) + 1

IsTxid(one) == Len(one) = TxidChars /\ \A i \in DOMAIN one : one[i] \in HexDigits

(* A part runs to the next comma, or to the end.                           *)
Part(joined, start) ==
  LET comma == FindFrom(joined, Comma, start)
  IN  SubSeq(joined, start, IF comma = 0 THEN Len(joined) ELSE comma - 1)

(* The first part starts the text, every other one follows a comma.        *)
Starts(joined) == {1} \cup {i + 1 : i \in {j \in DOMAIN joined : joined[j] = Comma}}

LooksLikeTxid(joined) ==
  /\ joined # <<>>
  /\ \A start \in Starts(joined) : LooksOn(start, joined) => IsTxid(Part(joined, start))

(* What the comment of looksLikeTxid describes: ids of TxidChars hex       *)
(* characters, joined by commas.                                           *)
JoinedTxids(text) ==
  /\ Len(text) > 0 /\ (Len(text) + 1) % (TxidChars + 1) = 0
  /\ \A i \in DOMAIN text :
       IF i % (TxidChars + 1) = 0 THEN text[i] = Comma ELSE text[i] \in HexDigits

-----------------------------------------------------------------------------
(* The host and port of a node.                                            *)

AfterScheme(url) ==
  LET schemes == {i \in 1 .. Len(url) - 2 : SubSeq(url, i, i + 2) = <<Colon, Slash, Slash>>}
  IN  IF schemes = {} THEN url
      ELSE SubSeq(url, (CHOOSE i \in schemes : \A j \in schemes : i <= j) + 3, Len(url))

WithoutSlashes(s) ==
  LET kept == {i \in DOMAIN s : s[i] # Slash}
  IN  SubSeq(s, 1, IF kept = {} THEN 0 ELSE CHOOSE i \in kept : \A j \in kept : i >= j)

(* hostPort and proxyHostPort: without the scheme and slashes at the end.  *)
HostPort(url) == WithoutSlashes(AfterScheme(url))

(* A slip: the first colon ends the host, also within an IPv6 address.     *)
FirstColon(hostport) == FindFrom(hostport, Colon, 1)

PortColon(hostport) == FindLast(hostport, Colon)

NoPeer == [host |-> <<>>, port |-> <<>>]

(* Whom socketsTo looks for, to count or to shut the connections.          *)
SocketsTo(hostport) ==
  LET colon == PortColon(hostport)
      host  == SubSeq(hostport, 1, colon - 1)
      n     == Len(host)
  IN  IF colon = 0 THEN NoPeer
      ELSE [host |-> IF n > 1 /\ host[1] = Opening /\ host[n] = Closing
                     THEN SubSeq(host, 2, n - 1) ELSE host,
            port |-> SubSeq(hostport, colon + 1, Len(hostport))]
=============================================================================
