------------------------------ MODULE FacadeProofs ------------------------------
(***************************************************************************)
(* What the facade's readings of text promise, for texts of any length,    *)
(* hosts and networks of any number, and ids of any length.                *)
(***************************************************************************)
EXTENDS Facade, WalletFilesProofs, AddressProofs

(* Texts and files share no state: what the facade does to the directory,  *)
(* the directory does.  So every theorem of WalletFilesProofs is one of    *)
(* the facade, whose runs check them.                                      *)
THEOREM FacadeKeepsFiles == FacadeSpec => Spec
<1>1. FacadeInit => Init
  BY DEF FacadeInit
<1>2. [FacadeNext]_<<vars, text>> => [Next]_vars
  BY DEF FacadeNext, Type
<1> QED
  BY <1>1, <1>2, PTL DEF FacadeSpec, Spec

-----------------------------------------------------------------------------
(* Networks.                                                               *)

(* Networks of one type are judged by the same prefixes, of different      *)
(* types by prefixes that differ.                                          *)
LEMMA PrefixesByNettype ==
  ASSUME NEW n1 \in Networks, NEW n2 \in Networks
  PROVE  /\ KnownNetwork(n1)
         /\ NettypeOf(n1) = NettypeOf(n2) => PrefixesOf(n1) = PrefixesOf(n2)
         /\ NettypeOf(n1) # NettypeOf(n2) =>
              \A j, k \in 1 .. 3 : PrefixesOf(n1)[j] # PrefixesOf(n2)[k]
<1> DEFINE Chain(n) == IF n = "regtest" THEN "mainnet" ELSE n
<1>1. Networks \subseteq {"mainnet", "stagenet", "testnet", "regtest"}
  BY FilesAssumption DEF FilesAssumption
<1>2. \A n \in Networks : PrefixesOf(n) = AddressPrefixes[Chain(n)] /\ Chain(n) \in DOMAIN AddressPrefixes
  BY PrefixAssumption DEF PrefixAssumption, PrefixesOf
<1>3. NettypeOf(n1) = NettypeOf(n2) <=> Chain(n1) = Chain(n2)
  BY <1>1 DEF NettypeOf
<1>4. KnownNetwork(n1)
  BY PrefixAssumption DEF PrefixAssumption, KnownNetwork
<1>5. Chain(n1) # Chain(n2) =>
        \A j, k \in 1 .. 3 : AddressPrefixes[Chain(n1)][j] # AddressPrefixes[Chain(n2)][k]
  BY <1>2, PrefixAssumption DEF PrefixAssumption
<1> QED
  BY <1>2, <1>3, <1>4, <1>5

(* An address that passes for two networks has one of both their prefixes. *)
LEMMA ValidByPrefix ==
  ASSUME NEW n1 \in Networks, NEW n2 \in Networks, NEW t, Valid(t, n1)
  PROVE  Valid(t, n2) <=> NettypeOf(n1) = NettypeOf(n2)
<1>1. CASE NettypeOf(n1) = NettypeOf(n2)
  <2>1. PrefixesOf(n1) = PrefixesOf(n2) /\ KnownNetwork(n2)
    BY <1>1, PrefixesByNettype
  <2> QED
    BY <1>1, <2>1 DEF Valid, BodyFits
<1>2. CASE NettypeOf(n1) # NettypeOf(n2)
  <2>1. \A j, k \in 1 .. 3 : PrefixesOf(n1)[j] # PrefixesOf(n2)[k]
    BY <1>2, PrefixesByNettype
  <2>2. \A n \in Networks : Valid(t, n) =>
          \E k \in 1 .. 3 : ReadVarint(Base58Decode(t)).value = PrefixesOf(n)[k]
    <3>1. 1 \in 1 .. 3 /\ 2 \in 1 .. 3 /\ 3 \in 1 .. 3
      OBVIOUS
    <3> QED
      BY <3>1 DEF Valid, BodyFits
  <2> QED
    BY <1>2, <2>1, <2>2
<1> QED
  BY <1>1, <1>2

(* Whatever is typed, the address check takes a text for two networks just *)
(* if wallet2 has one type for both.                                       *)
THEOREM DestinationsAgree == FacadeSpec => []DestinationsByNettype
<1>1. DestinationsByNettype
  BY ValidByPrefix DEF DestinationsByNettype
<1> QED
  BY <1>1, PTL

-----------------------------------------------------------------------------
(* URLs.                                                                   *)

(* The host as a URL writes it.                                            *)
HostText(host) ==
  IF host.v6 THEN <<Opening>> \o host.name \o <<Closing>> ELSE host.name

(* The address in a URL, and what socketsTo reads in it.                   *)
LEMMA AddressOfUrl ==
  ASSUME NEW S, NEW host \in Hosts, host.name \in Seq(S), Port \in Seq(S),
         {Colon, Slash, Opening, Closing} \subseteq S
  PROVE  LET hp == (HostText(host) \o <<Colon>>) \o Port
         IN  /\ HostText(host) \in Seq(S) /\ hp \in Seq(S) /\ IsAddress(hp)
             /\ SocketsTo(hp) = [host |-> host.name, port |-> Port]
<1> DEFINE name == host.name
           h    == HostText(host)
           mark == <<Colon>>
           pre  == h \o mark
           hp   == pre \o Port
<1>1. /\ \A i \in DOMAIN Port : Port[i] # Colon /\ Port[i] # Slash
      /\ Port # <<>> /\ Slash \notin {Colon, Opening, Closing}
      /\ \A i \in DOMAIN name : name[i] # Slash
      /\ ~host.v6 => \A i \in DOMAIN name : name[i] # Opening
  BY UrlAssumption DEF UrlAssumption, Range
<1>2. host.v6 => h = (<<Opening>> \o name) \o <<Closing>>
  BY DEF HostText
<1>3. ~host.v6 => h = name
  BY DEF HostText
<1>4. h \in Seq(S)
  BY <1>2, <1>3, BracketsGo
<1>5. \A i \in DOMAIN h : h[i] # Slash
  <2>1. CASE host.v6
    <3> DEFINE o == <<Opening>>
               c == <<Closing>>
               front == o \o name
    <3>1. o \in Seq(S) /\ c \in Seq(S)
      OBVIOUS
    <3>2. /\ \A i \in DOMAIN o : o[i] # Slash
          /\ \A i \in DOMAIN name : name[i] # Slash
          /\ \A i \in DOMAIN c : c[i] # Slash
      BY <1>1
    <3> HIDE DEF o, c
    <3>3. front \in Seq(S)
      BY <3>1, Joined
    <3>4. \A i \in DOMAIN front : front[i] # Slash
      BY <3>1, <3>2, WithoutBoth
    <3> HIDE DEF front
    <3>5. \A i \in DOMAIN (front \o c) : (front \o c)[i] # Slash
      BY <3>1, <3>2, <3>3, <3>4, WithoutBoth
    <3> QED
      BY <1>2, <2>1, <3>5 DEF front, o, c
  <2>2. CASE ~host.v6
    BY <1>1, <1>3, <2>2
  <2> QED
    BY <2>1, <2>2
<1> HIDE DEF h
<1>6. mark \in Seq(S)
  OBVIOUS
<1>7. Len(mark) = 1 /\ \A i \in DOMAIN mark : mark[i] # Slash
  BY <1>1
<1> HIDE DEF mark
<1>8. pre \in Seq(S)
  BY <1>4, <1>6, Joined
<1>9. \A i \in DOMAIN pre : pre[i] # Slash
  BY <1>4, <1>5, <1>6, <1>7, WithoutBoth
<1> HIDE DEF pre
<1>10. hp \in Seq(S)
  BY <1>8, Joined
<1>11. \A i \in DOMAIN hp : hp[i] # Slash
  BY <1>1, <1>8, <1>9, WithoutBoth
<1>12. hp # <<>> /\ hp[Len(hp)] # Colon
  <2>1. Len(pre) \in Nat /\ Len(hp) = Len(pre) + Len(Port)
    BY <1>8, Joined
  <2>2. \A i \in 1 .. Len(Port) : hp[Len(pre) + i] = Port[i]
    BY <1>8, Joined
  <2>3. Len(Port) \in Nat \ {0} /\ DOMAIN Port = 1 .. Len(Port)
    BY <1>1, LenProperties, EmptySeq
  <2> HIDE DEF hp
  <2>4. hp[Len(hp)] # Colon
    BY <1>1, <2>1, <2>2, <2>3
  <2>5. Len(hp) # 0
    BY <2>1, <2>3
  <2> QED
    BY <2>4, <2>5
<1>13. IsAddress(hp)
  BY <1>11, <1>12 DEF IsAddress
<1>14. SocketsTo(hp) = [host |-> IF Len(h) > 1 /\ h[1] = Opening /\ h[Len(h)] = Closing
                                 THEN SubSeq(h, 2, Len(h) - 1) ELSE h,
                        port |-> Port]
  BY <1>1, <1>4, SocketsToIs DEF pre, mark
<1>15. SocketsTo(hp) = [host |-> name, port |-> Port]
  <2>1. CASE host.v6
    <3> DEFINE b == (<<Opening>> \o name) \o <<Closing>>
    <3>1. /\ Len(b) > 1 /\ b[1] = Opening /\ b[Len(b)] = Closing
          /\ SubSeq(b, 2, Len(b) - 1) = name
      BY BracketsGo
    <3>2. h = b
      BY <1>2, <2>1
    <3> HIDE DEF b
    <3> QED
      BY <1>14, <3>1, <3>2
  <2>2. CASE ~host.v6
    <3>1. ~(Len(h) > 1 /\ h[1] = Opening)
      BY <1>1, <1>3, <2>2, LenProperties
    <3> QED
      BY <1>3, <1>14, <2>2, <3>1
  <2> QED
    BY <2>1, <2>2
<1> QED
  BY <1>4, <1>10, <1>13, <1>15 DEF pre, mark, h

(* The scheme and the slashes at the end are all that stands around it.    *)
LEMMA UrlTextIs ==
  ASSUME NEW S, NEW url \in NodeUrls, url.host.name \in Seq(S), Port \in Seq(S),
         Scheme \in Seq(S), {Colon, Slash, Opening, Closing} \subseteq S
  PROVE  LET hp == (HostText(url.host) \o <<Colon>>) \o Port
         IN  UrlText(url) =
               IF url.scheme THEN (Scheme \o <<Colon, Slash, Slash>>) \o (hp \o Slashes(url.slashes))
               ELSE hp \o Slashes(url.slashes)
<1> DEFINE h    == HostText(url.host)
           mark == <<Colon>>
           pre  == IF url.scheme THEN Scheme \o <<Colon, Slash, Slash>> ELSE <<>>
           rest == Slashes(url.slashes)
           a    == h \o mark
           hp   == a \o Port
           all  == hp \o rest
<1>1. url.host \in Hosts /\ url.slashes \in Nat
  BY DEF NodeUrls
<1>2. h \in Seq(S)
  BY <1>1, AddressOfUrl
<1>3. mark \in Seq(S) /\ <<Colon, Slash, Slash>> \in Seq(S) /\ <<>> \in Seq(S)
  OBVIOUS
<1>4. rest \in Seq(S)
  BY <1>1 DEF Slashes
<1>5. Scheme \o <<Colon, Slash, Slash>> \in Seq(S)
  BY <1>3, Joined
<1>6. pre \in Seq(S)
  BY <1>3, <1>5
<1>7. UrlText(url) = (((pre \o h) \o mark) \o Port) \o rest
  BY DEF UrlText, HostText, Slashes
<1> HIDE DEF h, mark, pre, rest
<1>8. UrlText(url) = pre \o all
  <2>1. Regroups(pre, h, mark) /\ a \in Seq(S)
    BY <1>2, <1>3, <1>6, Joined, Regrouped
  <2>2. (pre \o h) \o mark = pre \o a
    BY <2>1 DEF Regroups
  <2> HIDE DEF a
  <2>3. Regroups(pre, a, Port) /\ hp \in Seq(S)
    BY <1>6, <2>1, Joined, Regrouped
  <2>4. (pre \o a) \o Port = pre \o hp
    BY <2>3 DEF Regroups
  <2> HIDE DEF hp
  <2>5. Regroups(pre, hp, rest)
    BY <1>4, <1>6, <2>3, Regrouped
  <2>6. (pre \o hp) \o rest = pre \o all
    BY <2>5 DEF Regroups
  <2> QED
    BY <1>7, <2>2, <2>4, <2>6, Zenon
<1>9. all \in Seq(S)
  <2>1. a \in Seq(S)
    BY <1>2, <1>3, Joined
  <2> HIDE DEF a
  <2>2. hp \in Seq(S)
    BY <2>1, Joined
  <2> HIDE DEF hp
  <2> QED
    BY <1>4, <2>2, Joined
<1> HIDE DEF all
<1>10. ~url.scheme => UrlText(url) = all
  BY <1>8, <1>9, ConcatEmptySeq DEF pre
<1>11. url.scheme => UrlText(url) = (Scheme \o <<Colon, Slash, Slash>>) \o all
  BY <1>8 DEF pre
<1> QED
  BY <1>10, <1>11 DEF all, h, mark, rest

(* The characters of URLs.                                                 *)
UrlChars ==
  ((Range(Scheme) \cup Range(Port)) \cup UNION {Range(host.name) : host \in Hosts})
    \cup {Colon, Slash, Opening, Closing}

LEMMA UrlsAreTexts ==
  ASSUME NEW url \in NodeUrls
  PROVE  /\ Scheme \in Seq(UrlChars) /\ Port \in Seq(UrlChars)
         /\ url.host.name \in Seq(UrlChars)
         /\ {Colon, Slash, Opening, Closing} \subseteq UrlChars
         /\ UrlText(url) \in Seq(UrlChars)
<1> DEFINE S    == UrlChars
           hp   == (HostText(url.host) \o <<Colon>>) \o Port
           mark == <<Colon, Slash, Slash>>
           rest == hp \o Slashes(url.slashes)
<1>1. url.host \in Hosts /\ url.slashes \in Nat
  BY DEF NodeUrls
<1>2. /\ Scheme \in Seq(Range(Scheme)) /\ Port \in Seq(Range(Port))
      /\ url.host.name \in Seq(Range(url.host.name))
  BY <1>1, UrlAssumption DEF UrlAssumption
<1>3. /\ Range(Scheme) \subseteq S /\ Range(Port) \subseteq S
      /\ Range(url.host.name) \subseteq S /\ {Colon, Slash, Opening, Closing} \subseteq S
  BY <1>1 DEF UrlChars
<1> HIDE DEF S
<1>4. Scheme \in Seq(S)
  BY <1>2, <1>3, SeqMonotonic
<1>5. Port \in Seq(S)
  BY <1>2, <1>3, SeqMonotonic
<1>6. url.host.name \in Seq(S)
  BY <1>2, <1>3, SeqMonotonic
<1>7. hp \in Seq(S)
  BY <1>1, <1>3, <1>5, <1>6, AddressOfUrl
<1>8. UrlText(url) = IF url.scheme THEN (Scheme \o mark) \o rest ELSE rest
  BY <1>3, <1>4, <1>5, <1>6, UrlTextIs
<1>9. mark \in Seq(S)
  BY <1>3
<1> HIDE DEF hp, mark
<1>10. rest \in Seq(S)
  BY <1>1, <1>3, <1>7, SlashesAdded
<1> HIDE DEF rest
<1>11. Scheme \o mark \in Seq(S)
  BY <1>4, <1>9, Joined
<1>12. (Scheme \o mark) \o rest \in Seq(S)
  BY <1>10, <1>11, Joined
<1> QED
  BY <1>3, <1>4, <1>5, <1>6, <1>8, <1>10, <1>12 DEF S

(* Whatever node a URL names, by a name or an IPv6 address, with or without*)
(* a scheme, and with slashes at the end or none, the connections counted  *)
(* and shut are those to its host and port.                                *)
THEOREM SocketsFound == FacadeSpec => []SocketsOfTheNode
<1>1. ASSUME NEW url \in NodeUrls
      PROVE  SocketsTo(HostPort(UrlText(url))) = [host |-> url.host.name, port |-> Port]
  <2> DEFINE S  == UrlChars
             hp == (HostText(url.host) \o <<Colon>>) \o Port
  <2>1. url.host \in Hosts /\ url.slashes \in Nat
    BY DEF NodeUrls
  <2>2. /\ Scheme \in Seq(S) /\ Port \in Seq(S) /\ url.host.name \in Seq(S)
        /\ {Colon, Slash, Opening, Closing} \subseteq S
    BY UrlsAreTexts
  <2>3. (\A i \in DOMAIN Scheme : Scheme[i] # Colon) /\ Colon # Slash
    BY UrlAssumption DEF UrlAssumption, Range
  <2> HIDE DEF S
  <2>4. hp \in Seq(S) /\ IsAddress(hp) /\ SocketsTo(hp) = [host |-> url.host.name, port |-> Port]
    BY <2>1, <2>2, AddressOfUrl
  <2>5. UrlText(url) =
          IF url.scheme THEN (Scheme \o <<Colon, Slash, Slash>>) \o (hp \o Slashes(url.slashes))
          ELSE hp \o Slashes(url.slashes)
    BY <2>2, UrlTextIs
  <2> HIDE DEF hp
  <2>6. HostPort(UrlText(url)) = hp
    BY <2>1, <2>2, <2>3, <2>4, <2>5, HostPortIs
  <2> QED
    BY <2>4, <2>6
<1>2. SocketsOfTheNode
  BY <1>1 DEF SocketsOfTheNode
<1> QED
  BY <1>2, PTL

-----------------------------------------------------------------------------
(* Transaction ids.                                                        *)

(* What is typed, or there from the start, is a text.                      *)
TextOK == text \in Seq(Characters \cup UrlChars)

LEMMA TextTyped == FacadeSpec => []TextOK
<1> DEFINE S == Characters \cup UrlChars
<1>1. FacadeInit => TextOK
  <2>1. <<>> \in Seq(S)
    OBVIOUS
  <2>2. UrlChars \subseteq S
    OBVIOUS
  <2> HIDE DEF S
  <2>3. \A url \in NodeUrls : UrlText(url) \in Seq(S)
    BY <2>2, UrlsAreTexts, SeqMonotonic
  <2> QED
    BY <2>1, <2>3 DEF FacadeInit, TextOK, S
<1>2. TextOK /\ [FacadeNext]_<<vars, text>> => TextOK'
  <2> SUFFICES ASSUME TextOK, [FacadeNext]_<<vars, text>> PROVE TextOK'
    OBVIOUS
  <2>1. ASSUME NEW c \in Characters, text' = Append(text, c) PROVE TextOK'
    <3>1. text \in Seq(S) /\ c \in S
      BY DEF TextOK
    <3> HIDE DEF S
    <3>2. Append(text, c) \in Seq(S)
      BY <3>1, AppendProperties
    <3> QED
      BY <2>1, <3>2 DEF TextOK, S
  <2>2. CASE UNCHANGED text
    BY <2>2 DEF TextOK
  <2> QED
    BY <2>1, <2>2 DEF FacadeNext, Type
<1> QED
  BY <1>1, <1>2, PTL DEF FacadeSpec

(* Of every text, looksLikeTxid takes just the ids joined by commas.       *)
THEOREM TxidsRead == FacadeSpec => []TxidsAsJoined
<1>1. TextOK => TxidsAsJoined
  BY TxidsAre DEF TextOK, TxidsAsJoined
<1> QED
  BY <1>1, TextTyped, PTL

-----------------------------------------------------------------------------
(* Addresses.                                                              *)

(* Whatever is typed, what base58Decode takes is what its bytes are        *)
(* written as, but for a block cut to 64 bits: no two texts of one wallet  *)
(* address pass.                                                           *)
THEOREM DecodesBack == FacadeSpec => []DecodesAsWritten
<1>1. TextOK => DecodesAsWritten
  BY DecodedBack DEF TextOK, DecodesAsWritten
<1> QED
  BY <1>1, TextTyped, PTL

(* addressValid takes every address of the network and, but for a cut      *)
(* block or an overlong prefix, no other text, whatever is typed.          *)
THEOREM AddressesAreValid == FacadeSpec => []ValidIsAddress
<1>1. ASSUME TextOK, NEW network \in Networks
      PROVE  IF text \in AddressBook[network]
             THEN Valid(text, network)
             ELSE Valid(text, network) => Wraps(text) \/ Overlong(text)
  <2>1. KnownNetwork(network)
    BY PrefixesByNettype
  <2>2. AddressBook[network] = Addresses(network)
    BY DEF AddressBook
  <2>3. text \in Addresses(network) => Valid(text, network)
    BY <2>1, AddressKinds, AddressIsValid
  <2>4. Valid(text, network) => Wraps(text) \/ Overlong(text) \/ text \in Addresses(network)
    BY <1>1, ValidIsWritten DEF TextOK
  <2> QED
    BY <2>2, <2>3, <2>4
<1>2. TextOK => ValidIsAddress
  BY <1>1 DEF ValidIsAddress
<1> QED
  BY <1>2, TextTyped, PTL
=============================================================================
