------------------------------- MODULE TextProofs -------------------------------
(***************************************************************************)
(* What the engine's readings of text find, for texts of any length.       *)
(***************************************************************************)
EXTENDS TextHelpers, SequenceTheorems, WellFoundedInduction, TLAPS

-----------------------------------------------------------------------------
(* Finding a character.                                                    *)

(* string::find gives the first place at or after `start`.                 *)
LEMMA FindFromIs ==
  ASSUME NEW S, NEW s \in Seq(S), NEW c, NEW start \in Nat, NEW k \in start .. Len(s),
         s[k] = c, \A i \in start .. k - 1 : s[i] # c
  PROVE  FindFrom(s, c, start) = k
<1> DEFINE at == {i \in start .. Len(s) : s[i] = c}
<1>1. Len(s) \in Nat /\ k \in at /\ \A j \in at : k <= j
  BY LenProperties
<1>2. \A i \in at : (\A j \in at : i <= j) => i = k
  BY <1>1
<1>3. (CHOOSE i \in at : \A j \in at : i <= j) = k
  BY <1>1, <1>2
<1> QED
  BY <1>1, <1>3 DEF FindFrom

LEMMA FindFromNone ==
  ASSUME NEW S, NEW s \in Seq(S), NEW c, NEW start \in Nat,
         \A i \in start .. Len(s) : s[i] # c
  PROVE  FindFrom(s, c, start) = 0
  BY DEF FindFrom

(* string::rfind gives the last one.                                       *)
LEMMA FindLastIs ==
  ASSUME NEW S, NEW s \in Seq(S), NEW c, NEW k \in 1 .. Len(s),
         s[k] = c, \A i \in k + 1 .. Len(s) : s[i] # c
  PROVE  FindLast(s, c) = k
<1> DEFINE at == {i \in DOMAIN s : s[i] = c}
<1>1. Len(s) \in Nat /\ k \in at /\ \A j \in at : k >= j
  BY LenProperties
<1>2. \A i \in at : (\A j \in at : i >= j) => i = k
  BY <1>1, LenProperties
<1>3. (CHOOSE i \in at : \A j \in at : i >= j) = k
  BY <1>1, <1>2
<1> QED
  BY <1>1, <1>3 DEF FindLast

(* What two texts written one after the other read, and where each one is  *)
(* found again.                                                            *)
LEMMA Joined ==
  ASSUME NEW S, NEW s \in Seq(S), NEW t \in Seq(S)
  PROVE  /\ Len(s) \in Nat /\ Len(t) \in Nat
         /\ s \o t \in Seq(S) /\ Len(s \o t) = Len(s) + Len(t)
         /\ DOMAIN (s \o t) = 1 .. Len(s) + Len(t)
         /\ \A i \in 1 .. Len(s) : (s \o t)[i] = s[i]
         /\ \A i \in 1 .. Len(t) : (s \o t)[Len(s) + i] = t[i]
<1>1. Len(s) \in Nat /\ Len(t) \in Nat
  BY LenProperties
<1>2. /\ s \o t \in Seq(S) /\ Len(s \o t) = Len(s) + Len(t)
      /\ \A i \in 1 .. Len(s) + Len(t) :
           (s \o t)[i] = IF i <= Len(s) THEN s[i] ELSE t[i - Len(s)]
  BY ConcatProperties
<1>3. DOMAIN (s \o t) = 1 .. Len(s) + Len(t)
  BY <1>2, LenProperties
<1>4. \A i \in 1 .. Len(s) : (s \o t)[i] = s[i]
  BY <1>1, <1>2
<1>5. ASSUME NEW i \in 1 .. Len(t) PROVE (s \o t)[Len(s) + i] = t[i]
  <2>1. Len(s) + i \in 1 .. Len(s) + Len(t) /\ ~(Len(s) + i <= Len(s))
    BY <1>1
  <2>2. (s \o t)[Len(s) + i] = t[(Len(s) + i) - Len(s)]
    BY <1>2, <2>1
  <2>3. (Len(s) + i) - Len(s) = i
    BY <1>1
  <2> QED
    BY <2>2, <2>3
<1> QED
  BY <1>1, <1>2, <1>3, <1>4, <1>5

LEMMA WithoutBoth ==
  ASSUME NEW S, NEW s \in Seq(S), NEW t \in Seq(S), NEW c,
         \A i \in DOMAIN s : s[i] # c, \A i \in DOMAIN t : t[i] # c
  PROVE  \A i \in DOMAIN (s \o t) : (s \o t)[i] # c
<1> DEFINE u == s \o t
<1>1. Len(s) \in Nat /\ Len(t) \in Nat /\ DOMAIN u = 1 .. Len(s) + Len(t)
  BY Joined
<1>2. \A i \in 1 .. Len(s) : u[i] = s[i]
  BY Joined
<1>3. \A i \in 1 .. Len(t) : u[Len(s) + i] = t[i]
  BY Joined
<1>4. DOMAIN s = 1 .. Len(s) /\ DOMAIN t = 1 .. Len(t)
  BY LenProperties
<1> HIDE DEF u
<1>5. ASSUME NEW i \in 1 .. Len(s) + Len(t), ~(i <= Len(s)) PROVE u[i] # c
  <2> DEFINE j == i - Len(s)
  <2>1. j \in 1 .. Len(t) /\ Len(s) + j = i
    BY <1>1, <1>5
  <2> HIDE DEF j
  <2> QED
    BY <1>3, <1>4, <2>1
<1>6. \A i \in 1 .. Len(s) + Len(t) : i <= Len(s) => u[i] # c
  BY <1>1, <1>2, <1>4
<1> QED
  BY <1>1, <1>5, <1>6 DEF u

(* Texts may be joined in any order.  A prover matches a name more easily  *)
(* than the equation it stands for.                                        *)
Regroups(s, t, u) == (s \o t) \o u = s \o (t \o u)

LEMMA Regrouped ==
  ASSUME NEW S, NEW s \in Seq(S), NEW t \in Seq(S), NEW u \in Seq(S)
  PROVE  Regroups(s, t, u)
  BY ConcatAssociative DEF Regroups

LEMMA FirstPart ==
  ASSUME NEW S, NEW s \in Seq(S), NEW t \in Seq(S)
  PROVE  SubSeq(s \o t, 1, Len(s)) = s
<1> DEFINE u == s \o t
<1>1. /\ Len(s) \in Nat /\ Len(t) \in Nat /\ u \in Seq(S) /\ Len(u) = Len(s) + Len(t)
      /\ \A i \in 1 .. Len(s) : u[i] = s[i]
  BY Joined
<1> HIDE DEF u
<1>2. \A i \in 1 .. Len(s) : u[i] \in S
  BY <1>1, ElementOfSeq
<1>3. /\ SubSeq(u, 1, Len(s)) \in Seq(S) /\ Len(SubSeq(u, 1, Len(s))) = Len(s)
      /\ \A i \in 1 .. Len(s) : SubSeq(u, 1, Len(s))[i] = u[i]
  BY <1>1, <1>2, SubSeqProperties
<1>4. SubSeq(u, 1, Len(s)) = s
  BY <1>1, <1>3, SeqEqual
<1> QED
  BY <1>4 DEF u

LEMMA LastPart ==
  ASSUME NEW S, NEW s \in Seq(S), NEW t \in Seq(S)
  PROVE  SubSeq(s \o t, Len(s) + 1, Len(s \o t)) = t
<1> DEFINE u == s \o t
           m == Len(s) + 1
           n == Len(u)
<1>1. /\ Len(s) \in Nat /\ Len(t) \in Nat /\ u \in Seq(S) /\ n = Len(s) + Len(t)
      /\ \A i \in 1 .. Len(t) : u[Len(s) + i] = t[i]
  BY Joined
<1> HIDE DEF u
<1>2. m \in 1 .. n + 1 /\ n \in Nat /\ n - m + 1 = Len(t) /\ (m <= n \/ Len(t) = 0)
  BY <1>1
<1>3. \A i \in m .. n : u[i] \in S
  BY <1>1, <1>2, ElementOfSeq
<1>4. \A i \in 1 .. Len(t) : m + i - 1 = Len(s) + i
  BY <1>1
<1> HIDE DEF m, n
<1>5. /\ SubSeq(u, m, n) \in Seq(S)
      /\ Len(SubSeq(u, m, n)) = IF m <= n THEN n - m + 1 ELSE 0
      /\ \A i \in 1 .. n - m + 1 : SubSeq(u, m, n)[i] = u[m + i - 1]
  BY <1>2, <1>3, SubSeqProperties
<1>6. Len(SubSeq(u, m, n)) = Len(t)
  BY <1>1, <1>2, <1>5
<1>7. \A i \in 1 .. Len(t) : SubSeq(u, m, n)[i] = t[i]
  BY <1>1, <1>2, <1>4, <1>5
<1>8. SubSeq(u, m, n) = t
  BY <1>5, <1>6, <1>7, SeqEqual
<1> QED
  BY <1>8 DEF u, m, n

-----------------------------------------------------------------------------
(* The host and port of a node.                                            *)

(* What stands between a scheme and the slashes at the end of a URL.       *)
IsAddress(hostport) ==
  /\ hostport # <<>> /\ hostport[Len(hostport)] # Colon
  /\ \A i \in DOMAIN hostport : hostport[i] # Slash

Slashes(n) == [i \in 1 .. n |-> Slash]

(* hostPort drops the slashes at the end, and nothing else of an address.  *)
LEMMA SlashesAdded ==
  ASSUME NEW S, NEW a \in Seq(S), NEW n \in Nat, Slash \in S
  PROVE  /\ a \o Slashes(n) \in Seq(S) /\ Len(a \o Slashes(n)) = Len(a) + n
         /\ \A i \in 1 .. Len(a) + n :
              (a \o Slashes(n))[i] = IF i <= Len(a) THEN a[i] ELSE Slash
<1>1. /\ Slashes(n) \in Seq(S) /\ Len(Slashes(n)) = n
      /\ \A i \in 1 .. n : Slashes(n)[i] = Slash
  BY DEF Slashes
<1>2. /\ a \o Slashes(n) \in Seq(S) /\ Len(a \o Slashes(n)) = Len(a) + n
      /\ \A i \in 1 .. Len(a) + n :
           (a \o Slashes(n))[i] = IF i <= Len(a) THEN a[i] ELSE Slashes(n)[i - Len(a)]
  BY <1>1, ConcatProperties
<1> QED
  BY <1>1, <1>2, LenProperties

LEMMA SlashesGo ==
  ASSUME NEW S, NEW a \in Seq(S), NEW n \in Nat, Slash \in S, IsAddress(a)
  PROVE  WithoutSlashes(a \o Slashes(n)) = a
<1> DEFINE rest == a \o Slashes(n)
           kept == {i \in DOMAIN rest : rest[i] # Slash}
<1>1. Len(a) \in Nat \ {0} /\ DOMAIN a = 1 .. Len(a)
  BY LenProperties, EmptySeq DEF IsAddress
<1>2. /\ rest \in Seq(S) /\ Len(rest) = Len(a) + n /\ DOMAIN rest = 1 .. Len(a) + n
      /\ \A i \in 1 .. Len(a) + n : rest[i] = IF i <= Len(a) THEN a[i] ELSE Slash
  <2>1. /\ rest \in Seq(S) /\ Len(rest) = Len(a) + n
        /\ \A i \in 1 .. Len(a) + n : rest[i] = IF i <= Len(a) THEN a[i] ELSE Slash
    BY SlashesAdded
  <2>2. DOMAIN rest = 1 .. Len(rest)
    BY <2>1, LenProperties
  <2> QED
    BY <2>1, <2>2
<1>3. kept = 1 .. Len(a)
  BY <1>1, <1>2 DEF IsAddress
<1>4. kept # {} /\ (CHOOSE i \in kept : \A j \in kept : i >= j) = Len(a)
  BY <1>1, <1>3
<1>5. SubSeq(rest, 1, Len(a)) = a
  <2>1. \A i \in 1 .. Len(a) : rest[i] \in S /\ rest[i] = a[i]
    BY <1>1, <1>2, ElementOfSeq
  <2>2. /\ SubSeq(rest, 1, Len(a)) \in Seq(S) /\ Len(SubSeq(rest, 1, Len(a))) = Len(a)
        /\ \A i \in 1 .. Len(a) : SubSeq(rest, 1, Len(a))[i] = a[i]
    BY <1>1, <2>1, SubSeqProperties
  <2> QED
    BY <1>1, <2>2, SeqEqual
<1> QED
  BY <1>4, <1>5 DEF WithoutSlashes

(* The places of "://" in a text.                                          *)
SchemeEnds(s) == {i \in 1 .. Len(s) - 2 : SubSeq(s, i, i + 2) = <<Colon, Slash, Slash>>}

LEMMA SchemeEndsAt ==
  ASSUME NEW S, NEW s \in Seq(S), Slash \in S, Colon \in S, NEW i \in 1 .. Len(s) - 2
  PROVE  i \in SchemeEnds(s) <=> s[i] = Colon /\ s[i + 1] = Slash /\ s[i + 2] = Slash
<1> DEFINE mark == <<Colon, Slash, Slash>>
           here == SubSeq(s, i, i + 2)
<1>1. /\ mark \in Seq(S) /\ Len(mark) = 3
      /\ mark[1] = Colon /\ mark[2] = Slash /\ mark[3] = Slash
  OBVIOUS
<1>2. \A j \in i .. i + 2 : s[j] \in S
  BY LenProperties, ElementOfSeq
<1>3. here \in Seq(S) /\ Len(here) = 3 /\ \A j \in 1 .. 3 : here[j] = s[i + j - 1]
  BY <1>2, LenProperties, SubSeqProperties
<1>4. here[1] = s[i] /\ here[2] = s[i + 1] /\ here[3] = s[i + 2]
  BY <1>3, LenProperties
<1>5. here = mark <=> \A j \in 1 .. 3 : here[j] = mark[j]
  BY <1>1, <1>3, SeqEqual
<1>6. 1 .. 3 = {1, 2, 3}
  OBVIOUS
<1>7. here = mark <=> s[i] = Colon /\ s[i + 1] = Slash /\ s[i + 2] = Slash
  BY <1>1, <1>4, <1>5, <1>6
<1> QED
  BY <1>7 DEF SchemeEnds

(* An address with no scheme before it holds no "://".                     *)
LEMMA NoSchemeFound ==
  ASSUME NEW S, NEW a \in Seq(S), NEW n \in Nat, Slash \in S, Colon \in S,
         Colon # Slash, IsAddress(a)
  PROVE  AfterScheme(a \o Slashes(n)) = a \o Slashes(n)
<1> DEFINE url == a \o Slashes(n)
<1>1. /\ url \in Seq(S) /\ Len(url) = Len(a) + n
      /\ \A i \in 1 .. Len(a) + n : url[i] = IF i <= Len(a) THEN a[i] ELSE Slash
  BY SlashesAdded
<1>2. Len(a) \in Nat \ {0} /\ DOMAIN a = 1 .. Len(a)
  BY LenProperties, EmptySeq DEF IsAddress
<1> HIDE DEF url
<1>3. ASSUME NEW i \in 1 .. Len(url) - 2, url[i] = Colon, url[i + 1] = Slash
      PROVE  FALSE
  <2>1. i \in 1 .. Len(a) + n /\ i + 1 \in 1 .. Len(a) + n
    BY <1>1, <1>2
  <2>2. i <= Len(a) /\ a[i] = Colon
    BY <1>1, <1>3, <2>1
  <2>3. i # Len(a)
    BY <2>2 DEF IsAddress
  <2>4. i + 1 \in DOMAIN a /\ i + 1 <= Len(a)
    <3>1. Len(a) \in Nat
      BY <1>2
    <3>2. i \in Nat \ {0}
      BY <2>1, <3>1
    <3>3. i < Len(a)
      BY <2>2, <2>3, <3>1, <3>2
    <3> QED
      BY <1>2, <3>1, <3>2, <3>3
  <2>5. a[i + 1] = Slash
    BY <1>1, <1>3, <2>1, <2>4
  <2> QED
    BY <2>4, <2>5 DEF IsAddress
<1>4. SchemeEnds(url) = {}
  BY <1>1, <1>3, SchemeEndsAt DEF SchemeEnds
<1> QED
  BY <1>4 DEF AfterScheme, SchemeEnds, url

(* The first "://" is the one after the scheme.                            *)
LEMMA SchemeFound ==
  ASSUME NEW S, NEW pre \in Seq(S), NEW rest \in Seq(S), Slash \in S, Colon \in S,
         NEW L \in Nat, Len(pre) = L + 3,
         \A i \in 1 .. L : pre[i] # Colon,
         pre[L + 1] = Colon, pre[L + 2] = Slash, pre[L + 3] = Slash
  PROVE  AfterScheme(pre \o rest) = rest
<1> DEFINE url  == pre \o rest
           ends == SchemeEnds(url)
<1>1. /\ Len(rest) \in Nat /\ url \in Seq(S) /\ Len(url) = L + 3 + Len(rest)
      /\ \A i \in 1 .. L + 3 : url[i] = pre[i]
  <2>1. Len(rest) \in Nat /\ url \in Seq(S)
    BY Joined
  <2>2. Len(url) = Len(pre) + Len(rest)
    BY Joined
  <2>3. \A i \in 1 .. Len(pre) : url[i] = pre[i]
    BY Joined
  <2> QED
    BY <2>1, <2>2, <2>3
<1>2. SubSeq(url, (L + 1) + 3, Len(url)) = rest
  <2>1. (L + 1) + 3 = Len(pre) + 1
    OBVIOUS
  <2> QED
    BY <2>1, LastPart
<1> HIDE DEF url
<1>3. \A i \in 1 .. L : url[i] # Colon
  BY <1>1
<1>4. url[L + 1] = Colon /\ url[L + 2] = Slash /\ url[L + 3] = Slash
  BY <1>1
<1>5. L + 1 \in ends
  <2>1. L + 1 \in 1 .. Len(url) - 2
    BY <1>1
  <2>2. (L + 1) + 1 = L + 2 /\ (L + 1) + 2 = L + 3
    OBVIOUS
  <2> QED
    BY <1>1, <1>4, <2>1, <2>2, SchemeEndsAt
<1>6. ends \subseteq 1 .. Len(url) - 2
  BY DEF SchemeEnds
<1>7. ASSUME NEW i \in ends PROVE i >= L + 1
  <2>1. url[i] = Colon
    BY <1>1, <1>6, SchemeEndsAt
  <2> QED
    BY <1>1, <1>3, <1>6, <2>1
<1>8. (CHOOSE i \in ends : \A j \in ends : i <= j) = L + 1
  <2> HIDE DEF ends
  <2>1. \A i \in ends : (\A j \in ends : i <= j) => i = L + 1
    BY <1>1, <1>5, <1>6, <1>7
  <2>2. \A j \in ends : L + 1 <= j
    BY <1>1, <1>6, <1>7
  <2> QED
    BY <1>5, <2>1, <2>2
<1>9. AfterScheme(url) = SubSeq(url, (L + 1) + 3, Len(url))
  BY <1>5, <1>8 DEF AfterScheme, SchemeEnds
<1> QED
  BY <1>2, <1>9 DEF url

(* hostPort gives what stands between the two, with a scheme and without.  *)
LEMMA HostPortIs ==
  ASSUME NEW S, NEW scheme \in Seq(S), NEW a \in Seq(S), NEW n \in Nat,
         Slash \in S, Colon \in S, Colon # Slash, IsAddress(a),
         \A i \in DOMAIN scheme : scheme[i] # Colon
  PROVE  /\ HostPort(a \o Slashes(n)) = a
         /\ HostPort((scheme \o <<Colon, Slash, Slash>>) \o (a \o Slashes(n))) = a
<1> DEFINE mark == <<Colon, Slash, Slash>>
           rest == a \o Slashes(n)
           pre  == scheme \o mark
<1>1. rest \in Seq(S) /\ WithoutSlashes(rest) = a /\ AfterScheme(rest) = rest
  BY SlashesAdded, SlashesGo, NoSchemeFound
<1>2. mark \in Seq(S)
  OBVIOUS
<1>3. Len(mark) = 3 /\ mark[1] = Colon /\ mark[2] = Slash /\ mark[3] = Slash
  OBVIOUS
<1> HIDE DEF mark, rest
<1>4. /\ Len(scheme) \in Nat /\ pre \in Seq(S) /\ Len(pre) = Len(scheme) + 3
      /\ \A i \in 1 .. Len(scheme) : pre[i] = scheme[i]
      /\ \A i \in 1 .. 3 : pre[Len(scheme) + i] = mark[i]
  <2>1. Len(scheme) \in Nat /\ pre \in Seq(S)
    BY <1>2, Joined
  <2>2. Len(pre) = Len(scheme) + Len(mark)
    BY <1>2, Joined
  <2>3. \A i \in 1 .. Len(scheme) : pre[i] = scheme[i]
    BY <1>2, Joined
  <2>4. \A i \in 1 .. Len(mark) : pre[Len(scheme) + i] = mark[i]
    BY <1>2, Joined
  <2> QED
    BY <1>3, <2>1, <2>2, <2>3, <2>4
<1>5. /\ \A i \in 1 .. Len(scheme) : pre[i] # Colon
      /\ pre[Len(scheme) + 1] = Colon
      /\ pre[Len(scheme) + 2] = Slash
      /\ pre[Len(scheme) + 3] = Slash
  BY <1>3, <1>4, LenProperties
<1> HIDE DEF pre
<1>6. AfterScheme(pre \o rest) = rest
  BY <1>1, <1>4, <1>5, SchemeFound
<1> QED
  BY <1>1, <1>6 DEF HostPort, pre, rest, mark

-----------------------------------------------------------------------------
(* Whom socketsTo looks for.                                               *)

(* The last colon comes before the port, whatever colons a host holds.     *)
LEMMA PortColonIs ==
  ASSUME NEW S, NEW h \in Seq(S), NEW p \in Seq(S), Colon \in S,
         \A i \in DOMAIN p : p[i] # Colon
  PROVE  PortColon((h \o <<Colon>>) \o p) = Len(h) + 1
<1> DEFINE mark == <<Colon>>
           pre  == h \o mark
           all  == pre \o p
<1>1. mark \in Seq(S)
  OBVIOUS
<1>2. Len(mark) = 1 /\ mark[1] = Colon
  OBVIOUS
<1> HIDE DEF mark
<1>3. pre \in Seq(S) /\ Len(h) \in Nat /\ DOMAIN p = 1 .. Len(p) /\ Len(p) \in Nat
  BY <1>1, Joined, LenProperties
<1>4. Len(pre) = Len(h) + Len(mark)
  BY <1>1, Joined
<1>5. \A i \in 1 .. Len(mark) : pre[Len(h) + i] = mark[i]
  BY <1>1, Joined
<1>6. Len(pre) = Len(h) + 1 /\ pre[Len(h) + 1] = Colon
  BY <1>2, <1>4, <1>5
<1> HIDE DEF pre
<1>7. all \in Seq(S)
  BY <1>3, Joined
<1>8. Len(all) = Len(pre) + Len(p)
  BY <1>3, Joined
<1>9. \A i \in 1 .. Len(pre) : all[i] = pre[i]
  BY <1>3, Joined
<1>10. \A i \in 1 .. Len(p) : all[Len(pre) + i] = p[i]
  BY <1>3, Joined
<1> HIDE DEF all
<1>11. Len(h) + 1 \in 1 .. Len(all) /\ all[Len(h) + 1] = Colon
  BY <1>3, <1>6, <1>8, <1>9
<1>12. ASSUME NEW i \in (Len(h) + 1) + 1 .. Len(all) PROVE all[i] # Colon
  <2> DEFINE j == i - Len(pre)
  <2>1. j \in 1 .. Len(p) /\ Len(pre) + j = i
    BY <1>3, <1>6, <1>8
  <2> HIDE DEF j
  <2>2. all[i] = p[j]
    BY <1>10, <2>1
  <2> QED
    BY <1>3, <2>1, <2>2
<1>13. FindLast(all, Colon) = Len(h) + 1
  BY <1>7, <1>11, <1>12, FindLastIs
<1> QED
  BY <1>13 DEF PortColon, all, pre, mark

(* socketsTo takes a host and a port apart, and a host out of its brackets.*)
LEMMA SocketsToIs ==
  ASSUME NEW S, NEW h \in Seq(S), NEW p \in Seq(S), Colon \in S,
         \A i \in DOMAIN p : p[i] # Colon
  PROVE  SocketsTo((h \o <<Colon>>) \o p) =
           [host |-> IF Len(h) > 1 /\ h[1] = Opening /\ h[Len(h)] = Closing
                     THEN SubSeq(h, 2, Len(h) - 1) ELSE h,
            port |-> p]
<1> DEFINE mark == <<Colon>>
           pre  == h \o mark
           all  == pre \o p
<1>1. mark \in Seq(S)
  OBVIOUS
<1>2. Len(mark) = 1
  OBVIOUS
<1>3. PortColon(all) = Len(h) + 1
  BY PortColonIs
<1> HIDE DEF mark
<1>4. pre \in Seq(S) /\ Len(h) \in Nat /\ mark \o p \in Seq(S)
  BY <1>1, Joined
<1>5. Len(pre) = Len(h) + Len(mark)
  BY <1>1, Joined
<1>6. all = h \o (mark \o p)
  BY <1>1, ConcatAssociative
<1>7. SubSeq(all, 1, Len(h)) = h
  BY <1>4, <1>6, FirstPart
<1>8. SubSeq(all, Len(pre) + 1, Len(all)) = p
  BY <1>4, LastPart
<1> HIDE DEF all, pre
<1>9. /\ PortColon(all) # 0 /\ PortColon(all) - 1 = Len(h)
      /\ PortColon(all) + 1 = Len(pre) + 1
  BY <1>2, <1>3, <1>4, <1>5
<1>10. SocketsTo(all) =
         [host |-> IF Len(h) > 1 /\ h[1] = Opening /\ h[Len(h)] = Closing
                   THEN SubSeq(h, 2, Len(h) - 1) ELSE h,
          port |-> p]
  BY <1>7, <1>8, <1>9 DEF SocketsTo
<1> QED
  BY <1>10 DEF all, pre, mark

LEMMA BracketsGo ==
  ASSUME NEW S, NEW name \in Seq(S), Opening \in S, Closing \in S
  PROVE  LET h == (<<Opening>> \o name) \o <<Closing>>
         IN  /\ h \in Seq(S)
             /\ Len(h) > 1 /\ h[1] = Opening /\ h[Len(h)] = Closing
             /\ SubSeq(h, 2, Len(h) - 1) = name
<1> DEFINE o   == <<Opening>>
           c   == <<Closing>>
           pre == o \o name
           h   == pre \o c
<1>1. o \in Seq(S) /\ c \in Seq(S)
  OBVIOUS
<1>2. Len(o) = 1 /\ o[1] = Opening /\ Len(c) = 1 /\ c[1] = Closing
  OBVIOUS
<1> HIDE DEF o, c
<1>3. pre \in Seq(S) /\ Len(name) \in Nat
  BY <1>1, Joined
<1>4. Len(pre) = Len(o) + Len(name)
  BY <1>1, Joined
<1>5. \A i \in 1 .. Len(o) : pre[i] = o[i]
  BY <1>1, Joined
<1>6. SubSeq(pre, Len(o) + 1, Len(pre)) = name
  BY <1>1, LastPart
<1> HIDE DEF pre
<1>7. h \in Seq(S)
  BY <1>1, <1>3, Joined
<1>8. Len(h) = Len(pre) + Len(c)
  BY <1>1, <1>3, Joined
<1>9. \A i \in 1 .. Len(pre) : h[i] = pre[i]
  BY <1>1, <1>3, Joined
<1>10. \A i \in 1 .. Len(c) : h[Len(pre) + i] = c[i]
  BY <1>1, <1>3, Joined
<1> HIDE DEF h
<1>11. Len(h) = Len(name) + 2 /\ Len(pre) = Len(name) + 1
  BY <1>2, <1>3, <1>4, <1>8
<1>12. h[1] = Opening
  BY <1>2, <1>3, <1>5, <1>9, <1>11
<1>13. h[Len(h)] = Closing
  BY <1>2, <1>3, <1>10, <1>11
<1>14. SubSeq(h, 2, Len(h) - 1) = SubSeq(pre, 2, Len(pre))
  <2>1. \A i \in 2 .. Len(pre) : h[i] \in S /\ pre[i] \in S /\ h[i] = pre[i]
    BY <1>3, <1>7, <1>9, <1>11, ElementOfSeq
  <2>2. Len(h) - 1 = Len(pre) /\ 2 \in Int /\ Len(pre) \in Int /\ Len(pre) >= 1
    BY <1>3, <1>11
  <2>3. /\ SubSeq(h, 2, Len(pre)) \in Seq(S)
        /\ Len(SubSeq(h, 2, Len(pre))) = IF 2 <= Len(pre) THEN Len(pre) - 2 + 1 ELSE 0
        /\ \A i \in 1 .. Len(pre) - 2 + 1 : SubSeq(h, 2, Len(pre))[i] = h[2 + i - 1]
    BY <1>7, <2>1, <2>2, SubSeqProperties
  <2>4. /\ SubSeq(pre, 2, Len(pre)) \in Seq(S)
        /\ Len(SubSeq(pre, 2, Len(pre))) = IF 2 <= Len(pre) THEN Len(pre) - 2 + 1 ELSE 0
        /\ \A i \in 1 .. Len(pre) - 2 + 1 : SubSeq(pre, 2, Len(pre))[i] = pre[2 + i - 1]
    BY <1>3, <2>1, <2>2, SubSeqProperties
  <2>5. /\ Len(SubSeq(h, 2, Len(pre))) = Len(name)
        /\ Len(SubSeq(pre, 2, Len(pre))) = Len(name)
    BY <1>3, <1>11, <2>3, <2>4
  <2>6. ASSUME NEW i \in 1 .. Len(name)
        PROVE  SubSeq(h, 2, Len(pre))[i] = SubSeq(pre, 2, Len(pre))[i]
    <3>1. i \in 1 .. Len(pre) - 2 + 1 /\ 2 + i - 1 \in 2 .. Len(pre)
      BY <1>3, <1>11
    <3> QED
      BY <2>1, <2>3, <2>4, <3>1
  <2>7. SubSeq(h, 2, Len(pre)) = SubSeq(pre, 2, Len(pre))
    <3>1. Len(SubSeq(h, 2, Len(pre))) = Len(SubSeq(pre, 2, Len(pre)))
      BY <2>5
    <3>2. \A i \in 1 .. Len(SubSeq(h, 2, Len(pre))) :
            SubSeq(h, 2, Len(pre))[i] = SubSeq(pre, 2, Len(pre))[i]
      BY <2>5, <2>6
    <3> QED
      BY <2>3, <2>4, <3>1, <3>2, SeqEqual
  <2> QED
    BY <2>2, <2>7
<1>15. SubSeq(h, 2, Len(h) - 1) = name
  BY <1>2, <1>6, <1>14
<1>16. Len(h) > 1
  BY <1>3, <1>11
<1> QED
  BY <1>7, <1>12, <1>13, <1>15, <1>16 DEF h, pre, o, c

-----------------------------------------------------------------------------
(* Transaction ids.                                                        *)

(* Every set of numbers has a least one.                                   *)
LEMMA LeastNumber ==
  ASSUME NEW T, T \subseteq Nat, T # {}
  PROVE  \E n \in T : \A m \in T : n <= m
<1>1. IsWellFoundedOn(OpToRel(<, Nat), Nat)
  BY NatLessThanWellFounded
<1>2. \E n \in T : \A m \in T : ~(<<m, n>> \in OpToRel(<, Nat))
  BY <1>1, WFMin
<1>3. PICK n \in T : \A m \in T : ~(<<m, n>> \in OpToRel(<, Nat))
  BY <1>2
<1>4. \A m \in T : ~(m < n)
  BY <1>3 DEF OpToRel
<1> QED
  BY <1>4

(* Remainders by a number that is not known.                               *)
LEMMA Remainders ==
  ASSUME NEW m \in Nat \ {0}, NEW y \in Nat
  PROVE  /\ y % m \in 0 .. m - 1 /\ (y - (y % m)) % m = 0
         /\ y % m = 0 => (y + m) % m = 0 /\ \A j \in 0 .. m - 1 : (y + j) % m = j
<1>1. y % m \in 0 .. m - 1 /\ y \div m \in Nat
  OBVIOUS
<1>2. y = m * (y \div m) + (y % m)
  OBVIOUS
<1>3. \A q \in Nat : (m * q + 0) % m = 0
  OBVIOUS
<1>4. (y - (y % m)) % m = 0
  <2>1. m * (y \div m) \in Nat
    BY <1>1
  <2>2. y - (y % m) = m * (y \div m) + 0
    BY <1>1, <1>2, <2>1
  <2> QED
    BY <1>1, <1>3, <2>2
<1>5. ASSUME y % m = 0 PROVE (y + m) % m = 0
  <2> DEFINE d == (y \div m) + 1
  <2>1. d \in Nat /\ m * (y \div m) \in Nat /\ m * d = m * (y \div m) + m
    BY <1>1
  <2>2. y + m = m * d + 0
    BY <1>2, <1>5, <2>1
  <2> QED
    BY <1>3, <2>1, <2>2
<1>6. ASSUME y % m = 0, NEW j \in 0 .. m - 1 PROVE (y + j) % m = j
  BY <1>6
<1> QED
  BY <1>1, <1>4, <1>5, <1>6

(* A part of a text of ids: what it reads, up to the comma or the end.     *)
LEMMA PartIs ==
  ASSUME NEW S, NEW s \in Seq(S), NEW q \in 0 .. Len(s), NEW e \in q .. Len(s),
         \A i \in q + 1 .. e : s[i] # Comma,
         e = Len(s) \/ s[e + 1] = Comma
  PROVE  /\ Len(Part(s, q + 1)) = e - q
         /\ \A i \in 1 .. e - q : Part(s, q + 1)[i] = s[q + i]
         /\ DOMAIN Part(s, q + 1) = 1 .. e - q
<1>1. Len(s) \in Nat
  BY LenProperties
<1>2. Part(s, q + 1) = SubSeq(s, q + 1, e)
  <2>1. CASE e = Len(s)
    <3>1. FindFrom(s, Comma, q + 1) = 0
      BY <1>1, <2>1, FindFromNone
    <3> QED
      BY <2>1, <3>1 DEF Part
  <2>2. CASE e # Len(s)
    <3>1. /\ e + 1 \in q + 1 .. Len(s) /\ q + 1 \in Nat /\ s[e + 1] = Comma
          /\ \A i \in q + 1 .. (e + 1) - 1 : s[i] # Comma
      BY <1>1, <2>2
    <3>2. FindFrom(s, Comma, q + 1) = e + 1
      BY <3>1, FindFromIs
    <3>3. e + 1 # 0 /\ (e + 1) - 1 = e
      BY <1>1
    <3> QED
      BY <3>2, <3>3 DEF Part
  <2> QED
    BY <2>1, <2>2
<1>3. \A i \in q + 1 .. e : s[i] \in S
  BY <1>1, ElementOfSeq
<1>4. q + 1 \in Int /\ e \in Int
  BY <1>1
<1>5. /\ SubSeq(s, q + 1, e) \in Seq(S)
      /\ Len(SubSeq(s, q + 1, e)) = IF q + 1 <= e THEN e - (q + 1) + 1 ELSE 0
      /\ \A i \in 1 .. e - (q + 1) + 1 : SubSeq(s, q + 1, e)[i] = s[(q + 1) + i - 1]
  BY <1>3, <1>4, SubSeqProperties
<1>6. Len(SubSeq(s, q + 1, e)) = e - q
  BY <1>1, <1>5
<1>7. ASSUME NEW i \in 1 .. e - q PROVE SubSeq(s, q + 1, e)[i] = s[q + i]
  <2>1. i \in 1 .. e - (q + 1) + 1 /\ (q + 1) + i - 1 = q + i
    BY <1>1
  <2> QED
    BY <1>5, <2>1
<1>8. DOMAIN SubSeq(s, q + 1, e) = 1 .. e - q
  BY <1>5, <1>6, LenProperties
<1> QED
  BY <1>2, <1>6, <1>7, <1>8

(* The reading of joined ids takes a text just if it is ids of the right   *)
(* length, joined by single commas.                                        *)
LEMMA TxidsAre ==
  ASSUME NEW S, NEW s \in Seq(S)
  PROVE  LooksLikeTxid(s) <=> JoinedTxids(s)
<1> DEFINE N    == TxidChars
           m    == N + 1
           L    == Len(s)
           Good(i) == IF i % m = 0 THEN s[i] = Comma ELSE s[i] \in HexDigits
<1>1. L \in Nat /\ DOMAIN s = 1 .. L /\ N \in Nat /\ m \in Nat \ {0} /\ Comma \notin HexDigits
  BY LenProperties, TextAssumption DEF TextAssumption
<1>2. s # <<>> <=> L > 0
  BY <1>1, EmptySeq
<1>3. \A start \in Starts(s) : LooksOn(start, s) /\ start \in 1 .. L + 1
  BY <1>1 DEF Starts, LooksOn
<1> HIDE DEF m, N, L
<1>4. ASSUME JoinedTxids(s) PROVE LooksLikeTxid(s)
  <2>1. L > 0 /\ (L + 1) % m = 0 /\ \A i \in 1 .. L : Good(i)
    BY <1>1, <1>4 DEF JoinedTxids, m, N, L
  <2>2. ASSUME NEW start \in Starts(s) PROVE IsTxid(Part(s, start))
    <3> DEFINE q == start - 1
    <3>1. q \in 0 .. L /\ q + 1 = start /\ q % m = 0
      <4>1. CASE start = 1
        BY <1>1, <4>1
      <4>2. CASE start # 1
        <5>1. q \in 1 .. L /\ s[q] = Comma /\ q + 1 = start
          BY <1>1, <4>2 DEF Starts
        <5>2. q % m = 0
          BY <1>1, <2>1, <5>1
        <5> QED
          BY <1>1, <5>1, <5>2
      <4> QED
        BY <4>1, <4>2
    <3> HIDE DEF q
    <3> DEFINE e == q + N
    <3>2. e \in q .. L /\ (e = L \/ s[e + 1] = Comma)
      <4>1. (q + m) % m = 0 /\ \A j \in 0 .. m - 1 : (q + j) % m = j
        <5>1. q \in Nat
          BY <1>1, <3>1
        <5> QED
          BY <1>1, <3>1, <5>1, Remainders
      <4>2. q + N <= L
        BY <1>1, <2>1, <3>1, <4>1 DEF m
      <4>3. CASE e # L
        <5>1. e + 1 \in 1 .. L /\ e + 1 = q + m
          BY <1>1, <3>1, <4>2, <4>3 DEF m
        <5> QED
          BY <1>1, <2>1, <4>1, <4>2, <5>1, <3>1
      <4> QED
        BY <1>1, <3>1, <4>2, <4>3
    <3>3. ASSUME NEW i \in 1 .. N PROVE s[q + i] \in HexDigits
      <4>1. q + i \in 1 .. L /\ i \in 0 .. m - 1 /\ i # 0
        BY <1>1, <3>1, <3>2 DEF m
      <4>2. (q + i) % m = i
        <5>1. q \in Nat
          BY <1>1, <3>1
        <5> QED
          BY <1>1, <3>1, <4>1, <5>1, Remainders
      <4> QED
        BY <2>1, <4>1, <4>2
    <3>4. \A i \in q + 1 .. e : s[i] # Comma
      <4>1. ASSUME NEW i \in q + 1 .. e PROVE s[i] # Comma
        <5>1. i - q \in 1 .. N /\ q + (i - q) = i
          BY <1>1, <3>1
        <5> QED
          BY <1>1, <3>3, <5>1
      <4> QED
        BY <4>1
    <3>5. e - q = N
      BY <1>1, <3>1
    <3>6. /\ Len(Part(s, q + 1)) = N
          /\ \A i \in 1 .. N : Part(s, q + 1)[i] = s[q + i]
          /\ DOMAIN Part(s, q + 1) = 1 .. N
      BY <3>1, <3>2, <3>4, <3>5, PartIs DEF L
    <3> QED
      BY <3>1, <3>3, <3>6 DEF IsTxid, N
  <2> QED
    BY <1>2, <2>1, <2>2 DEF LooksLikeTxid
<1>5. ASSUME LooksLikeTxid(s) PROVE JoinedTxids(s)
  <2>1. L > 0 /\ \A start \in Starts(s) : IsTxid(Part(s, start))
    BY <1>2, <1>3, <1>5 DEF LooksLikeTxid
  (* The part that a place k belongs to, if all before it is as it should  *)
  (* be: it starts after the last multiple of m below k.                   *)
  <2>2. ASSUME NEW k \in 1 .. L + 1, \A i \in 1 .. k - 1 : Good(i)
        PROVE  \E q \in 0 .. L : /\ q % m = 0 /\ k - q \in 1 .. m
                                 /\ q + N <= L
                                 /\ \A i \in 1 .. N : s[q + i] \in HexDigits
                                 /\ q + N = L \/ s[q + m] = Comma
    <3> DEFINE q == (k - 1) - ((k - 1) % m)
    <3>1. q \in 0 .. L /\ q % m = 0 /\ k - q \in 1 .. m
      <4>1. k - 1 \in Nat
        BY <1>1
      <4>2. (k - 1) % m \in 0 .. m - 1
        BY <1>1, <4>1, Remainders
      <4>3. q % m = 0
        BY <1>1, <4>1, Remainders
      <4>4. (k - 1) % m <= k - 1
        BY <1>1, <4>1
      <4> QED
        BY <1>1, <4>1, <4>2, <4>3, <4>4
    <3> HIDE DEF q
    <3>2. q + 1 \in Starts(s)
      <4>1. CASE q = 0
        BY <4>1 DEF Starts
      <4>2. CASE q # 0
        <5>1. q \in 1 .. k - 1 /\ q \in 1 .. L
          BY <1>1, <3>1, <4>2
        <5>2. s[q] = Comma
          BY <2>2, <3>1, <5>1
        <5> QED
          BY <1>1, <5>1, <5>2 DEF Starts
      <4> QED
        BY <4>1, <4>2
    <3>3. IsTxid(Part(s, q + 1))
      BY <2>1, <3>2
    <3>4. PICK e \in q .. L : /\ \A i \in q + 1 .. e : s[i] # Comma
                              /\ e = L \/ s[e + 1] = Comma
      <4> DEFINE commas == {i \in q + 1 .. L : s[i] = Comma}
      <4>1. CASE commas = {}
        <5>1. L \in q .. L /\ \A i \in q + 1 .. L : s[i] # Comma
          BY <1>1, <3>1, <4>1
        <5> QED
          BY <5>1
      <4>2. CASE commas # {}
        <5>1. commas \subseteq Nat
          BY <1>1, <3>1
        <5>2. PICK c \in commas : \A j \in commas : c <= j
          BY <4>2, <5>1, LeastNumber
        <5>3. c \in q + 1 .. L /\ s[c] = Comma /\ c - 1 \in q .. L /\ (c - 1) + 1 = c
          BY <1>1, <3>1
        <5>4. \A i \in q + 1 .. c - 1 : s[i] # Comma
          BY <1>1, <3>1, <5>2, <5>3
        <5> QED
          BY <5>3, <5>4
      <4> QED
        BY <4>1, <4>2
    <3>5. /\ Len(Part(s, q + 1)) = e - q
          /\ \A i \in 1 .. e - q : Part(s, q + 1)[i] = s[q + i]
          /\ DOMAIN Part(s, q + 1) = 1 .. e - q
      <4>1. q \in 0 .. Len(s) /\ e \in q .. Len(s) /\ (e = Len(s) \/ s[e + 1] = Comma)
        BY <3>1, <3>4 DEF L
      <4>2. \A i \in q + 1 .. e : s[i] # Comma
        BY <3>4
      <4> QED
        BY <4>1, <4>2, PartIs
    <3>6. e - q = N /\ \A i \in 1 .. N : s[q + i] \in HexDigits
      BY <3>3, <3>5 DEF IsTxid, N
    <3>7. e = q + N /\ e + 1 = q + m /\ q + N <= L
      BY <1>1, <3>1, <3>6 DEF m
    <3> QED
      BY <3>1, <3>4, <3>6, <3>7
  <2>3. \A i \in 1 .. L : Good(i)
    <3> DEFINE bad == {i \in 1 .. L : ~Good(i)}
    <3>1. ASSUME bad # {} PROVE FALSE
      <4>1. bad \subseteq Nat
        BY <1>1
      <4>2. PICK k \in bad : \A j \in bad : k <= j
        BY <3>1, <4>1, LeastNumber
      <4>3. k \in 1 .. L /\ k \in 1 .. L + 1 /\ ~Good(k) /\ \A i \in 1 .. k - 1 : Good(i)
        BY <1>1, <4>2
      <4> HIDE DEF bad
      <4>4. PICK q \in 0 .. L : /\ q % m = 0 /\ k - q \in 1 .. m
                                /\ q + N <= L
                                /\ \A i \in 1 .. N : s[q + i] \in HexDigits
                                /\ q + N = L \/ s[q + m] = Comma
        BY <2>2, <4>3
      <4>5. (q + m) % m = 0 /\ \A j \in 0 .. m - 1 : (q + j) % m = j
        <5>1. q \in Nat
          BY <1>1
        <5> QED
          BY <1>1, <4>4, <5>1, Remainders
      <4>6. CASE k - q = m
        <5>1. q + m = k /\ q + N # L
          BY <1>1, <4>3, <4>4, <4>6 DEF m
        <5> QED
          BY <4>3, <4>4, <4>5, <5>1
      <4>7. CASE k - q # m
        <5> DEFINE j == k - q
        <5>1. j \in 1 .. N /\ j \in 0 .. m - 1 /\ q + j = k /\ j # 0
          BY <1>1, <4>3, <4>4, <4>7 DEF m
        <5> HIDE DEF j
        <5> QED
          BY <4>3, <4>4, <4>5, <5>1
      <4> QED
        BY <4>6, <4>7
    <3> QED
      BY <3>1
  <2>4. (L + 1) % m = 0
    <3>1. L + 1 \in 1 .. L + 1 /\ \A i \in 1 .. (L + 1) - 1 : Good(i)
      BY <1>1, <2>3
    <3>2. PICK q \in 0 .. L : /\ q % m = 0 /\ (L + 1) - q \in 1 .. m /\ q + N <= L
      BY <2>2, <3>1
    <3>3. q + m = L + 1
      BY <1>1, <3>2 DEF m
    <3>4. (q + m) % m = 0
      <4>1. q \in Nat
        BY <1>1
      <4> QED
        BY <1>1, <3>2, <4>1, Remainders
    <3> QED
      BY <3>3, <3>4
  <2> QED
    BY <1>1, <2>1, <2>3, <2>4 DEF JoinedTxids, m, N, L
<1> QED
  BY <1>4, <1>5

=============================================================================
