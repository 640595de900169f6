----------------------------- MODULE PslHostname -----------------------------
(***************************************************************************)
(* Matching the host a channel is connected to against the names in a      *)
(* certificate (src/src/psl_x509_utils.c, psl_openssl_utils.c,             *)
(* psl_inet_utils.c), and the same by its description in                   *)
(* palmsockx509utils.h.  The module has no variables.                      *)
(*                                                                         *)
(* A name is [text, addr]: its octets, and the IP address that inet_pton   *)
(* makes of them.  The octets stand for the classes the code tells apart:  *)
(* two letters, a capital of the first, the dot and the star.              *)
(***************************************************************************)
EXTENDS Integers, Sequences

Octets == {"a", "A", "b", ".", "*"}
Addrs  == {"v4", "v6"}
NoAddr == "none"                       \* not an address: AF_UNSPEC

Name(text) == [text |-> text, addr |-> NoAddr]

IsIPAddr(name) == name.addr # NoAddr

Upper(o) == IF o = "a" THEN "A" ELSE o

-----------------------------------------------------------------------------
(* PmSockX509CheckCertHostNameMatch: cn and hn are walked together, at i   *)
(* and j; label is curLabelIdx, wild says that a wildcard was met (always  *)
(* in label 0).                                                            *)
Places(cn, hn) == [i : 1 .. Len(cn) + 1, j : 1 .. Len(hn) + 1, label : Nat, wild : BOOLEAN]

Start == [i |-> 1, j |-> 1, label |-> 0, wild |-> FALSE]

(* mutant: one label after the wildcard is enough                          *)
EnoughLabelsForTwo(p) == p.wild => p.label >= 1

EnoughLabels(p) == p.wild => p.label >= 2

SameOctet(cn, hn, p) == Upper(cn[p.i]) = Upper(hn[p.j])

WildcardAllowed(cn, hn, p) ==
    /\ cn[p.i] = "*" /\ p.label = 0
    /\ p.i < Len(cn) /\ cn[p.i + 1] = "."
    /\ hn[p.j] # "."

PastOctet(cn, p) ==
    [p EXCEPT !.i = @ + 1, !.j = @ + 1, !.label = IF cn[p.i] = "." THEN @ + 1 ELSE @]

(* The octet after hn[j], at least, where the label ends.                  *)
LabelEnd(hn, j) ==
    CHOOSE k \in j + 1 .. Len(hn) + 1 :
        /\ k <= Len(hn) => hn[k] = "."
        /\ \A l \in j + 1 .. k - 1 : hn[l] # "."

PastWildcard(hn, p) == [p EXCEPT !.i = @ + 1, !.j = LabelEnd(hn, @), !.wild = TRUE]

Walk(cn, hn) ==
    LET walk[p \in Places(cn, hn)] ==
            IF p.i > Len(cn) \/ p.j > Len(hn)
              THEN p.i > Len(cn) /\ p.j > Len(hn) /\ EnoughLabels(p)
            ELSE IF SameOctet(cn, hn, p)
              THEN walk[PastOctet(cn, p)]
            ELSE WildcardAllowed(cn, hn, p) /\ walk[PastWildcard(hn, p)]
    IN  walk

(* Empty names are refused, which no caller takes for a match.             *)
CheckCertHostNameMatch(cn, hn) == cn # <<>> /\ hn # <<>> /\ Walk(cn, hn)[Start]

-----------------------------------------------------------------------------
(* A certificate has subjectAltName entries [type, ia5, name] and Common   *)
(* Names [utf8, name], of which some may not be convertible.               *)

(* verify_hostname_in_subj_alt_name sets *pSawRelevantSanEntry for these.  *)
Relevant(host, e) == IF IsIPAddr(host) THEN e.type = "ip" ELSE e.type = "dns" /\ e.ia5

SameHost(host, name) ==
    IF IsIPAddr(host)
      THEN name.addr = host.addr
      ELSE CheckCertHostNameMatch(name.text, host.text)

InSubjAltName(host, cert) == \E e \in cert.san : Relevant(host, e) /\ SameHost(host, e.name)

InCommonName(host, cert) == \E c \in cert.cn : c.utf8 /\ SameHost(host, c.name)

(* PmSockOpensslVerifyHostname, and its answer for a host that was never   *)
(* set.                                                                    *)

VerifyHostname(host, cert) ==
    IF host.text = <<>> THEN "invalid"
    ELSE IF \/ InSubjAltName(host, cert)
            \/ ~(\E e \in cert.san : Relevant(host, e)) /\ InCommonName(host, cert)
      THEN "match"
    ELSE "mismatch"

(* PmSockOpensslMatchCertInStore: the first object with the subject of the *)
(* certificate, or any other that has it.                                  *)
MatchCertInStore(cert, store) ==
    \E c \in store : c.subject = cert.subject /\ c = cert

-----------------------------------------------------------------------------
(* The same, as it is documented.                                          *)

SameText(s, t) == Len(s) = Len(t) /\ \A i \in 1 .. Len(s) : Upper(s[i]) = Upper(t[i])

Dots(s) == {i \in 1 .. Len(s) : s[i] = "."}

(* The certificate's name is the host's but for its case, or a wildcard at *)
(* the end of its first label stands for the rest, not empty, of the first *)
(* label of the host, and at least two labels follow                       *)
(* (palmsockx509utils.h:58-95).                                            *)
SameLabels(cn, hn) ==
    \/ SameText(cn, hn)
    \/ \E star \in DOMAIN cn, end \in DOMAIN hn :
          /\ cn[star] = "*" /\ star <= end
          /\ LET follows == SubSeq(cn, star + 1, Len(cn))
             IN /\ SameText(SubSeq(cn, 1, star - 1), SubSeq(hn, 1, star - 1))
                /\ SameText(follows, SubSeq(hn, end + 1, Len(hn)))
                /\ \A i \in Dots(hn) : i > end
                /\ follows # <<>> /\ follows[1] = "." /\ \E i \in Dots(follows) : i > 1

(* The certificate is for the host: by one of the alternative names of the *)
(* host's kind, or by a Common Name if it has none of them.                *)
IsFor(cert, host) ==
    LET Same(name)  == IF IsIPAddr(host) THEN name.addr = host.addr
                                         ELSE SameLabels(name.text, host.text)
        names == {e \in cert.san : Relevant(host, e)}
    IN  /\ host.text # <<>>
        /\ IF names # {} THEN \E e \in names : Same(e.name)
                         ELSE \E c \in cert.cn : c.utf8 /\ Same(c.name)
=============================================================================
