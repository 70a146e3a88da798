------------------------------ MODULE DnsRule ------------------------------
(***************************************************************************)
(* A routing rule and the names it matches (core/src/rule.rs) and the      *)
(* names the daemon accepts (validate_domain, core/src/lib.rs).            *)
(*                                                                         *)
(* A domain is the sequence of its labels: "*.x.io" is <<"*", "x", "io">>. *)
(* The code compares bytes and then tests for a '.' in front of the        *)
(* suffix, which is a comparison label by label.  Every name reaches the   *)
(* store lower-cased, so letter case is left out.                          *)
(***************************************************************************)
EXTENDS Naturals, Sequences

CONSTANTS Domain,   \* the domains rules are made for, sequences of labels
          Name,     \* the names clients look up, sequences of labels
          Target,   \* the socket addresses rules point to
          None      \* Option::None

Rule == [domain : Domain, target : Target, https : BOOLEAN]

ASSUME DomainAssumption == Domain \cup Name \subseteq Seq(STRING)
ASSUME NoneAssumption == None \notin Rule

IsWildcard(d) == Len(d) > 1 /\ Head(d) = "*"

(* d is longer than suffix and ends with it, on a label boundary. *)
UnderSuffix(suffix, d) ==
  /\ Len(d) > Len(suffix)
  /\ SubSeq(d, Len(d) - Len(suffix) + 1, Len(d)) = suffix

Matches(rule, d) ==
  IF IsWildcard(rule.domain) THEN UnderSuffix(Tail(rule.domain), d)
                             ELSE rule.domain = d

(* The shape DOMAIN_REGEX admits: localhost, or at least two labels after  *)
(* an optional leading "*.".                                               *)
ValidDomain(d) ==
  \/ d = <<"localhost">>
  \/ /\ ~IsWildcard(d) /\ Len(d) >= 2
     /\ \A i \in 1..Len(d) : d[i] # "*"
  \/ /\ IsWildcard(d) /\ Len(d) >= 3
     /\ \A i \in 2..Len(d) : d[i] # "*"
=============================================================================
