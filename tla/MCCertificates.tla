--------------------------- MODULE MCCertificates ---------------------------
(***************************************************************************)
(* Constants for Certificates: a machine of every platform, with and       *)
(* without the tools and the profiles; on the last, two commands at once,  *)
(* one of which does not find keytool.                                     *)
(***************************************************************************)
EXTENDS Certificates

CONSTANTS c1, c2, p1, p2

M(platform, tools1, tools2, profiles, of1, of2) ==
  [platform |-> platform, profiles |-> profiles,
   tools |-> [c \in {c1, c2} |-> IF c = c1 THEN tools1 ELSE tools2],
   users |-> [c \in {c1, c2} |-> IF c = c1 THEN of1 ELSE of2]]

MCCommand == {c1, c2}
MCProfile == {p1, p2}
Both == {"certutil", "keytool"}
MCMachine == {M("distro", Both, Both, {p1, p2}, What, {}),
              M("arch", {"certutil"}, {"certutil"}, {}, What, {}),
              M("keychain", {"keytool"}, {"keytool"}, {p1}, What, {}),
              M("other", {"keytool"}, {}, {},
                {"install", "uninstall"}, {"install", "uninstall"})}
=============================================================================
