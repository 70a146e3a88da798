---------------------------- MODULE Certificates ----------------------------
(***************************************************************************)
(* The local CA: `sidedns cert install`, `uninstall`, `trust` and          *)
(* `untrust` (cli/src/commands/cert.rs) over its two files                 *)
(* (core/src/certs/ca.rs) and the trust stores (core/src/certs/trust), and *)
(* the daemon that loads it at its start (core/src/runner.rs) and decides  *)
(* once more by the files whether to serve HTTPS (core/src/proxy).         *)
(*                                                                         *)
(* CAs are numbered in the order they are generated; a certificate and a   *)
(* key of one number belong together.  Commands run as superuser: without  *)
(* that, or for `install` without --trust, they end before they do         *)
(* anything.  The tools the stores call (update-ca-certificates, trust,    *)
(* security, certutil, keytool) are external.                              *)
(*                                                                         *)
(* Platforms, by how their system store works: distro (Debian, Fedora: a   *)
(* copy of the certificate, from which a bundle is made), arch (a copy,    *)
(* and `trust anchor`), keychain (macOS, Windows), other.                  *)
(***************************************************************************)
EXTENDS Naturals, Sequences

CONSTANTS Command,     \* invocations of the CLI
          Profile,     \* NSS databases of browsers
          Machine,     \* platform, the tools each command finds, profiles, and
                       \* what its users ask for
          None, Torn,  \* no file; a file that does not parse
          MaxCa,       \* bound: CAs generated
          MaxFaults    \* bound: crashes, failed file operations and tools

Store == {"system", "nss", "java"}
Place == {"system", "java"} \cup Profile
Ca == 1..MaxCa
What == {"install", "force", "uninstall", "trust", "untrust"}

ASSUME MachineAssumption ==
  Machine \subseteq [platform : {"distro", "arch", "keychain", "other"},
                     tools : [Command -> SUBSET {"certutil", "keytool"}],
                     profiles : SUBSET Profile, users : [Command -> SUBSET What]]
ASSUME ProfileAssumption == Profile \cap {"system", "java"} = {}
ASSUME BoundsAssumption == MaxCa \in Nat /\ MaxFaults \in Nat
ASSUME FilesAssumption == None # Torn /\ {None, Torn} \cap Nat = {}

VARIABLES machine,     \* chosen once
          cert, key,   \* SideDNS-CA.crt and SideDNS-CA.key
          anchor,      \* sidedns.crt or .pem in the distribution's directory
          trusted,     \* the CAs each place trusts
          made,        \* CAs generated so far
          cmd,         \* each command
          told,        \* what the user was last told of each store
          daemon,      \* its stage, the CA it loaded, whether it serves HTTPS;
                       \* history: the certificate's file was changed between
                       \* the two reads of the load
          faults,
          overlapped   \* history: two commands ran at once

files == <<cert, key>>
stores == <<anchor, trusted, told>>
vars == <<machine, files, stores, made, cmd, daemon, faults, overlapped>>

NotRunning == [pc |-> "idle", what |-> "none", new |-> None, todo |-> << >>,
               rest |-> {}, ok |-> FALSE]
NoDaemon == [stage |-> "down", ca |-> None, https |-> FALSE, raced |-> FALSE]

Init ==
  /\ machine \in Machine
  /\ cert = None /\ key = None /\ anchor = None
  /\ trusted = [p \in Place |-> {}]
  /\ made = 0
  /\ cmd = [c \in Command |-> NotRunning]
  /\ told = [s \in Store |-> "nothing"]
  /\ daemon = NoDaemon
  /\ faults = 0
  /\ overlapped = FALSE

Fault == faults < MaxFaults /\ faults' = faults + 1
NoFault == UNCHANGED faults

(* Whether Ca::load succeeds, and so is_installed: both files are there    *)
(* and parse.  Nothing compares the certificate with the key.  The files   *)
(* are read one after the other, but for the answer one moment will do: a  *)
(* no is the state at the read that failed, a yes that at the first read,  *)
(* or when save came to write the key - unless two more commands are at    *)
(* the files.  What was read matters to the daemon alone: LoadCa.          *)
Loads == cert \in Ca /\ key \in Ca

(* certutil_path, keytool_path and cacerts_path, in the environment of the *)
(* command, and the directories that nss_profiles finds.                   *)
Certutil(c) == "certutil" \in machine.tools[c]
Keytool(c) == "keytool" \in machine.tools[c]
NssProfiles == machine.profiles

-----------------------------------------------------------------------------
(* The commands. *)

At(c, pc) == cmd[c].pc = pc
Goto(c, pc) == cmd' = [cmd EXCEPT ![c].pc = pc]
Ends(c) == cmd' = [cmd EXCEPT ![c] = NotRunning]

(* The loop over available_stores, in their order. *)
Visit(c, selected) ==
  LET only(s) == IF s \in selected THEN <<s>> ELSE << >> IN
  cmd' = [cmd EXCEPT ![c].pc = "store", ![c].rest = NssProfiles,
            ![c].todo = only("system") \o only("nss") \o only("java")]

Installs(c) == cmd[c].what \in {"install", "force", "trust"}

Ask(c, what) ==
  /\ At(c, "idle") /\ what \in machine.users[c]
  /\ cmd' = [cmd EXCEPT ![c].pc = "check", ![c].what = what]
  /\ overlapped' = (overlapped \/ \E d \in Command : ~At(d, "idle"))
  /\ UNCHANGED <<machine, files, stores, made, daemon, faults>>

(* The first is_installed of each command.  untrust, as uninstall calls it,*)
(* asks again at once.                                                     *)
Check(c) ==
  /\ At(c, "check")
  /\ \/ cmd[c].what = "install" /\ Loads /\ Ends(c)
     \/ cmd[c].what = "install" /\ ~Loads /\ Goto(c, "load")
     \/ cmd[c].what = "force" /\ Goto(c, "load")
     \/ cmd[c].what \in {"uninstall", "trust", "untrust"} /\ ~Loads /\ Ends(c)
     \/ cmd[c].what = "uninstall" /\ Loads /\ Visit(c, Store)
     \/ /\ cmd[c].what \in {"trust", "untrust"} /\ Loads
        /\ \E s \in (SUBSET Store) \ {{}} : Visit(c, s)
  /\ UNCHANGED <<machine, files, stores, made, daemon, faults, overlapped>>

Generate(c) ==
  /\ made < MaxCa
  /\ made' = made + 1
  /\ cmd' = [cmd EXCEPT ![c].pc = "save_cert", ![c].new = made + 1]

(* load_or_generate, for --force as well. *)
LoadOrGenerate(c) ==
  /\ At(c, "load")
  /\ \/ Loads /\ Goto(c, "trust") /\ UNCHANGED made
     \/ ~Loads /\ Generate(c)
  /\ UNCHANGED <<machine, files, stores, daemon, faults, overlapped>>

(* Mutant: a key that is there is not written over. *)
SaveKeepsKey(c) ==
  /\ \/ At(c, "save_cert") /\ cert' = cmd[c].new /\ Goto(c, "save_key") /\ UNCHANGED key
     \/ /\ At(c, "save_key") /\ key' = IF key = None THEN cmd[c].new ELSE key
        /\ Goto(c, "trust") /\ UNCHANGED cert
  /\ UNCHANGED <<machine, stores, made, daemon, faults, overlapped>>

(* save: the certificate and then the key, each written in place ... *)
Save(c) ==
  /\ \/ At(c, "save_cert") /\ cert' = cmd[c].new /\ Goto(c, "save_key") /\ UNCHANGED key
     \/ At(c, "save_key") /\ key' = cmd[c].new /\ Goto(c, "trust") /\ UNCHANGED cert
  /\ UNCHANGED <<machine, stores, made, daemon, faults, overlapped>>

(* ... and a write that does not end well leaves the old file or a torn    *)
(* one.                                                                    *)
SaveFails(c) ==
  /\ Fault
  /\ \/ At(c, "save_cert") /\ cert' \in {cert, Torn} /\ UNCHANGED key
     \/ At(c, "save_key") /\ key' \in {key, Torn} /\ UNCHANGED cert
  /\ Ends(c)
  /\ UNCHANGED <<machine, stores, made, daemon, overlapped>>

(* install goes on with trust, in all stores. *)
InstallTrusts(c) ==
  /\ At(c, "trust")
  /\ \/ Loads /\ Visit(c, Store)
     \/ ~Loads /\ Ends(c)
  /\ UNCHANGED <<machine, files, stores, made, daemon, faults, overlapped>>

AfterStores(c) ==
  /\ At(c, "store") /\ cmd[c].todo = << >>
  /\ IF cmd[c].what = "uninstall" THEN Goto(c, "remove_cert") ELSE Ends(c)
  /\ UNCHANGED <<machine, files, stores, made, daemon, faults, overlapped>>

(* Ca::uninstall: one file, then the other; it fails where one is missing. *)
RemoveFiles(c) ==
  /\ \/ /\ At(c, "remove_cert") /\ cert' = None /\ UNCHANGED key
        /\ IF cert = None THEN Ends(c) ELSE Goto(c, "remove_key")
     \/ At(c, "remove_key") /\ key' = None /\ UNCHANGED cert /\ Ends(c)
  /\ UNCHANGED <<machine, stores, made, daemon, faults, overlapped>>

(* The command is killed, or an operation between two steps fails. *)
Dies(c) ==
  /\ ~At(c, "idle")
  /\ Fault
  /\ Ends(c)
  /\ UNCHANGED <<machine, files, stores, made, daemon, overlapped>>

-----------------------------------------------------------------------------
(* The stores.  Whatever a store answers, the loop prints it and goes on.  *)

InStore(c, s) == At(c, "store") /\ cmd[c].todo # << >> /\ Head(cmd[c].todo) = s

Tell(c, outcome) ==
  /\ told' = [told EXCEPT ![Head(cmd[c].todo)] = outcome]
  /\ cmd' = [cmd EXCEPT ![c].pc = "store", ![c].todo = Tail(@), ![c].ok = FALSE]

Untrusting(c, s) == InStore(c, s) /\ ~Installs(c)
Trusting(c, s) == InStore(c, s) /\ Installs(c)

SetTrusted(p, cas) == trusted' = [trusted EXCEPT ![p] = cas]

(* A tool that is given the certificate fails on one that is not there or  *)
(* does not parse.                                                         *)
ToolFails == (cert \notin Ca /\ NoFault) \/ Fault

(* install_impl of macOS, as of Windows: one call of the tool. *)
KeychainInstall(c) ==
  /\ \/ /\ cert \in Ca /\ SetTrusted("system", trusted["system"] \cup {cert})
        /\ Tell(c, "trusted") /\ NoFault
     \/ ToolFails /\ Tell(c, "failed") /\ UNCHANGED trusted
  /\ UNCHANGED anchor

(* install_impl, up to the tool that takes the copy up. *)
SystemInstall(c) ==
  /\ Trusting(c, "system")
  /\ CASE machine.platform = "other" ->
            Tell(c, "failed") /\ UNCHANGED <<anchor, trusted>> /\ NoFault
       [] machine.platform = "keychain" -> KeychainInstall(c)
       [] OTHER ->
            /\ \/ cert # None /\ anchor' = cert /\ Goto(c, "update") /\ NoFault
                  /\ UNCHANGED told
               \/ cert = None /\ Tell(c, "failed") /\ NoFault /\ UNCHANGED anchor
               \/ Fault /\ anchor' \in {anchor, Torn} /\ Tell(c, "failed")
            /\ UNCHANGED trusted
  /\ UNCHANGED <<machine, files, made, daemon, overlapped>>

(* update-ca-certificates makes the bundle from what is there, `trust      *)
(* anchor --store` adds the CA's own file.                                 *)
SystemInstallUpdate(c) ==
  /\ At(c, "update") /\ Installs(c)
  /\ \/ /\ SetTrusted("system",
             IF machine.platform = "distro" THEN {anchor} \cap Ca
             ELSE trusted["system"] \cup ({cert} \cap Ca))
        /\ Tell(c, "trusted") /\ NoFault
     \/ Fault /\ Tell(c, "failed") /\ UNCHANGED trusted
  /\ UNCHANGED <<machine, files, anchor, made, daemon, overlapped>>

(* It is given the certificate's file, and fails on a CA it does not have. *)
KeychainUninstall(c) ==
  /\ \/ /\ cert \in Ca /\ SetTrusted("system", trusted["system"] \ {cert})
        /\ Tell(c, "untrusted") /\ NoFault
     \/ /\ ToolFails \/ (cert \notin trusted["system"] /\ NoFault)
        /\ Tell(c, "failed") /\ UNCHANGED trusted
  /\ UNCHANGED anchor

SystemUninstall(c) ==
  /\ Untrusting(c, "system")
  /\ CASE machine.platform = "other" ->
            Tell(c, "untrusted") /\ UNCHANGED <<anchor, trusted>> /\ NoFault
       [] machine.platform = "keychain" -> KeychainUninstall(c)
       [] OTHER ->
            /\ \/ anchor = None /\ Tell(c, "untrusted") /\ NoFault /\ UNCHANGED anchor
               \/ /\ anchor # None /\ anchor' = None /\ Goto(c, "update") /\ NoFault
                  /\ UNCHANGED told
               \/ anchor # None /\ Fault /\ Tell(c, "failed") /\ UNCHANGED anchor
            /\ UNCHANGED trusted
  /\ UNCHANGED <<machine, files, made, daemon, overlapped>>

(* Only a tool that cannot be started is an error.  `trust anchor          *)
(* --remove` is given the copy that was just removed, and finds nothing.   *)
SystemUninstallUpdate(c) ==
  /\ At(c, "update") /\ ~Installs(c)
  /\ \/ /\ IF machine.platform = "distro"
           THEN SetTrusted("system", {anchor} \cap Ca) ELSE UNCHANGED trusted
        /\ Tell(c, "untrusted") /\ NoFault
     \/ Fault /\ Tell(c, "untrusted") /\ UNCHANGED trusted
     \/ Fault /\ Tell(c, "failed") /\ UNCHANGED trusted
  /\ UNCHANGED <<machine, files, anchor, made, daemon, overlapped>>

(* No certutil, or no profile to put the CA in. *)
NssNothingToDo(c) ==
  /\ InStore(c, "nss")
  /\ ~Certutil(c) \/ NssProfiles = {}
  /\ Tell(c, IF ~Installs(c) THEN "untrusted"
             ELSE IF Certutil(c) THEN "trusted" ELSE "failed")
  /\ UNCHANGED <<machine, files, anchor, trusted, made, daemon, faults, overlapped>>

(* One profile is done: after the last the store answers, until then what  *)
(* was said of it before no longer counts.                                 *)
NssNext(c, p, ok, answer) ==
  IF cmd[c].rest = {p} THEN Tell(c, answer)
  ELSE /\ cmd' = [cmd EXCEPT ![c].rest = @ \ {p}, ![c].ok = ok]
       /\ told' = [told EXCEPT !["nss"] = "nothing"]

(* A profile where it fails is passed over; one that took the CA is        *)
(* enough.  A tool that does not start ends the loop.                      *)
NssInstall(c, p) ==
  /\ Trusting(c, "nss") /\ Certutil(c) /\ p \in cmd[c].rest
  /\ \/ /\ cert \in Ca /\ SetTrusted(p, trusted[p] \cup {cert}) /\ NoFault
        /\ NssNext(c, p, TRUE, "trusted")
     \/ /\ ToolFails /\ UNCHANGED trusted
        /\ NssNext(c, p, cmd[c].ok, IF cmd[c].ok THEN "trusted" ELSE "failed")
     \/ Fault /\ Tell(c, "failed") /\ UNCHANGED trusted
  /\ UNCHANGED <<machine, files, anchor, made, daemon, overlapped>>

(* certutil -D takes one certificate of the nickname away; a profile that  *)
(* has none, or does not verify it, is passed over, and so is a failure.   *)
NssUninstall(c, p) ==
  /\ Untrusting(c, "nss") /\ Certutil(c) /\ p \in cmd[c].rest
  /\ \/ /\ \/ trusted[p] = {} /\ UNCHANGED trusted /\ NoFault
           \/ \E x \in trusted[p] : SetTrusted(p, trusted[p] \ {x}) /\ NoFault
           \/ trusted[p] # {} /\ Fault /\ UNCHANGED trusted
        /\ NssNext(c, p, FALSE, "untrusted")
     \/ Fault /\ Tell(c, "failed") /\ UNCHANGED trusted
  /\ UNCHANGED <<machine, files, anchor, made, daemon, overlapped>>

(* Mutant: keytool's exit status is not looked at. *)
JavaInstallUnchecked(c) ==
  /\ Trusting(c, "java")
  /\ SetTrusted("java", IF trusted["java"] = {} /\ Keytool(c)
                        THEN {cert} \cap Ca ELSE trusted["java"])
  /\ Tell(c, IF Keytool(c) THEN "trusted" ELSE "failed")
  /\ NoFault
  /\ UNCHANGED <<machine, files, anchor, made, daemon, overlapped>>

(* keytool does not import over an alias that exists. *)
JavaInstall(c) ==
  /\ Trusting(c, "java")
  /\ \/ /\ Keytool(c) /\ trusted["java"] = {} /\ cert \in Ca
        /\ SetTrusted("java", {cert}) /\ Tell(c, "trusted") /\ NoFault
     \/ /\ \/ ToolFails
           \/ (~Keytool(c) \/ trusted["java"] # {}) /\ NoFault
        /\ Tell(c, "failed") /\ UNCHANGED trusted
  /\ UNCHANGED <<machine, files, anchor, made, daemon, overlapped>>

(* Mutant: the alias is taken to be there no more. *)
JavaUninstallNever(c) ==
  /\ Untrusting(c, "java")
  /\ Tell(c, "untrusted")
  /\ UNCHANGED <<machine, files, anchor, trusted, made, daemon, faults, overlapped>>

(* JavaStore::is_installed *)
HasAlias(c) == Keytool(c) /\ trusted["java"] # {}

(* A list that fails says that the alias is not there. *)
JavaUninstall(c) ==
  /\ Untrusting(c, "java")
  /\ \/ ~HasAlias(c) /\ Tell(c, "untrusted") /\ NoFault /\ UNCHANGED trusted
     \/ /\ HasAlias(c)
        /\ \/ SetTrusted("java", {}) /\ Tell(c, "untrusted") /\ NoFault
           \/ \E o \in {"untrusted", "failed"} : Fault /\ Tell(c, o) /\ UNCHANGED trusted
  /\ UNCHANGED <<machine, files, anchor, made, daemon, overlapped>>

StoreStep(c) ==
  \/ SystemInstall(c) \/ SystemInstallUpdate(c)
  \/ SystemUninstall(c) \/ SystemUninstallUpdate(c)
  \/ NssNothingToDo(c) \/ \E p \in Profile : NssInstall(c, p) \/ NssUninstall(c, p)
  \/ JavaInstall(c) \/ JavaUninstall(c)

-----------------------------------------------------------------------------
(* The daemon reads the files at its start, the certificate and then the   *)
(* key, and the proxy asks is_installed before it listens on :443.  (load  *)
(* tests first that both exist; a file that does not fails its read, too.) *)

(* Mutant: the key is not parsed. *)
LoadCaUnchecked ==
  /\ \/ /\ daemon.stage = "down" /\ cert \in Ca
        /\ daemon' = [NoDaemon EXCEPT !.stage = "reading",
                                      !.ca = [cert |-> cert, key |-> None]]
     \/ /\ daemon.stage = "reading"
        /\ daemon' = [daemon EXCEPT !.stage = "loaded", !.ca.key = key,
                                    !.raced = (cert # daemon.ca.cert)]
  /\ UNCHANGED <<machine, files, stores, made, cmd, faults, overlapped>>

LoadCa ==
  /\ \/ /\ daemon.stage = "down" /\ cert \in Ca
        /\ daemon' = [NoDaemon EXCEPT !.stage = "reading",
                                      !.ca = [cert |-> cert, key |-> None]]
     \/ /\ daemon.stage = "reading" /\ key \in Ca
        /\ daemon' = [daemon EXCEPT !.stage = "loaded", !.ca.key = key,
                                    !.raced = (cert # daemon.ca.cert)]
     \/ /\ \/ daemon.stage = "down" /\ cert \notin Ca
           \/ daemon.stage = "reading" /\ key \notin Ca
        /\ daemon' = [NoDaemon EXCEPT !.stage = "loaded"]
  /\ UNCHANGED <<machine, files, stores, made, cmd, faults, overlapped>>

(* Mutant: the key is read when HTTPS starts. *)
ServeHttpsReadsKey ==
  /\ daemon.stage = "loaded"
  /\ daemon' = [daemon EXCEPT !.stage = "up", !.https = Loads,
                  !.ca = IF @ # None /\ Loads THEN [@ EXCEPT !.key = key] ELSE @]
  /\ UNCHANGED <<machine, files, stores, made, cmd, faults, overlapped>>

ServeHttps ==
  /\ daemon.stage = "loaded"
  /\ daemon' = [daemon EXCEPT !.stage = "up", !.https = Loads]
  /\ UNCHANGED <<machine, files, stores, made, cmd, faults, overlapped>>

DaemonEnds ==
  /\ daemon.stage # "down"
  /\ daemon' = NoDaemon
  /\ UNCHANGED <<machine, files, stores, made, cmd, faults, overlapped>>

CommandStep(c) ==
  \/ Check(c) \/ LoadOrGenerate(c) \/ Save(c) \/ SaveFails(c) \/ InstallTrusts(c)
  \/ StoreStep(c) \/ AfterStores(c) \/ RemoveFiles(c) \/ Dies(c)

Next ==
  \/ \E c \in Command :
       \/ \E what \in What : Ask(c, what)
       \/ CommandStep(c)
  \/ LoadCa \/ ServeHttps \/ DaemonEnds

Spec == Init /\ [][Next]_vars

-----------------------------------------------------------------------------

Content == Ca \cup {None, Torn}

(* The files, the stores, the commands and the daemon. *)
TypeOK ==
  /\ machine \in Machine
  /\ {cert, key, anchor} \subseteq Content
  /\ trusted \in [Place -> SUBSET Ca]
  /\ made \in 0..MaxCa /\ faults \in 0..MaxFaults /\ overlapped \in BOOLEAN
  /\ cmd \in [Command ->
       [pc : {"idle", "check", "load", "save_cert", "save_key", "trust", "store",
              "update", "remove_cert", "remove_key"},
        what : What \cup {"none"},
        new : Ca \cup {None}, todo : Seq(Store), rest : SUBSET Profile,
        ok : BOOLEAN]]
  /\ told \in [Store -> {"nothing", "trusted", "untrusted", "failed"}]
  /\ daemon \in [stage : {"down", "reading", "loaded", "up"}, https : BOOLEAN,
                 ca : [cert : Ca, key : Ca \cup {None}] \cup {None},
                 raced : BOOLEAN]

(* One failure leaves no certificate with the key of another CA.  Two do:  *)
(* uninstall removes and save writes the certificate first (ca.rs:148,     *)
(* 155), so the one may leave a key alone and the other put a new          *)
(* certificate beside it.  Two installs at once do it without a failure.   *)
(* is_installed then says yes, and neither install nor --force repairs it. *)
PairMatches ==
  /\ Loads
  /\ faults <= 1 /\ ~overlapped
  /\ \A c \in Command : ~At(c, "save_key")
  => cert = key

(* The places of a store that can hold the CA here. *)
Holds(s, x) ==
  IF s = "nss" THEN machine.profiles = {} \/ \E p \in machine.profiles : x \in trusted[p]
  ELSE x \in trusted[s]

(* "Trusted in ... store." (cert.rs:99) is true of the CA on disk until    *)
(* the user is told otherwise, whatever failed meanwhile and whichever old *)
(* CA a store was left with - for NSS of one profile at least (nss.rs:79), *)
(* and of none where there are none (nss.rs:43).                           *)
TrustedIsTrue ==
  \A s \in Store : told[s] = "trusted" /\ ~overlapped => Holds(s, cert)

(* Commands may be run with different PATHs and JAVA_HOMEs. *)
SameTools == \A c, d \in Command : machine.tools[c] = machine.tools[d]

(* When no command runs, no store trusts any CA but the one on disk: as    *)
(* long as nothing fails and every command finds the same tools, uninstall *)
(* (cert.rs:44) leaves none behind that untrust would refuse to take away  *)
(* afterwards.  On Arch it does, and so does an uninstall without the tool *)
(* that put it there, which reports success (java.rs:76, nss.rs:85).       *)
NoOrphans ==
  /\ \A c \in Command : At(c, "idle")
  /\ faults = 0 /\ ~overlapped /\ machine.platform # "arch" /\ SameTools
  => \A p \in Place : trusted[p] \subseteq {cert}

(* "Browsers see a valid certificate" (README.md:324): as long as nothing  *)
(* fails, a daemon that has a CA and serves HTTPS has a matching pair, and *)
(* one the stores trust - if the CA is still the one on disk; a daemon     *)
(* keeps the one it started with (runner.rs:16).  One that read the        *)
(* certificate before an uninstall and the key after the next install      *)
(* (ca.rs:97, 99) is left with two halves; after one failure a daemon may  *)
(* even read, between the two writes of save, a pair that is on disk no    *)
(* more when save is done.                                                 *)
BrowsersAccept ==
  daemon.https /\ daemon.ca # None /\ ~daemon.raced /\ faults = 0 /\ ~overlapped =>
    /\ daemon.ca.cert = daemon.ca.key
    /\ daemon.ca.cert = cert =>
         \A s \in Store : told[s] = "trusted" => Holds(s, daemon.ca.cert)
=============================================================================
