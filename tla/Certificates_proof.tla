------------------------- MODULE Certificates_proof -------------------------
(***************************************************************************)
(* Proof that the CA's files, the trust stores and what the user is told   *)
(* of them stay in step, for any machines, commands and profiles and any   *)
(* number of CAs.                                                          *)
(***************************************************************************)
EXTENDS Certificates, TLAPS

(* Commands that do not overlap are alone. *)
Alone ==
  ~overlapped => \A c, d \in Command : ~At(c, "idle") /\ ~At(d, "idle") => c = d

(* What is on disk has been generated. *)
Numbered == \A x \in {cert, key} : x \in Ca => x <= made

(* What a command knows whatever the others do. *)
Local(c) ==
  /\ cmd[c].pc \in {"save_cert", "save_key"} => cmd[c].new \in Ca /\ cmd[c].new <= made
  /\ cmd[c].pc \in {"remove_cert", "remove_key"} => cmd[c].what = "uninstall"
  /\ cmd[c].pc = "remove_cert" => cmd[c].todo = << >>
  /\ cmd[c].pc = "update" =>
       /\ cmd[c].todo # << >> /\ Head(cmd[c].todo) = "system"
       /\ machine.platform \in {"distro", "arch"}
  /\ cmd[c].ok => InStore(c, "nss") /\ Installs(c)
  /\ cmd[c].rest \subseteq machine.profiles

InTodo(c, s) == \E i \in 1..Len(cmd[c].todo) : cmd[c].todo[i] = s

(* What it knows as long as it is alone: load_or_generate's answer and the *)
(* first file it wrote; that there is a CA, the copy it made, the profile  *)
(* that took the CA; and that uninstall has dealt with the stores it has   *)
(* been to.                                                                *)
Knows(c) ==
  /\ cmd[c].pc = "save_cert" => ~Loads /\ key # cmd[c].new
  /\ cmd[c].pc = "save_key" => cert = cmd[c].new /\ key # cmd[c].new
  /\ cmd[c].pc \in {"store", "update", "remove_cert"} => Loads
  /\ cmd[c].pc = "remove_key" => cert = None
  /\ cmd[c].pc = "update" => anchor = IF Installs(c) THEN cert ELSE None
  /\ cmd[c].ok => \E p \in machine.profiles : cert \in trusted[p]
  /\ cmd[c].pc \in {"store", "update", "remove_cert"} /\ cmd[c].what = "uninstall" =>
       \A s \in Store : told[s] = "trusted" => InTodo(c, s)

(* A store that is told to trust has the CA, and there is one. *)
ToldTrue ==
  ~overlapped => \A s \in Store : told[s] = "trusted" =>
    Holds(s, cert) /\ Loads /\ \A c \in Command : ~At(c, "save_key")

(* Before the first failure a key is never without a certificate but while *)
(* uninstall removes them, nor is there one when save comes to it.         *)
KeyLast ==
  faults = 0 /\ ~overlapped =>
    /\ key \in Ca => cert \in Ca \/ \E c \in Command : At(c, "remove_key")
    /\ \A c \in Command : At(c, "save_key") => key \notin Ca

(* Between its two reads the daemon has a certificate and serves nothing;  *)
(* what it loaded without a change in between belongs together.            *)
LoadedPair ==
  /\ daemon.stage = "reading" =>
       daemon.ca \in [cert : Ca, key : {None}] /\ ~daemon.https
  /\ /\ faults = 0 /\ ~overlapped /\ daemon.ca # None /\ ~daemon.raced
     /\ daemon.stage # "reading"
     => daemon.ca.cert = daemon.ca.key

(* No command finds the tool. *)
Lacks(tool) == \A c \in Command : tool \notin machine.tools[c]

(* Places out of reach never hold a CA. *)
OutOfReach ==
  /\ machine.platform = "other" => trusted["system"] = {}
  /\ Lacks("keytool") => trusted["java"] = {}
  /\ \A p \in Profile :
       Lacks("certutil") \/ p \notin machine.profiles => trusted[p] = {}

(* Uninstall can undo what install did. *)
Tidy == machine.platform # "arch" /\ SameTools

Of(s) == IF s = "nss" THEN Profile ELSE {s}

(* Before the first failure no place holds any CA but the one on disk; a   *)
(* bundle has no CA its directory lacks, but while untrust makes the new   *)
(* one; and uninstall has cleared the stores and profiles it has been to.  *)
Cleared(c) ==
  cmd[c].pc \in {"store", "update", "remove_cert"} /\ cmd[c].what = "uninstall" =>
    /\ \A s \in Store : ~InTodo(c, s) => \A p \in Of(s) : trusted[p] = {}
    /\ \A p \in Profile \ cmd[c].rest : trusted[p] = {}

Clean ==
  faults = 0 /\ ~overlapped /\ Tidy =>
    /\ \A p \in Place : trusted[p] \subseteq {cert}
    /\ ~Loads => \A p \in Place : trusted[p] = {}
    /\ machine.platform = "distro" /\ anchor = None =>
         trusted["system"] = {} \/ \E c \in Command : At(c, "update") /\ ~Installs(c)
    /\ \A c \in Command : Cleared(c)

Inv ==
  /\ TypeOK /\ Alone /\ Numbered /\ OutOfReach
  /\ \A c \in Command : Local(c) /\ (~overlapped => Knows(c))
  /\ ToldTrue /\ PairMatches /\ KeyLast /\ LoadedPair /\ Clean

-----------------------------------------------------------------------------
(* What the helpers change. *)

CmdType ==
  [pc : {"idle", "check", "load", "save_cert", "save_key", "trust", "store",
         "update", "remove_cert", "remove_key"},
   what : What \cup {"none"}, new : Ca \cup {None}, todo : Seq(Store),
   rest : SUBSET Profile, ok : BOOLEAN]

DaemonType ==
  [stage : {"down", "reading", "loaded", "up"}, https : BOOLEAN,
   ca : [cert : Ca, key : Ca \cup {None}] \cup {None}, raced : BOOLEAN]

ToldType == {"nothing", "trusted", "untrusted", "failed"}

LEMMA TypeOKIs ==
  TypeOK <=> /\ machine \in Machine
             /\ cert \in Content /\ key \in Content /\ anchor \in Content
             /\ trusted \in [Place -> SUBSET Ca]
             /\ made \in 0..MaxCa /\ faults \in 0..MaxFaults
             /\ overlapped \in BOOLEAN
             /\ cmd \in [Command -> CmdType]
             /\ told \in [Store -> ToldType]
             /\ daemon \in DaemonType
BY DEF TypeOK, CmdType, DaemonType, ToldType

(* The record of one command changes, to these fields. *)
CmdBecomes(c, pc, what, new, todo, rest, ok) ==
  /\ cmd' \in [Command -> CmdType]
  /\ \A d \in Command \ {c} : cmd'[d] = cmd[d]
  /\ cmd'[c].pc = pc /\ cmd'[c].what = what /\ cmd'[c].new = new
  /\ cmd'[c].todo = todo /\ cmd'[c].rest = rest /\ cmd'[c].ok = ok

LEMMA CmdReplaced ==
  ASSUME cmd \in [Command -> CmdType], NEW c \in Command, NEW r \in CmdType,
         cmd' = [cmd EXCEPT ![c] = r]
  PROVE  CmdBecomes(c, r.pc, r.what, r.new, r.todo, r.rest, r.ok)
BY DEF CmdBecomes, CmdType

LEMMA NotRunningLemma ==
  /\ NotRunning \in CmdType /\ NotRunning.pc = "idle" /\ NotRunning.what = "none"
  /\ NotRunning.new = None /\ NotRunning.todo = << >> /\ NotRunning.rest = {}
  /\ NotRunning.ok = FALSE
BY DEF NotRunning, CmdType

LEMMA EndsLemma ==
  ASSUME cmd \in [Command -> CmdType], NEW c \in Command, Ends(c)
  PROVE  CmdBecomes(c, "idle", "none", None, << >>, {}, FALSE)
<1>1. CmdBecomes(c, NotRunning.pc, NotRunning.what, NotRunning.new, NotRunning.todo,
                 NotRunning.rest, NotRunning.ok)
  BY NotRunningLemma, CmdReplaced DEF Ends
<1> QED  BY <1>1, NotRunningLemma, Zenon

LEMMA GotoLemma ==
  ASSUME cmd \in [Command -> CmdType], NEW c \in Command,
         NEW pc \in {"load", "save_key", "trust", "update", "remove_cert",
                     "remove_key"},
         Goto(c, pc)
  PROVE  CmdBecomes(c, pc, cmd[c].what, cmd[c].new, cmd[c].todo, cmd[c].rest,
                    cmd[c].ok)
BY DEF Goto, CmdBecomes, CmdType

(* The stores a command visits are the selected ones. *)
LEMMA VisitLemma ==
  ASSUME cmd \in [Command -> CmdType], machine \in Machine, NEW c \in Command,
         NEW selected \in SUBSET Store, Visit(c, selected)
  PROVE  \E todo \in Seq(Store) :
           /\ CmdBecomes(c, "store", cmd[c].what, cmd[c].new, todo,
                         machine.profiles, cmd[c].ok)
           /\ selected = Store =>
                \A s \in Store : \E i \in 1..Len(todo) : todo[i] = s
<1> DEFINE only(s) == IF s \in selected THEN <<s>> ELSE << >>
           todo == only("system") \o only("nss") \o only("java")
           r1 == [cmd[c] EXCEPT !.pc = "store"]
           r2 == [r1 EXCEPT !.rest = machine.profiles]
           r3 == [r2 EXCEPT !.todo = todo]
<1>1. todo \in Seq(Store)
  <2>1. \A s \in Store : only(s) \in Seq(Store)
    OBVIOUS
  <2> HIDE DEF only
  <2> QED  BY <2>1 DEF Store
<1>2. ASSUME selected = Store
      PROVE  \A s \in Store : \E i \in 1..Len(todo) : todo[i] = s
  <2>1. /\ only("system") = <<"system">> /\ only("nss") = <<"nss">>
        /\ only("java") = <<"java">>
    BY <1>2 DEF Store
  <2>2. todo = (<<"system">> \o <<"nss">>) \o <<"java">>
    BY <2>1
  <2> HIDE DEF todo
  <2>3. Len(todo) = 3 /\ todo[1] = "system" /\ todo[2] = "nss" /\ todo[3] = "java"
    BY <2>2
  <2> QED  BY <2>3 DEF Store
<1>3. cmd' = [cmd EXCEPT ![c] = r3]
  BY DEF Visit, NssProfiles
<1> HIDE DEF todo
<1>4. machine.profiles \in SUBSET Profile
  BY MachineAssumption
<1>5. /\ r1 \in CmdType /\ r1.pc = "store" /\ r1.what = cmd[c].what
      /\ r1.new = cmd[c].new /\ r1.ok = cmd[c].ok
  BY DEF CmdType
<1>6. /\ r2 \in CmdType /\ r2.pc = "store" /\ r2.what = cmd[c].what
      /\ r2.new = cmd[c].new /\ r2.ok = cmd[c].ok /\ r2.rest = machine.profiles
  <2> HIDE DEF r1
  <2> QED  BY <1>4, <1>5 DEF CmdType
<1>7. /\ r3 \in CmdType /\ r3.pc = "store" /\ r3.what = cmd[c].what
      /\ r3.new = cmd[c].new /\ r3.ok = cmd[c].ok /\ r3.rest = machine.profiles
      /\ r3.todo = todo
  <2> HIDE DEF r2
  <2> QED  BY <1>1, <1>6 DEF CmdType
<1> HIDE DEF r3
<1>8. CmdBecomes(c, r3.pc, r3.what, r3.new, r3.todo, r3.rest, r3.ok)
  BY <1>3, <1>7, CmdReplaced
<1>9. CmdBecomes(c, "store", cmd[c].what, cmd[c].new, todo, machine.profiles, cmd[c].ok)
  BY <1>7, <1>8, Zenon
<1> QED  BY <1>1, <1>2, <1>9

(* A store has answered. *)
Answered(c, o) ==
  /\ CmdBecomes(c, "store", cmd[c].what, cmd[c].new, Tail(cmd[c].todo),
                cmd[c].rest, FALSE)
  /\ told' \in [Store -> ToldType]
  /\ told' = [told EXCEPT ![Head(cmd[c].todo)] = o]

LEMMA TellLemma ==
  ASSUME cmd \in [Command -> CmdType], told \in [Store -> ToldType],
         NEW c \in Command, NEW o \in {"trusted", "untrusted", "failed"},
         cmd[c].todo # << >>, Tell(c, o)
  PROVE  Answered(c, o)
<1> DEFINE r1 == [cmd[c] EXCEPT !.pc = "store"]
           r2 == [r1 EXCEPT !.todo = Tail(r1.todo)]
           r3 == [r2 EXCEPT !.ok = FALSE]
<1>1. /\ r1 \in CmdType /\ r1.pc = "store" /\ r1.what = cmd[c].what
      /\ r1.new = cmd[c].new /\ r1.todo = cmd[c].todo /\ r1.rest = cmd[c].rest
  BY DEF CmdType
<1>2. Tail(cmd[c].todo) \in Seq(Store)
  BY DEF CmdType
<1>3. /\ r2 \in CmdType /\ r2.pc = "store" /\ r2.what = cmd[c].what
      /\ r2.new = cmd[c].new /\ r2.todo = Tail(cmd[c].todo) /\ r2.rest = cmd[c].rest
  <2> HIDE DEF r1
  <2> QED  BY <1>1, <1>2 DEF CmdType
<1>4. /\ r3 \in CmdType /\ r3.pc = "store" /\ r3.what = cmd[c].what
      /\ r3.new = cmd[c].new /\ r3.todo = Tail(cmd[c].todo) /\ r3.rest = cmd[c].rest
      /\ r3.ok = FALSE
  <2> HIDE DEF r2
  <2> QED  BY <1>3 DEF CmdType
<1>5. cmd' = [cmd EXCEPT ![c] = r3]
  BY DEF Tell
<1> HIDE DEF r3
<1>6. CmdBecomes(c, r3.pc, r3.what, r3.new, r3.todo, r3.rest, r3.ok)
  BY <1>4, <1>5, CmdReplaced
<1>7. CmdBecomes(c, "store", cmd[c].what, cmd[c].new, Tail(cmd[c].todo),
                 cmd[c].rest, FALSE)
  BY <1>4, <1>6, Zenon
<1>8. told' = [told EXCEPT ![Head(cmd[c].todo)] = o]
  BY DEF Tell
<1>9. told' \in [Store -> ToldType]
  BY <1>8 DEF ToldType
<1> QED  BY <1>7, <1>8, <1>9 DEF Answered

LEMMA FaultLemma ==
  ASSUME faults \in 0..MaxFaults, Fault \/ NoFault
  PROVE  /\ faults' \in 0..MaxFaults /\ faults <= faults'
         /\ Fault => faults' # 0 /\ faults < faults'
         /\ faults' = 0 => faults = 0 /\ ~Fault
BY BoundsAssumption DEF Fault, NoFault

-----------------------------------------------------------------------------
(* Steps that change only the command. *)

(* The other commands notice nothing, or are not there. *)
LEMMA Others ==
  ASSUME Inv, NEW c \in Command, ~At(c, "idle"), made' \in made..MaxCa,
         cmd' \in [Command -> CmdType],
         \A d \in Command \ {c} : cmd'[d] = cmd[d],
         UNCHANGED <<machine, overlapped>>
  PROVE  /\ Alone'
         /\ \A d \in Command \ {c} :
              /\ Local(d)'
              /\ ~overlapped => /\ At(d, "idle") /\ At(d, "idle")'
                                /\ Knows(d)' /\ Cleared(d)'
<1>1. TypeOK /\ made \in 0..MaxCa /\ cmd \in [Command -> CmdType]
  BY TypeOKIs DEF Inv
<1>2. Alone'
  BY DEF Inv, Alone, At
<1>3. ASSUME NEW d \in Command \ {c}
      PROVE  Local(d)'
  <2>1. cmd'[d] = cmd[d] /\ cmd[d] \in CmdType /\ Local(d)
    BY <1>1 DEF Inv
  <2>2. cmd[d].new \in Ca /\ cmd[d].new <= made => cmd[d].new <= made'
    BY <1>1, BoundsAssumption DEF Ca
  <2> QED  BY <2>1, <2>2 DEF Local, InStore, At, Installs
<1>4. ASSUME NEW d \in Command \ {c}, ~overlapped
      PROVE  At(d, "idle") /\ At(d, "idle")' /\ Knows(d)' /\ Cleared(d)'
  <2>1. cmd'[d] = cmd[d] /\ cmd[d] \in CmdType /\ Local(d)
    BY <1>1 DEF Inv
  <2>2. At(d, "idle") /\ At(d, "idle")'
    BY <1>4, <2>1 DEF Inv, Alone, At
  <2>3. ~cmd[d].ok
    BY <2>1, <2>2 DEF Local, InStore, At
  <2> QED  BY <2>1, <2>2, <2>3 DEF Knows, Cleared, At
<1> QED  BY <1>2, <1>3, <1>4

LEMMA QuietKeepsInv ==
  ASSUME Inv, NEW c \in Command, ~At(c, "idle"), made' \in made..MaxCa,
         cmd' \in [Command -> CmdType],
         \A d \in Command \ {c} : cmd'[d] = cmd[d],
         UNCHANGED <<machine, files, stores, daemon, overlapped>>,
         Fault \/ NoFault,
         cmd[c].pc \in {"save_key", "remove_key", "update"} => Fault,
         cmd'[c].pc # "save_key",
         Local(c)', ~overlapped => Knows(c)',
         faults' = 0 /\ ~overlapped /\ Tidy => Cleared(c)'
  PROVE  Inv'
<1>0. /\ TypeOK /\ made \in 0..MaxCa /\ cmd \in [Command -> CmdType]
      /\ faults \in 0..MaxFaults
      /\ UNCHANGED <<machine, cert, key, anchor, trusted, told, daemon, overlapped>>
      /\ Numbered /\ ToldTrue /\ PairMatches /\ KeyLast /\ LoadedPair /\ Clean
      /\ OutOfReach
  BY TypeOKIs DEF Inv, files, stores
<1>1. /\ Alone' /\ \A d \in Command \ {c} : Local(d)' /\ (~overlapped => Knows(d)')
      /\ ~overlapped => \A d \in Command \ {c} : Cleared(d)' /\ At(d, "idle")
  BY Others
<1>2. /\ faults' \in 0..MaxFaults /\ faults <= faults'
      /\ Fault => faults' # 0 /\ faults < faults'
      /\ faults' = 0 => faults = 0 /\ ~Fault
  BY <1>0, FaultLemma
<1>3. TypeOK'
  <2>1. made' \in 0..MaxCa
    BY <1>0, BoundsAssumption
  <2> QED  BY <1>0, <1>2, <2>1 DEF TypeOK, CmdType, Content
<1>4. Numbered' /\ OutOfReach'
  BY <1>0, BoundsAssumption DEF Numbered, OutOfReach, Lacks, Ca
<1>5. ToldTrue'
  BY <1>0 DEF ToldTrue, Holds, Loads, At
<1>6. PairMatches'
  <2> SUFFICES ASSUME Loads, faults' <= 1, ~overlapped,
                      \A d \in Command : ~At(d, "save_key")'
               PROVE  cert = key
    BY <1>0 DEF PairMatches, Loads
  <2>1. faults <= 1
    BY <1>0, <1>2
  <2>2. CASE At(c, "save_key")
    <3>1. faults = 0
      BY <1>0, <1>2, <2>2 DEF At
    <3> QED  BY <1>0, <2>2, <3>1 DEF KeyLast, Loads
  <2>3. CASE ~At(c, "save_key")
    BY <1>0, <2>1, <2>3 DEF PairMatches, At
  <2> QED  BY <2>2, <2>3
<1>7. KeyLast'
  BY <1>0, <1>2 DEF KeyLast, At
<1>8. LoadedPair'
  BY <1>0, <1>2 DEF LoadedPair
<1>9. Clean'
  <2> SUFFICES ASSUME faults' = 0, ~overlapped, Tidy
               PROVE  /\ \A p \in Place : trusted[p] \subseteq {cert}
                      /\ ~Loads => \A p \in Place : trusted[p] = {}
                      /\ machine.platform = "distro" /\ anchor = None =>
                           \/ trusted["system"] = {}
                           \/ \E d \in Command : At(d, "update")' /\ ~Installs(d)'
                      /\ \A d \in Command : Cleared(d)'
    BY <1>0 DEF Clean, Loads, Tidy, SameTools
  <2>1. \A d \in Command : Cleared(d)'
    BY <1>1, <1>2
  <2>2. \A d \in Command : ~At(d, "update")
    BY <1>1, <1>2 DEF At
  <2> QED  BY <1>0, <1>2, <2>1, <2>2 DEF Clean
<1> QED
  BY <1>0, <1>1, <1>3, <1>4, <1>5, <1>6, <1>7, <1>8, <1>9 DEF Inv

(* A command that has ended knows nothing. *)
LEMMA EndedKnows ==
  ASSUME NEW c \in Command, CmdBecomes(c, "idle", "none", None, << >>, {}, FALSE)
  PROVE  Local(c)' /\ Knows(c)' /\ Cleared(c)'
BY DEF CmdBecomes, Local, Knows, Cleared

LEMMA AskKeepsInv ==
  ASSUME Inv, NEW c \in Command, NEW what \in What, Ask(c, what)
  PROVE  Inv'
<1>0. /\ TypeOK /\ cmd \in [Command -> CmdType] /\ overlapped \in BOOLEAN
      /\ machine \in Machine /\ made \in 0..MaxCa
      /\ Alone /\ Numbered /\ ToldTrue /\ PairMatches /\ KeyLast /\ LoadedPair
      /\ Clean /\ OutOfReach
      /\ UNCHANGED <<machine, cert, key, anchor, trusted, told, made, daemon, faults>>
  BY TypeOKIs DEF Inv, Ask, files, stores
<1>1. CmdBecomes(c, "check", what, cmd[c].new, cmd[c].todo, cmd[c].rest, cmd[c].ok)
  <2> DEFINE r1 == [cmd[c] EXCEPT !.pc = "check"]
             r2 == [r1 EXCEPT !.what = what]
  <2>1. /\ r1 \in CmdType /\ r1.pc = "check" /\ r1.new = cmd[c].new
        /\ r1.todo = cmd[c].todo /\ r1.rest = cmd[c].rest /\ r1.ok = cmd[c].ok
    BY <1>0 DEF CmdType
  <2>2. /\ r2 \in CmdType /\ r2.pc = "check" /\ r2.new = cmd[c].new
        /\ r2.todo = cmd[c].todo /\ r2.rest = cmd[c].rest /\ r2.ok = cmd[c].ok
        /\ r2.what = what
    <3> HIDE DEF r1
    <3> QED  BY <2>1 DEF CmdType
  <2>3. cmd' = [cmd EXCEPT ![c] = r2]
    BY DEF Ask
  <2> HIDE DEF r2
  <2>4. CmdBecomes(c, r2.pc, r2.what, r2.new, r2.todo, r2.rest, r2.ok)
    BY <1>0, <2>2, <2>3, CmdReplaced
  <2> QED  BY <2>2, <2>4, Zenon
<1>2. /\ cmd[c].pc = "idle"
      /\ overlapped' = (overlapped \/ \E d \in Command : ~At(d, "idle"))
  BY DEF Ask, At
<1>3. TypeOK'
  BY <1>0, <1>1, <1>2 DEF TypeOK, CmdBecomes, CmdType
<1>4. ~overlapped' => ~overlapped /\ \A d \in Command \ {c} : At(d, "idle")
  BY <1>0, <1>2
<1>5. Alone'
  BY <1>1, <1>4 DEF Alone, CmdBecomes, At
<1>6. ASSUME NEW d \in Command
      PROVE  Local(d)' /\ (~overlapped' => Knows(d)' /\ Cleared(d)')
  <2>1. Local(d)
    BY DEF Inv
  <2>2. CASE d = c
    <3>1. ~cmd[c].ok /\ cmd[c].rest \subseteq machine.profiles
      BY <1>0, <1>2, <2>1, <2>2 DEF Local, InStore, At
    <3>2. cmd'[c].pc = "check" /\ ~cmd'[c].ok /\ cmd'[c].rest \subseteq machine'.profiles
      BY <1>0, <1>1, <3>1 DEF CmdBecomes
    <3> QED  BY <2>2, <3>2 DEF Local, Knows, Cleared
  <2>3. CASE d # c
    <3>1. cmd'[d] = cmd[d]
      BY <1>1, <2>3 DEF CmdBecomes
    <3>2. Local(d)'
      BY <1>0, <2>1, <3>1 DEF Local, InStore, At, Installs
    <3>3. ASSUME ~overlapped' PROVE Knows(d)' /\ Cleared(d)'
      <4>1. cmd'[d].pc = "idle" /\ ~cmd'[d].ok
        BY <1>4, <2>1, <2>3, <3>1, <3>3 DEF Local, InStore, At
      <4> QED  BY <4>1 DEF Knows, Cleared
    <3> QED  BY <3>2, <3>3
  <2> QED  BY <2>2, <2>3
<1>7. Numbered' /\ OutOfReach'
  BY <1>0 DEF Numbered, OutOfReach, Lacks
<1>8. ToldTrue' /\ LoadedPair'
  BY <1>0, <1>1, <1>4 DEF ToldTrue, LoadedPair, Holds, Loads, CmdBecomes, At
<1>9. PairMatches'
  BY <1>0, <1>1, <1>2, <1>4 DEF PairMatches, Loads, CmdBecomes, At
<1>10. KeyLast'
  BY <1>0, <1>1, <1>2, <1>4 DEF KeyLast, CmdBecomes, At
<1>11. Clean'
  BY <1>0, <1>1, <1>2, <1>4, <1>6 DEF Clean, Loads, CmdBecomes, At, Tidy, SameTools
<1> QED
  BY <1>3, <1>5, <1>6, <1>7, <1>8, <1>9, <1>10, <1>11 DEF Inv

LEMMA QuietSteps ==
  ASSUME Inv, NEW c \in Command,
         Check(c) \/ LoadOrGenerate(c) \/ InstallTrusts(c) \/ AfterStores(c) \/ Dies(c)
  PROVE  Inv'
<1>0. /\ cmd \in [Command -> CmdType] /\ made \in 0..MaxCa /\ machine \in Machine
      /\ key \in Content /\ cmd[c] \in CmdType
      /\ Local(c) /\ (~overlapped => Knows(c)) /\ Numbered /\ Clean /\ OutOfReach
      /\ made \in made..MaxCa
  BY TypeOKIs, BoundsAssumption DEF Inv
<1>a. /\ ~At(c, "idle")
      /\ UNCHANGED <<machine, files, stores, daemon, overlapped>>
      /\ Fault \/ NoFault
  BY DEF Check, LoadOrGenerate, InstallTrusts, AfterStores, Dies, At, NoFault
<1>1. ASSUME Ends(c), UNCHANGED made,
             cmd[c].pc \in {"save_key", "remove_key", "update"} => Fault
      PROVE  Inv'
  <2>1. CmdBecomes(c, "idle", "none", None, << >>, {}, FALSE)
    BY <1>0, <1>1, EndsLemma
  <2>2. Local(c)' /\ Knows(c)' /\ Cleared(c)'
    BY <2>1, EndedKnows
  <2> QED  BY <1>0, <1>1, <1>a, <2>1, <2>2, QuietKeepsInv DEF CmdBecomes
<1>2. ASSUME NEW pc \in {"load", "trust"}, Goto(c, pc), UNCHANGED made,
             cmd[c].pc \in {"check", "load"}
      PROVE  Inv'
  <2>1. CmdBecomes(c, pc, cmd[c].what, cmd[c].new, cmd[c].todo, cmd[c].rest, cmd[c].ok)
    BY <1>0, <1>2, GotoLemma
  <2>2. ~cmd[c].ok /\ cmd[c].rest \subseteq machine.profiles
    BY <1>0, <1>2 DEF Local, InStore, At
  <2>3. /\ cmd'[c].pc \in {"load", "trust"} /\ ~cmd'[c].ok
        /\ cmd'[c].rest \subseteq machine'.profiles
    BY <1>a, <2>1, <2>2 DEF CmdBecomes
  <2>4. Local(c)' /\ Knows(c)' /\ Cleared(c)'
    BY <2>3 DEF Local, Knows, Cleared
  <2> QED  BY <1>0, <1>2, <1>a, <2>1, <2>3, <2>4, QuietKeepsInv DEF CmdBecomes
<1>3. ASSUME NEW selected \in SUBSET Store, Visit(c, selected), UNCHANGED made,
             Loads, cmd[c].pc \in {"check", "trust"},
             cmd[c].what = "uninstall" => selected = Store
      PROVE  Inv'
  <2>1. PICK todo \in Seq(Store) :
           /\ CmdBecomes(c, "store", cmd[c].what, cmd[c].new, todo,
                         machine.profiles, cmd[c].ok)
           /\ selected = Store =>
                \A s \in Store : \E i \in 1..Len(todo) : todo[i] = s
    BY <1>0, <1>3, VisitLemma
  <2>2. ~cmd[c].ok
    BY <1>0, <1>3 DEF Local, InStore, At
  <2>3. /\ cmd'[c].pc = "store" /\ ~cmd'[c].ok /\ cmd'[c].todo = todo
        /\ cmd'[c].rest = machine.profiles /\ cmd'[c].what = cmd[c].what
    BY <2>1, <2>2 DEF CmdBecomes
  <2>4. UNCHANGED <<machine, cert, key, trusted>>
    BY <1>a DEF files, stores
  <2>5. Local(c)'
    BY <2>3, <2>4 DEF Local
  <2>6. Knows(c)'
    BY <1>3, <2>1, <2>3, <2>4 DEF Knows, Loads, InTodo
  <2>7. Cleared(c)'
    BY <1>0, <1>3, <2>1, <2>3, <2>4 DEF Cleared, InTodo, OutOfReach, Lacks
  <2> QED  BY <1>0, <1>3, <1>a, <2>1, <2>3, <2>5, <2>6, <2>7, QuietKeepsInv DEF CmdBecomes
<1>4. CASE Check(c)
  BY <1>1, <1>2, <1>3, <1>4 DEF Check, At, Store
<1>5. CASE LoadOrGenerate(c)
  <2>1. CASE Goto(c, "trust") /\ UNCHANGED made
    BY <1>2, <1>5, <2>1 DEF LoadOrGenerate, At
  <2>2. CASE ~Loads /\ Generate(c)
    <3> DEFINE r1 == [cmd[c] EXCEPT !.pc = "save_cert"]
               r2 == [r1 EXCEPT !.new = made + 1]
    <3>1. /\ made' = made + 1 /\ made + 1 \in Ca /\ made' \in made..MaxCa
          /\ made + 1 <= made'
      BY <1>0, <2>2, BoundsAssumption DEF Generate, Ca
    <3>2. /\ r1 \in CmdType /\ r1.pc = "save_cert" /\ r1.rest = cmd[c].rest
          /\ r1.ok = cmd[c].ok
      BY <1>0 DEF CmdType
    <3>3. /\ r2 \in CmdType /\ r2.pc = "save_cert" /\ r2.rest = cmd[c].rest
          /\ r2.ok = cmd[c].ok /\ r2.new = made + 1
      <4> HIDE DEF r1
      <4> QED  BY <3>1, <3>2 DEF CmdType
    <3>4. cmd' = [cmd EXCEPT ![c] = r2]
      BY <2>2 DEF Generate
    <3> HIDE DEF r2
    <3>5. CmdBecomes(c, r2.pc, r2.what, r2.new, r2.todo, r2.rest, r2.ok)
      BY <1>0, <3>3, <3>4, CmdReplaced
    <3>6. ~cmd[c].ok /\ cmd[c].rest \subseteq machine.profiles /\ cmd[c].pc = "load"
      BY <1>0, <1>5 DEF LoadOrGenerate, Local, InStore, At
    <3>7. /\ cmd'[c].pc = "save_cert" /\ ~cmd'[c].ok /\ cmd'[c].new = made + 1
          /\ cmd'[c].rest \subseteq machine'.profiles
      BY <1>a, <3>3, <3>5, <3>6 DEF CmdBecomes
    <3>8. Local(c)'
      BY <3>1, <3>7 DEF Local
    <3>9. key # made + 1
      BY <1>0, <3>1, FilesAssumption DEF Numbered, Content, Ca
    <3>10. Knows(c)'
      BY <1>a, <2>2, <3>7, <3>9 DEF Knows, Loads, files
    <3>11. Cleared(c)'
      BY <3>7 DEF Cleared
    <3> QED  BY <1>0, <1>a, <3>1, <3>5, <3>6, <3>7, <3>8, <3>10, <3>11, QuietKeepsInv
             DEF CmdBecomes
  <2> QED  BY <1>5, <2>1, <2>2 DEF LoadOrGenerate
<1>6. CASE InstallTrusts(c)
  BY <1>1, <1>3, <1>6 DEF InstallTrusts, At
<1>7. CASE AfterStores(c)
  <2>1. CASE Ends(c)
    BY <1>1, <1>7, <2>1 DEF AfterStores, At
  <2>2. CASE cmd[c].what = "uninstall" /\ Goto(c, "remove_cert")
    <3>1. CmdBecomes(c, "remove_cert", cmd[c].what, cmd[c].new, cmd[c].todo,
                     cmd[c].rest, cmd[c].ok)
      BY <1>0, <2>2, GotoLemma
    <3>2. cmd[c].pc = "store" /\ cmd[c].todo = << >> /\ ~cmd[c].ok /\ UNCHANGED made
      BY <1>0, <1>7 DEF AfterStores, At, Local, InStore
    <3>3. UNCHANGED <<machine, cert, key, trusted, told>>
      BY <1>a DEF files, stores
    <3>4. /\ cmd'[c].pc = "remove_cert" /\ cmd'[c].what = "uninstall"
          /\ cmd'[c].todo = cmd[c].todo /\ cmd'[c].rest = cmd[c].rest /\ ~cmd'[c].ok
      BY <2>2, <3>1, <3>2 DEF CmdBecomes
    <3>5. Local(c)'
      BY <1>0, <3>2, <3>3, <3>4 DEF Local
    <3>6. ~overlapped => Knows(c)'
      BY <1>0, <2>2, <3>2, <3>3, <3>4 DEF Knows, InTodo, Loads
    <3>7. faults' = 0 /\ ~overlapped /\ Tidy => Cleared(c)'
      <4> SUFFICES ASSUME ~overlapped, Tidy, faults = 0
                   PROVE  Cleared(c)'
        BY <1>7 DEF AfterStores
      <4> QED  BY <1>0, <2>2, <3>2, <3>3, <3>4 DEF Clean, Cleared, InTodo
    <3> QED  BY <1>0, <1>a, <3>1, <3>2, <3>4, <3>5, <3>6, <3>7, QuietKeepsInv DEF CmdBecomes
  <2> QED  BY <1>7, <2>1, <2>2 DEF AfterStores
<1>8. CASE Dies(c)
  BY <1>1, <1>8 DEF Dies
<1> QED  BY <1>4, <1>5, <1>6, <1>7, <1>8

-----------------------------------------------------------------------------
(* The two files: they change only when no store is said to trust and,     *)
(* before the first failure, none does.                                    *)

LEMMA FilesKeepInv ==
  ASSUME Inv, NEW c \in Command, ~At(c, "idle"),
         cmd' \in [Command -> CmdType],
         \A d \in Command \ {c} : cmd'[d] = cmd[d],
         UNCHANGED <<machine, stores, made, daemon, overlapped>>,
         Fault \/ NoFault, cert' \in Content, key' \in Content,
         Numbered', Local(c)', ~overlapped => Knows(c)' /\ Cleared(c)',
         ~overlapped => \A s \in Store : told[s] # "trusted",
         PairMatches', KeyLast',
         faults' = 0 /\ ~overlapped /\ Tidy =>
           \A p \in Place : trusted[p] = {}
  PROVE  Inv'
<1>0. /\ TypeOK /\ made \in 0..MaxCa /\ faults \in 0..MaxFaults
      /\ UNCHANGED <<machine, anchor, trusted, told, made, daemon, overlapped>>
      /\ LoadedPair /\ OutOfReach
  BY TypeOKIs DEF Inv, stores
<1>1. /\ Alone' /\ \A d \in Command \ {c} : Local(d)' /\ (~overlapped => Knows(d)')
      /\ ~overlapped => \A d \in Command \ {c} : Cleared(d)'
  <2>1. made' \in made..MaxCa
    BY <1>0
  <2> QED  BY <2>1, Others
<1>2. /\ faults' \in 0..MaxFaults
      /\ faults' = 0 => faults = 0
  BY <1>0, FaultLemma
<1>3. TypeOK'
  BY <1>0, <1>2 DEF TypeOK, CmdType
<1>4. OutOfReach' /\ ToldTrue' /\ LoadedPair'
  BY <1>0, <1>2 DEF OutOfReach, Lacks, ToldTrue, LoadedPair
<1>5. Clean'
  <2>1. Tidy' = Tidy
    BY <1>0 DEF Tidy, SameTools
  <2> SUFFICES ASSUME faults' = 0, ~overlapped, Tidy
               PROVE  /\ \A p \in Place : trusted'[p] = {}
                      /\ \A d \in Command : Cleared(d)'
    <3>1. "system" \in Place
      BY DEF Place
    <3> QED  BY <1>0, <2>1, <3>1 DEF Clean
  <2>2. \A p \in Place : trusted'[p] = {}
    BY <1>0
  <2>3. \A d \in Command : Cleared(d)'
    BY <1>1
  <2> QED  BY <2>2, <2>3
<1> QED  BY <1>0, <1>1, <1>3, <1>4, <1>5 DEF Inv

LEMMA FileSteps ==
  ASSUME Inv, NEW c \in Command, Save(c) \/ SaveFails(c) \/ RemoveFiles(c)
  PROVE  Inv'
<1>0. /\ TypeOK /\ cmd \in [Command -> CmdType] /\ made \in 0..MaxCa
      /\ cert \in Content /\ key \in Content /\ faults \in 0..MaxFaults
      /\ Local(c) /\ (~overlapped => Knows(c)) /\ Numbered /\ ToldTrue /\ PairMatches
      /\ KeyLast /\ Clean /\ Alone
      /\ UNCHANGED <<machine, stores, made, daemon, overlapped>>
      /\ Fault \/ NoFault
  BY TypeOKIs DEF Inv, Save, SaveFails, RemoveFiles, NoFault
<1>a. None \in Content /\ Torn \in Content /\ Ca \subseteq Content
  BY DEF Content
<1>b. None \notin Ca /\ Torn \notin Ca
  BY FilesAssumption DEF Ca
<1>c. UNCHANGED <<machine, trusted, told>>
  BY <1>0 DEF stores
<1>1. CASE Save(c) /\ At(c, "save_cert")
  <2>1. CmdBecomes(c, "save_key", cmd[c].what, cmd[c].new, cmd[c].todo, cmd[c].rest,
                   cmd[c].ok)
    BY <1>0, <1>1, GotoLemma DEF Save, At
  <2>2. /\ cert' = cmd[c].new /\ UNCHANGED <<key, faults>> /\ cmd[c].pc = "save_cert"
    BY <1>1 DEF Save, At
  <2>3. /\ cmd'[c].pc = "save_key" /\ cmd'[c].new = cmd[c].new
        /\ cmd'[c].rest = cmd[c].rest /\ cmd'[c].ok = cmd[c].ok
        /\ \A d \in Command \ {c} : cmd'[d] = cmd[d]
    BY <2>1 DEF CmdBecomes
  <2>4. cmd[c].new \in Ca /\ cmd[c].new <= made /\ ~cmd[c].ok
    BY <1>0, <2>2 DEF Local, InStore, At
  <2>5. Numbered' /\ Local(c)'
    BY <1>0, <1>c, <2>2, <2>3, <2>4 DEF Numbered, Local
  <2>6. ~overlapped => ~Loads /\ key # cmd[c].new
    BY <1>0, <2>2 DEF Knows
  <2>7. ~overlapped => Knows(c)' /\ Cleared(c)'
    BY <2>2, <2>3, <2>4, <2>6 DEF Knows, Cleared
  <2>8. PairMatches'
    BY <2>3 DEF PairMatches, At
  <2>9. ~overlapped => \A d \in Command \ {c} : At(d, "idle")
    BY <1>0, <2>2 DEF Alone, At
  <2>10. KeyLast'
    BY <1>0, <2>2, <2>3, <2>4, <2>6, <2>9 DEF KeyLast, Loads, At
  <2>11. ~overlapped => \A s \in Store : told[s] # "trusted"
    BY <1>0, <2>6 DEF ToldTrue
  <2>12. faults' = 0 /\ ~overlapped /\ Tidy =>
           \A p \in Place : trusted[p] = {}
    BY <1>0, <2>2, <2>6 DEF Clean
  <2> QED
    BY <1>0, <1>a, <2>1, <2>2, <2>4, <2>5, <2>7, <2>8, <2>10, <2>11, <2>12,
       FilesKeepInv DEF CmdBecomes, At
<1>2. CASE Save(c) /\ At(c, "save_key")
  <2>1. CmdBecomes(c, "trust", cmd[c].what, cmd[c].new, cmd[c].todo, cmd[c].rest,
                   cmd[c].ok)
    BY <1>0, <1>2, GotoLemma DEF Save, At
  <2>2. /\ key' = cmd[c].new /\ UNCHANGED <<cert, faults>> /\ cmd[c].pc = "save_key"
    BY <1>2 DEF Save, At
  <2>3. /\ cmd'[c].pc = "trust" /\ cmd'[c].rest = cmd[c].rest
        /\ cmd'[c].ok = cmd[c].ok
        /\ \A d \in Command \ {c} : cmd'[d] = cmd[d]
    BY <2>1 DEF CmdBecomes
  <2>4. cmd[c].new \in Ca /\ cmd[c].new <= made /\ ~cmd[c].ok
    BY <1>0, <2>2 DEF Local, InStore, At
  <2>5. Numbered' /\ Local(c)'
    BY <1>0, <1>c, <2>2, <2>3, <2>4 DEF Numbered, Local
  <2>6. ~overlapped => cert = cmd[c].new
    BY <1>0, <2>2 DEF Knows
  <2>7. Knows(c)' /\ Cleared(c)'
    BY <2>3, <2>4 DEF Knows, Cleared
  <2>8. PairMatches'
    BY <1>0, <2>2, <2>6 DEF PairMatches
  <2>9. ~overlapped => \A d \in Command \ {c} : At(d, "idle")
    BY <1>0, <2>2 DEF Alone, At
  <2>10. KeyLast'
    BY <1>0, <2>2, <2>3, <2>4, <2>6, <2>9 DEF KeyLast, At
  <2>11. ~overlapped => \A s \in Store : told[s] # "trusted"
    BY <1>0, <2>2 DEF ToldTrue, At
  <2>12. faults' = 0 /\ ~overlapped /\ Tidy =>
           \A p \in Place : trusted[p] = {}
    BY <1>0, <2>2 DEF Clean, KeyLast, Loads, At
  <2> QED
    BY <1>0, <1>a, <2>1, <2>2, <2>4, <2>5, <2>7, <2>8, <2>10, <2>11, <2>12,
       FilesKeepInv DEF CmdBecomes, At
<1>3. CASE SaveFails(c)
  <2>1. CmdBecomes(c, "idle", "none", None, << >>, {}, FALSE)
    BY <1>0, <1>3, EndsLemma DEF SaveFails
  <2>2. Local(c)' /\ Knows(c)' /\ Cleared(c)'
    BY <2>1, EndedKnows
  <2>3. /\ cmd[c].pc \in {"save_cert", "save_key"}
        /\ cmd[c].pc = "save_cert" => cert' \in {cert, Torn} /\ key' = key
        /\ cmd[c].pc = "save_key" => key' \in {key, Torn} /\ cert' = cert
    BY <1>3 DEF SaveFails, At
  <2>4. faults' # 0 /\ faults < faults' /\ faults' \in 0..MaxFaults
    BY <1>0, <1>3, FaultLemma DEF SaveFails
  <2>5. Numbered'
    BY <1>0, <1>b, <2>3 DEF Numbered
  <2>6. ~overlapped => \A s \in Store : told[s] # "trusted"
    BY <1>0, <2>3 DEF ToldTrue, Knows, At
  <2>7. PairMatches'
    <3> SUFFICES ASSUME Loads', faults' <= 1, ~overlapped PROVE FALSE
      BY <1>0 DEF PairMatches
    <3>1. faults = 0
      BY <1>0, <2>4, BoundsAssumption
    <3>2. ~Loads
      BY <1>0, <2>3, <3>1 DEF Knows, KeyLast, Loads, At
    <3> QED  BY <1>b, <2>3, <3>1, <3>2, <1>0 DEF Loads, KeyLast, At
  <2>8. KeyLast'
    BY <2>4 DEF KeyLast
  <2> QED
    BY <1>0, <1>a, <2>1, <2>2, <2>3, <2>4, <2>5, <2>6, <2>7, <2>8, FilesKeepInv
    DEF CmdBecomes, At
<1>4. CASE RemoveFiles(c) /\ At(c, "remove_cert")
  <2>1. \/ CmdBecomes(c, "idle", "none", None, << >>, {}, FALSE) /\ cert = None
        \/ CmdBecomes(c, "remove_key", cmd[c].what, cmd[c].new, cmd[c].todo,
                      cmd[c].rest, cmd[c].ok)
    BY <1>0, <1>4, EndsLemma, GotoLemma DEF RemoveFiles, At
  <2>2. /\ cert' = None /\ UNCHANGED <<key, faults>> /\ cmd[c].pc = "remove_cert"
    BY <1>4 DEF RemoveFiles, At
  <2>3. cmd[c].what = "uninstall" /\ cmd[c].todo = << >> /\ ~cmd[c].ok
    BY <1>0, <2>2 DEF Local, InStore, At
  <2>4. ~overlapped => Loads /\ cmd'[c].pc = "remove_key"
    BY <1>0, <1>b, <2>1, <2>2 DEF Knows, Loads, CmdBecomes
  <2>5. Local(c)' /\ Cleared(c)'
    <3>1. CASE CmdBecomes(c, "idle", "none", None, << >>, {}, FALSE)
      BY <3>1, EndedKnows
    <3>2. CASE CmdBecomes(c, "remove_key", cmd[c].what, cmd[c].new, cmd[c].todo,
                          cmd[c].rest, cmd[c].ok)
      BY <1>0, <1>c, <2>3, <3>2 DEF CmdBecomes, Local, Cleared
    <3> QED  BY <2>1, <3>1, <3>2
  <2>6. Numbered'
    BY <1>0, <1>b, <2>2 DEF Numbered
  <2>7. ~overlapped => Knows(c)'
    <3>1. ~cmd'[c].ok
      BY <2>1, <2>3 DEF CmdBecomes
    <3> QED  BY <2>2, <2>4, <3>1 DEF Knows
  <2>8. \A s \in Store : ~InTodo(c, s)
    BY <2>3 DEF InTodo
  <2>9. ~overlapped => \A s \in Store : told[s] # "trusted"
    BY <1>0, <2>2, <2>3, <2>8 DEF Knows
  <2>10. PairMatches'
    BY <1>b, <2>2 DEF PairMatches, Loads
  <2>11. ~overlapped => \A d \in Command \ {c} : At(d, "idle")
    BY <1>0, <2>2 DEF Alone, At
  <2>12. KeyLast'
    BY <1>0, <2>1, <2>4, <2>11 DEF KeyLast, CmdBecomes, At
  <2>13. faults' = 0 /\ ~overlapped /\ Tidy =>
           \A p \in Place : trusted[p] = {}
    <3> SUFFICES ASSUME faults = 0, ~overlapped, Tidy
                 PROVE  \A p \in Place : trusted[p] = {}
      BY <2>2
    <3>1. \A s \in Store : \A p \in Of(s) : trusted[p] = {}
      BY <1>0, <2>2, <2>3, <2>8 DEF Clean, Cleared
    <3> QED  BY <3>1 DEF Place, Store, Of
  <2> QED
    BY <1>0, <1>a, <2>1, <2>2, <2>5, <2>6, <2>7, <2>9, <2>10, <2>12, <2>13,
       FilesKeepInv DEF CmdBecomes, At
<1>5. CASE RemoveFiles(c) /\ At(c, "remove_key")
  <2>1. CmdBecomes(c, "idle", "none", None, << >>, {}, FALSE)
    BY <1>0, <1>5, EndsLemma DEF RemoveFiles, At
  <2>2. Local(c)' /\ Knows(c)' /\ Cleared(c)'
    BY <2>1, EndedKnows
  <2>3. key' = None /\ UNCHANGED <<cert, faults>> /\ cmd[c].pc = "remove_key"
    BY <1>5 DEF RemoveFiles, At
  <2>4. ~overlapped => ~Loads
    BY <1>0, <1>b, <2>3 DEF Knows, Loads
  <2>5. Numbered'
    BY <1>0, <1>b, <2>3 DEF Numbered
  <2>6. ~overlapped => \A s \in Store : told[s] # "trusted"
    BY <1>0, <2>4 DEF ToldTrue
  <2>7. PairMatches' /\ KeyLast'
    BY <1>b, <2>3 DEF PairMatches, KeyLast, Loads
  <2>8. faults' = 0 /\ ~overlapped /\ Tidy =>
           \A p \in Place : trusted[p] = {}
    BY <1>0, <2>3, <2>4 DEF Clean
  <2> QED
    BY <1>0, <1>a, <2>1, <2>2, <2>3, <2>5, <2>6, <2>7, <2>8, FilesKeepInv
    DEF CmdBecomes, At
<1> QED  BY <1>1, <1>2, <1>3, <1>4, <1>5 DEF Save, RemoveFiles

-----------------------------------------------------------------------------
(* The stores. *)

BundleCurrent ==
  machine.platform = "distro" /\ anchor = None =>
    trusted["system"] = {} \/ \E c \in Command : At(c, "update") /\ ~Installs(c)

(* What a step inside the loop over the stores has to show. *)
LEMMA StoreKeepsInv ==
  ASSUME Inv, NEW c \in Command, cmd[c].pc \in {"store", "update"},
         cmd' \in [Command -> CmdType],
         \A d \in Command \ {c} : cmd'[d] = cmd[d],
         cmd'[c].pc \in {"store", "update"},
         UNCHANGED <<machine, files, made, daemon, overlapped>>,
         Fault \/ NoFault, anchor' \in Content,
         trusted' \in [Place -> SUBSET Ca], told' \in [Store -> ToldType],
         Local(c)', ~overlapped => Knows(c)', OutOfReach',
         ~overlapped => \A s \in Store : told'[s] = "trusted" => Holds(s, cert)',
         faults' = 0 /\ faults = 0 /\ ~overlapped /\ Tidy =>
           /\ \A p \in Place : trusted'[p] \subseteq {cert}
           /\ BundleCurrent' /\ Cleared(c)'
  PROVE  Inv'
<1>0. /\ TypeOK /\ made \in 0..MaxCa /\ faults \in 0..MaxFaults
      /\ UNCHANGED <<machine, cert, key, made, daemon, overlapped>>
      /\ Numbered /\ PairMatches /\ KeyLast /\ LoadedPair
      /\ ~overlapped => Knows(c)
  BY TypeOKIs DEF Inv, files
<1>1. /\ Alone' /\ \A d \in Command \ {c} : Local(d)' /\ (~overlapped => Knows(d)')
      /\ ~overlapped => \A d \in Command \ {c} : Cleared(d)' /\ At(d, "idle")'
  <2>1. made' \in made..MaxCa /\ ~At(c, "idle")
    BY <1>0 DEF At
  <2> QED  BY <2>1, Others
<1>2. /\ faults' \in 0..MaxFaults /\ faults <= faults'
      /\ faults' = 0 => faults = 0
  BY <1>0, FaultLemma
<1>3. TypeOK'
  BY <1>0, <1>2 DEF TypeOK, CmdType, ToldType
<1>4. Numbered' /\ LoadedPair'
  BY <1>0, <1>2 DEF Numbered, LoadedPair
<1>5. ~overlapped => Loads
  BY <1>0 DEF Knows
<1>6. ToldTrue'
  BY <1>0, <1>1, <1>5 DEF ToldTrue, Loads, At
<1>7. PairMatches'
  <2> SUFFICES ASSUME Loads, faults' <= 1, ~overlapped,
                      \A d \in Command : ~At(d, "save_key")'
               PROVE  cert = key
    BY <1>0 DEF PairMatches, Loads
  <2>1. faults <= 1
    BY <1>0, <1>2
  <2>2. \A d \in Command : ~At(d, "save_key")
    BY DEF At
  <2> QED  BY <1>0, <2>1, <2>2 DEF PairMatches
<1>8. KeyLast'
  BY <1>0, <1>2 DEF KeyLast, At
<1>9. Clean'
  <2> SUFFICES ASSUME faults' = 0, ~overlapped, Tidy
               PROVE  /\ \A p \in Place : trusted'[p] \subseteq {cert}
                      /\ Loads /\ BundleCurrent'
                      /\ \A d \in Command : Cleared(d)'
    BY <1>0 DEF Clean, BundleCurrent, Loads, Tidy, SameTools
  <2> QED  BY <1>1, <1>2, <1>5
<1> QED  BY <1>0, <1>1, <1>3, <1>4, <1>6, <1>7, <1>8, <1>9 DEF Inv

(* The places of one store are none of another's. *)
LEMMA OfLemma ==
  /\ \A s \in Store : Of(s) \subseteq Place
  /\ \A s, t \in Store : s # t => Of(s) \cap Of(t) = {}
  /\ \A p \in Place : \E s \in Store : p \in Of(s)
BY ProfileAssumption DEF Of, Store, Place

(* What a store that answers has to show. *)
LEMMA AnswerKeepsInv ==
  ASSUME Inv, NEW c \in Command, NEW h \in Store,
         NEW o \in {"trusted", "untrusted", "failed"},
         cmd[c].pc \in {"store", "update"}, cmd[c].todo # << >>,
         Head(cmd[c].todo) = h, Tell(c, o),
         UNCHANGED <<machine, files, made, daemon, overlapped>>,
         Fault \/ NoFault, anchor' \in Content,
         trusted' \in [Place -> SUBSET Ca], OutOfReach',
         \A p \in Place \ Of(h) : trusted'[p] = trusted[p],
         ~overlapped /\ o = "trusted" => Installs(c) /\ Holds(h, cert)',
         h # "system" => UNCHANGED anchor /\ cmd[c].pc = "store",
         faults' = 0 /\ faults = 0 /\ ~overlapped /\ Tidy =>
           /\ \A p \in Of(h) : trusted'[p] \subseteq {cert}
           /\ cmd[c].what = "uninstall" => \A p \in Of(h) : trusted'[p] = {}
           /\ h = "system" => BundleCurrent'
  PROVE  Inv'
<1>0. /\ cmd \in [Command -> CmdType] /\ told \in [Store -> ToldType]
      /\ trusted \in [Place -> SUBSET Ca] /\ machine \in Machine
      /\ Local(c) /\ (~overlapped => Knows(c)) /\ ToldTrue /\ Clean /\ Alone
      /\ UNCHANGED <<machine, cert, key, overlapped>>
  BY TypeOKIs DEF Inv, files
<1>1. Answered(c, o)
  BY <1>0, TellLemma
<1> DEFINE todo == cmd[c].todo
<1>2. /\ cmd'[c].pc = "store" /\ cmd'[c].what = cmd[c].what /\ ~cmd'[c].ok
      /\ cmd'[c].todo = Tail(todo) /\ cmd'[c].rest = cmd[c].rest
      /\ cmd' \in [Command -> CmdType]
      /\ \A d \in Command \ {c} : cmd'[d] = cmd[d]
      /\ told' \in [Store -> ToldType] /\ told'[h] = o
      /\ \A s \in Store \ {h} : told'[s] = told[s]
  BY <1>0, <1>1 DEF Answered, CmdBecomes
<1>3. Local(c)'
  BY <1>0, <1>2 DEF Local
<1>4. ASSUME NEW s \in Store \ {h}, InTodo(c, s)
      PROVE  InTodo(c, s)'
  <2>1. todo \in Seq(Store) /\ todo # << >>
    BY <1>0 DEF CmdType
  <2>2. PICK i \in 1..Len(todo) : todo[i] = s
    BY <1>4 DEF InTodo
  <2>3. i # 1
    BY <2>1, <2>2
  <2>4. i - 1 \in 1..Len(Tail(todo)) /\ Tail(todo)[i - 1] = s
    BY <2>1, <2>2, <2>3
  <2> QED  BY <1>2, <2>4 DEF InTodo
<1>5. ~overlapped => Knows(c)'
  <2> SUFFICES ASSUME ~overlapped PROVE Knows(c)'
    OBVIOUS
  <2>1. Loads'
    BY <1>0 DEF Knows, Loads
  <2>2. ASSUME cmd[c].what = "uninstall", NEW s \in Store, told'[s] = "trusted"
        PROVE  InTodo(c, s)'
    <3>1. s # h
      BY <1>2, <2>2 DEF Installs
    <3> QED  BY <1>0, <1>2, <1>4, <2>2, <3>1 DEF Knows
  <2> QED  BY <1>2, <2>1, <2>2 DEF Knows
<1>6. ASSUME ~overlapped, NEW s \in Store, told'[s] = "trusted"
      PROVE  Holds(s, cert)'
  <2>1. CASE s = h
    BY <1>2, <1>6, <2>1
  <2>2. CASE s # h
    <3>1. Holds(s, cert)
      BY <1>0, <1>2, <1>6, <2>2 DEF ToldTrue
    <3>2. \A p \in Of(s) : trusted'[p] = trusted[p]
      BY <2>2, OfLemma
    <3>3. machine.profiles \subseteq Profile
      BY <1>0, MachineAssumption
    <3> QED  BY <1>0, <3>1, <3>2, <3>3 DEF Holds, Of
  <2> QED  BY <2>1, <2>2
<1>7. ASSUME faults' = 0, faults = 0, ~overlapped, Tidy
      PROVE  /\ \A p \in Place : trusted'[p] \subseteq {cert}
             /\ BundleCurrent' /\ Cleared(c)'
  <2>1. \A p \in Place : trusted[p] \subseteq {cert}
    BY <1>0, <1>7 DEF Clean
  <2>2. \A p \in Place : trusted'[p] \subseteq {cert}
    BY <1>7, <2>1
  <2>3. BundleCurrent'
    <3>1. CASE h = "system"
      BY <1>7, <3>1
    <3>2. CASE h # "system"
      <4>1. \A d \in Command : ~At(d, "update")
        BY <1>0, <1>7, <3>2 DEF Alone, At
      <4>2. trusted'["system"] = trusted["system"] /\ anchor' = anchor
        BY <3>2, OfLemma DEF Of, Store, Place
      <4> QED  BY <1>0, <1>7, <4>1, <4>2 DEF Clean, BundleCurrent
    <3> QED  BY <3>1, <3>2
  <2>4. ASSUME cmd[c].what = "uninstall", NEW s \in Store, ~InTodo(c, s)',
               NEW p \in Of(s)
        PROVE  trusted'[p] = {}
    <3>1. CASE s = h
      BY <1>7, <2>4, <3>1
    <3>2. CASE s # h
      <4>1. trusted[p] = {}
        BY <1>0, <1>4, <1>7, <2>4, <3>2 DEF Clean, Cleared
      <4>2. trusted'[p] = trusted[p]
        BY <2>4, <3>2, OfLemma
      <4> QED  BY <4>1, <4>2
    <3> QED  BY <3>1, <3>2
  <2>5. ASSUME cmd[c].what = "uninstall", NEW p \in Profile \ cmd[c].rest
        PROVE  trusted'[p] = {}
    <3>1. trusted[p] = {}
      BY <1>0, <1>7, <2>5 DEF Clean, Cleared
    <3>2. CASE h = "nss"
      BY <1>7, <2>5, <3>2 DEF Of
    <3>3. CASE h # "nss"
      BY <3>1, <3>3, ProfileAssumption DEF Of, Store, Place
    <3> QED  BY <3>2, <3>3
  <2>6. Cleared(c)'
    BY <1>2, <2>4, <2>5 DEF Cleared
  <2> QED  BY <2>2, <2>3, <2>6
<1> QED  BY <1>0, <1>2, <1>3, <1>5, <1>6, <1>7, StoreKeepsInv

(* What is trusted at one place changes. *)
LEMMA TrustedLemma ==
  ASSUME trusted \in [Place -> SUBSET Ca], NEW p \in Place, NEW cas \in SUBSET Ca,
         SetTrusted(p, cas)
  PROVE  /\ trusted' \in [Place -> SUBSET Ca] /\ trusted'[p] = cas
         /\ \A q \in Place \ {p} : trusted'[q] = trusted[q]
BY DEF SetTrusted

LEMMA SystemSteps ==
  ASSUME Inv, NEW c \in Command,
         \/ SystemInstall(c) \/ SystemInstallUpdate(c)
         \/ SystemUninstall(c) \/ SystemUninstallUpdate(c)
  PROVE  Inv'
<1>0. /\ cmd \in [Command -> CmdType] /\ told \in [Store -> ToldType]
      /\ trusted \in [Place -> SUBSET Ca] /\ machine \in Machine
      /\ cert \in Content /\ anchor \in Content
      /\ Local(c) /\ (~overlapped => Knows(c)) /\ ToldTrue /\ Clean /\ Alone
      /\ OutOfReach /\ faults \in 0..MaxFaults
  BY TypeOKIs DEF Inv
<1>a. /\ UNCHANGED <<machine, files, made, daemon, overlapped>>
      /\ UNCHANGED <<machine, cert, key, overlapped>>
      /\ Fault \/ NoFault
      /\ cmd[c].pc \in {"store", "update"} /\ cmd[c].todo # << >>
      /\ Head(cmd[c].todo) = "system"
  BY <1>0 DEF SystemInstall, SystemInstallUpdate, SystemUninstall,
     SystemUninstallUpdate, KeychainInstall, KeychainUninstall, Trusting, Untrusting,
     InStore, At, Local, files, ToolFails
<1>b. /\ machine.platform \in {"distro", "arch", "keychain", "other"}
      /\ "system" \in Place /\ "system" \in Store /\ Of("system") = {"system"}
      /\ \A p \in Profile : p # "system"
  BY <1>0, MachineAssumption, ProfileAssumption DEF Place, Store, Of
<1>c. None \notin Ca /\ None \in Content /\ Torn \in Content /\ Torn # None
  BY FilesAssumption DEF Ca, Content
<1>d. ~overlapped => Loads /\ cert \in Ca
  BY <1>0, <1>a DEF Knows, Loads
<1>e. faults' = 0 => ~Fault
  BY <1>0, FaultLemma
<1>f. faults = 0 /\ ~overlapped /\ Tidy =>
        /\ trusted["system"] \subseteq {cert}
        /\ cmd[c].pc = "store" =>
             (machine.platform = "distro" /\ anchor = None => trusted["system"] = {})
  <2> SUFFICES ASSUME faults = 0, ~overlapped, Tidy
               PROVE  /\ trusted["system"] \subseteq {cert}
                      /\ cmd[c].pc = "store" =>
                          (machine.platform = "distro" /\ anchor = None =>
                             trusted["system"] = {})
    OBVIOUS
  <2>1. cmd[c].pc = "store" => \A d \in Command : ~At(d, "update")
    BY <1>0 DEF Alone, At
  <2> QED  BY <1>0, <1>b, <2>1 DEF Clean
<1>1. ASSUME NEW o \in {"untrusted", "failed"}, Tell(c, o),
             NEW cas \in SUBSET Ca, SetTrusted("system", cas),
             anchor' \in Content, machine.platform = "other" => cas = {},
             faults' = 0 /\ faults = 0 /\ ~overlapped /\ Tidy =>
               /\ cas \subseteq {cert} /\ (cmd[c].what = "uninstall" => cas = {})
               /\ machine.platform = "distro" /\ anchor' = None => cas = {}
      PROVE  Inv'
  <2>1. /\ trusted' \in [Place -> SUBSET Ca] /\ trusted'["system"] = cas
        /\ \A q \in Place \ {"system"} : trusted'[q] = trusted[q]
    BY <1>0, <1>1, <1>b, TrustedLemma
  <2>2. OutOfReach'
    BY <1>0, <1>1, <1>a, <1>b, <2>1 DEF OutOfReach, Lacks, Place
  <2>3. faults' = 0 /\ faults = 0 /\ ~overlapped /\ Tidy =>
          BundleCurrent'
    BY <1>1, <1>a, <2>1 DEF BundleCurrent
  <2> QED  BY <1>1, <1>a, <1>b, <2>1, <2>2, <2>3, AnswerKeepsInv
<1>2. ASSUME Installs(c), Tell(c, "trusted"), UNCHANGED anchor,
             NEW cas \in SUBSET Ca, SetTrusted("system", cas),
             machine.platform # "other", ~overlapped => cert \in cas,
             faults = 0 /\ ~overlapped /\ Tidy =>
               cas \subseteq {cert},
             ~overlapped => anchor = cert \/ machine.platform # "distro"
      PROVE  Inv'
  <2>1. /\ trusted' \in [Place -> SUBSET Ca] /\ trusted'["system"] = cas
        /\ \A q \in Place \ {"system"} : trusted'[q] = trusted[q]
    BY <1>0, <1>2, <1>b, TrustedLemma
  <2>2. OutOfReach'
    BY <1>0, <1>2, <1>a, <1>b, <2>1 DEF OutOfReach, Lacks, Place
  <2>3. ~overlapped => BundleCurrent'
    BY <1>2, <1>a, <1>c, <1>d DEF BundleCurrent
  <2>4. ~overlapped => Holds("system", cert)'
    BY <1>2, <1>a, <2>1 DEF Holds
  <2>5. cmd[c].what # "uninstall" /\ anchor' \in Content
    BY <1>0, <1>2 DEF Installs
  <2> QED  BY <1>2, <1>a, <1>b, <2>1, <2>2, <2>3, <2>4, <2>5, AnswerKeepsInv
<1>3. ASSUME Goto(c, "update"), NoFault, UNCHANGED <<told, trusted>>,
             cmd[c].pc = "store", machine.platform \in {"distro", "arch"},
             anchor' = IF Installs(c) THEN cert ELSE None
      PROVE  Inv'
  <2>1. CmdBecomes(c, "update", cmd[c].what, cmd[c].new, cmd[c].todo, cmd[c].rest,
                   cmd[c].ok)
    BY <1>0, <1>3, GotoLemma
  <2>2. ~cmd[c].ok
    BY <1>0, <1>a DEF Local, InStore
  <2>3. /\ cmd'[c].pc = "update" /\ cmd'[c].what = cmd[c].what /\ ~cmd'[c].ok
        /\ cmd'[c].todo = cmd[c].todo /\ cmd'[c].rest = cmd[c].rest
    BY <2>1, <2>2 DEF CmdBecomes
  <2>4. Local(c)'
    BY <1>0, <1>3, <1>a, <2>3 DEF Local
  <2>5. ~overlapped => Knows(c)'
    BY <1>0, <1>3, <1>a, <2>3 DEF Knows, Loads, Installs, InTodo
  <2>6. OutOfReach' /\ anchor' \in Content
    BY <1>0, <1>3, <1>a, <1>c DEF OutOfReach, Lacks
  <2>7. ~overlapped => \A s \in Store : told'[s] = "trusted" => Holds(s, cert)'
    BY <1>0, <1>3, <1>a DEF ToldTrue, Holds
  <2>8. ASSUME faults = 0, ~overlapped, Tidy
        PROVE  /\ \A p \in Place : trusted'[p] \subseteq {cert}
               /\ BundleCurrent' /\ Cleared(c)'
    <3>1. \A p \in Place : trusted'[p] \subseteq {cert}
      BY <1>0, <1>3, <2>8 DEF Clean
    <3>2. BundleCurrent'
      BY <1>3, <1>a, <1>c, <1>d, <2>3, <2>8 DEF BundleCurrent, At, Installs
    <3>3. Cleared(c)'
      <4>1. Cleared(c)
        BY <1>0, <2>8 DEF Clean
      <4>2. \A s \in Store : InTodo(c, s)' <=> InTodo(c, s)
        BY <2>3 DEF InTodo
      <4> QED  BY <1>3, <2>3, <4>1, <4>2 DEF Cleared
    <3> QED  BY <3>1, <3>2, <3>3
  <2>9. told' \in [Store -> ToldType] /\ trusted' \in [Place -> SUBSET Ca]
    BY <1>0, <1>3
  <2> QED
    BY <1>3, <1>a, <2>1, <2>3, <2>4, <2>5, <2>6, <2>7, <2>8, <2>9, StoreKeepsInv
    DEF CmdBecomes
<1>g. trusted' = trusted => SetTrusted("system", trusted["system"])
  BY <1>0, <1>b DEF SetTrusted
<1>h. trusted["system"] \in SUBSET Ca
  BY <1>0, <1>b
<1>i. machine.platform = "other" => trusted["system"] = {}
  BY <1>0 DEF OutOfReach, Lacks
<1>4. ASSUME NEW o \in {"untrusted", "failed"}, Tell(c, o), UNCHANGED trusted,
             anchor' \in Content,
             faults' = 0 /\ faults = 0 /\ ~overlapped /\ Tidy =>
               /\ cmd[c].what = "uninstall" => trusted["system"] = {}
               /\ UNCHANGED anchor /\ cmd[c].pc = "store"
      PROVE  Inv'
  BY <1>1, <1>4, <1>f, <1>g, <1>h, <1>i
<1>5. CASE SystemInstall(c)
  <2>0. cmd[c].pc = "store" /\ Installs(c) /\ cmd[c].what # "uninstall"
    BY <1>5 DEF SystemInstall, Trusting, InStore, At, Installs
  <2>1. CASE machine.platform = "other"
    BY <1>0, <1>4, <1>5, <2>0, <2>1 DEF SystemInstall
  <2>2. CASE machine.platform = "keychain"
    <3>1. CASE Tell(c, "failed") /\ UNCHANGED <<trusted, anchor>>
      BY <1>0, <1>4, <2>0, <3>1
    <3>2. CASE /\ cert \in Ca /\ Tell(c, "trusted") /\ UNCHANGED anchor
               /\ SetTrusted("system", trusted["system"] \cup {cert})
      <4>1. trusted["system"] \cup {cert} \in SUBSET Ca
        BY <1>h, <3>2
      <4> QED  BY <1>2, <1>f, <2>0, <2>2, <3>2, <4>1
    <3> QED  BY <1>5, <2>2, <3>1, <3>2 DEF SystemInstall, KeychainInstall
  <2>3. CASE machine.platform \in {"distro", "arch"}
    <3>1. \/ anchor' = cert /\ Goto(c, "update") /\ NoFault /\ UNCHANGED told
          \/ cert = None /\ Tell(c, "failed") /\ UNCHANGED anchor
          \/ Fault /\ anchor' \in {anchor, Torn} /\ Tell(c, "failed")
      BY <1>5, <2>3 DEF SystemInstall
    <3>2. UNCHANGED trusted
      BY <1>5, <2>3 DEF SystemInstall
    <3>3. CASE anchor' = cert /\ Goto(c, "update") /\ NoFault /\ UNCHANGED told
      BY <1>3, <2>0, <2>3, <3>2, <3>3
    <3>4. CASE cert = None /\ Tell(c, "failed") /\ UNCHANGED anchor
      BY <1>0, <1>4, <2>0, <3>2, <3>4
    <3>5. CASE Fault /\ anchor' \in {anchor, Torn} /\ Tell(c, "failed")
      <4>1. anchor' \in Content
        BY <1>0, <1>c, <3>5
      <4> QED  BY <1>4, <1>e, <3>2, <3>5, <4>1
    <3> QED  BY <3>1, <3>3, <3>4, <3>5
  <2> QED  BY <1>b, <2>1, <2>2, <2>3
<1>6. CASE SystemInstallUpdate(c)
  <2>0. /\ cmd[c].pc = "update" /\ Installs(c) /\ cmd[c].what # "uninstall"
        /\ machine.platform \in {"distro", "arch"} /\ UNCHANGED anchor
        /\ ~overlapped => anchor = cert
    BY <1>0, <1>6 DEF SystemInstallUpdate, At, Installs, Local, Knows
  <2> DEFINE cas == IF machine.platform = "distro" THEN {anchor} \cap Ca
                    ELSE trusted["system"] \cup ({cert} \cap Ca)
  <2>1. CASE SetTrusted("system", cas) /\ Tell(c, "trusted") /\ NoFault
    <3>1. cas \in SUBSET Ca
      BY <1>h
    <3>2. ~overlapped => cert \in cas /\ (Tidy => cas \subseteq {cert})
      BY <1>d, <2>0 DEF Tidy
    <3> HIDE DEF cas
    <3> QED  BY <1>2, <2>0, <2>1, <3>1, <3>2
  <2>2. CASE Fault /\ Tell(c, "failed") /\ UNCHANGED trusted
    BY <1>0, <1>4, <1>e, <2>0, <2>2
  <2> QED  BY <1>6, <2>1, <2>2 DEF SystemInstallUpdate
<1>7. CASE SystemUninstall(c)
  <2>0. cmd[c].pc = "store" /\ ~Installs(c)
    BY <1>7 DEF SystemUninstall, Untrusting, InStore, At
  <2>1. CASE machine.platform = "other"
    BY <1>0, <1>4, <1>7, <1>i, <2>0, <2>1 DEF SystemUninstall
  <2>2. CASE machine.platform = "keychain"
    <3>1. CASE /\ ToolFails \/ (cert \notin trusted["system"] /\ NoFault)
               /\ Tell(c, "failed") /\ UNCHANGED <<trusted, anchor>>
      <4>1. faults' = 0 /\ faults = 0 /\ ~overlapped /\ Tidy => trusted["system"] = {}
        BY <1>d, <1>e, <1>f, <2>2, <3>1 DEF ToolFails
      <4> QED  BY <1>0, <1>4, <2>0, <3>1, <4>1
    <3>2. CASE /\ Tell(c, "untrusted") /\ UNCHANGED anchor
               /\ SetTrusted("system", trusted["system"] \ {cert})
      <4>1. trusted["system"] \ {cert} \in SUBSET Ca
        BY <1>h
      <4> QED  BY <1>0, <1>1, <1>f, <2>0, <2>2, <3>2, <4>1
    <3> QED  BY <1>7, <2>2, <3>1, <3>2 DEF SystemUninstall, KeychainUninstall
  <2>3. CASE machine.platform \in {"distro", "arch"}
    <3>1. \/ anchor = None /\ Tell(c, "untrusted") /\ UNCHANGED anchor
          \/ anchor' = None /\ Goto(c, "update") /\ NoFault /\ UNCHANGED told
          \/ Fault /\ Tell(c, "failed") /\ UNCHANGED anchor
      BY <1>7, <2>3 DEF SystemUninstall
    <3>2. UNCHANGED trusted
      BY <1>7, <2>3 DEF SystemUninstall
    <3>3. CASE anchor' = None /\ Goto(c, "update") /\ NoFault /\ UNCHANGED told
      BY <1>3, <2>0, <2>3, <3>2, <3>3
    <3>4. CASE anchor = None /\ Tell(c, "untrusted") /\ UNCHANGED anchor
      BY <1>0, <1>4, <1>f, <2>0, <2>3, <3>2, <3>4 DEF Tidy
    <3>5. CASE Fault /\ Tell(c, "failed") /\ UNCHANGED anchor
      BY <1>0, <1>4, <1>e, <3>2, <3>5
    <3> QED  BY <3>1, <3>3, <3>4, <3>5
  <2> QED  BY <1>b, <2>1, <2>2, <2>3
<1>8. CASE SystemUninstallUpdate(c)
  <2>0. /\ cmd[c].pc = "update" /\ ~Installs(c) /\ UNCHANGED anchor
        /\ machine.platform \in {"distro", "arch"}
        /\ ~overlapped => anchor = None
    BY <1>0, <1>8 DEF SystemUninstallUpdate, At, Local, Knows
  <2>1. CASE \E o \in {"untrusted", "failed"} : Fault /\ Tell(c, o) /\ UNCHANGED trusted
    BY <1>0, <1>4, <1>e, <2>0, <2>1
  <2>2. CASE /\ machine.platform = "distro" /\ Tell(c, "untrusted")
             /\ SetTrusted("system", {anchor} \cap Ca)
    <3>1. ~overlapped => {anchor} \cap Ca = {}
      BY <1>c, <2>0
    <3>2. {anchor} \cap Ca \in SUBSET Ca
      OBVIOUS
    <3> QED  BY <1>0, <1>1, <2>0, <2>2, <3>1, <3>2
  <2>3. CASE machine.platform = "arch" /\ Tell(c, "untrusted") /\ UNCHANGED trusted
    BY <1>0, <1>4, <2>0, <2>3 DEF Tidy
  <2> QED  BY <1>8, <2>0, <2>1, <2>2, <2>3 DEF SystemUninstallUpdate
<1> QED  BY <1>5, <1>6, <1>7, <1>8

LEMMA NssSteps ==
  ASSUME Inv, NEW c \in Command,
         \/ NssNothingToDo(c) \/ \E p \in Profile : NssInstall(c, p) \/ NssUninstall(c, p)
  PROVE  Inv'
<1>0. /\ cmd \in [Command -> CmdType] /\ told \in [Store -> ToldType]
      /\ trusted \in [Place -> SUBSET Ca] /\ machine \in Machine
      /\ cert \in Content /\ anchor \in Content
      /\ Local(c) /\ (~overlapped => Knows(c)) /\ ToldTrue /\ Clean /\ Alone
      /\ OutOfReach /\ faults \in 0..MaxFaults
  BY TypeOKIs DEF Inv
<1>a. /\ UNCHANGED <<machine, files, made, daemon, overlapped>>
      /\ UNCHANGED <<machine, cert, key, overlapped, anchor>>
      /\ Fault \/ NoFault
      /\ cmd[c].pc = "store" /\ cmd[c].todo # << >> /\ Head(cmd[c].todo) = "nss"
  BY DEF NssNothingToDo, NssInstall, NssUninstall, Trusting, Untrusting, InStore,
     At, files, ToolFails, NoFault
<1>b. /\ "nss" \in Store /\ "system" \in Place \ Of("nss") /\ "java" \in Place \ Of("nss")
      /\ Of("nss") = Profile /\ Profile \subseteq Place
      /\ \A p \in Profile : p # "system" /\ p # "java"
      /\ machine.profiles \subseteq Profile
      /\ cmd[c].rest \subseteq machine.profiles
  BY <1>0, MachineAssumption, ProfileAssumption DEF Place, Store, Of, Local
<1>c. ~overlapped => Loads /\ cert \in Ca
  BY <1>0, <1>a DEF Knows, Loads
<1>d. faults' = 0 => ~Fault
  BY <1>0, <1>a, FaultLemma
<1>e. faults = 0 /\ ~overlapped /\ Tidy =>
        /\ \A p \in Profile : trusted[p] \subseteq {cert}
        /\ cmd[c].what = "uninstall" =>
             \A p \in Profile \ cmd[c].rest : trusted[p] = {}
  BY <1>0, <1>a, <1>b DEF Clean, Cleared

(* The store answers. *)
<1>1. ASSUME NEW o \in {"trusted", "untrusted", "failed"}, Tell(c, o),
             trusted' \in [Place -> SUBSET Ca], OutOfReach',
             \A p \in Place \ Profile : trusted'[p] = trusted[p],
             ~overlapped /\ o = "trusted" => Installs(c) /\ Holds("nss", cert)',
             faults' = 0 /\ faults = 0 /\ ~overlapped /\ Tidy =>
               /\ \A p \in Profile : trusted'[p] \subseteq {cert}
               /\ cmd[c].what = "uninstall" => \A p \in Profile : trusted'[p] = {}
      PROVE  Inv'
  <2>1. cmd[c].pc \in {"store", "update"} /\ anchor' \in Content
        /\ UNCHANGED anchor
    BY <1>0, <1>a
  <2>2. \A p \in Place \ Of("nss") : trusted'[p] = trusted[p]
    BY <1>1, <1>b
  <2> QED  BY <1>1, <1>a, <1>b, <2>1, <2>2, AnswerKeepsInv

(* It goes on with the next profile. *)
<1>2. ASSUME NEW p \in cmd[c].rest, NEW ok \in BOOLEAN,
             cmd' = [cmd EXCEPT ![c].rest = @ \ {p}, ![c].ok = ok],
             told' = [told EXCEPT !["nss"] = "nothing"],
             trusted' \in [Place -> SUBSET Ca], OutOfReach',
             \A q \in Place \ {p} : trusted'[q] = trusted[q],
             ok => Installs(c),
             ~overlapped /\ ok => \E q \in machine.profiles : cert \in trusted'[q],
             faults' = 0 /\ faults = 0 /\ ~overlapped /\ Tidy =>
               /\ trusted'[p] \subseteq {cert}
               /\ cmd[c].what = "uninstall" => trusted'[p] = {}
      PROVE  Inv'
  <2> DEFINE r1 == [cmd[c] EXCEPT !.rest = cmd[c].rest \ {p}]
             r2 == [r1 EXCEPT !.ok = ok]
  <2>1. /\ r1 \in CmdType /\ r1.pc = cmd[c].pc /\ r1.what = cmd[c].what
        /\ r1.new = cmd[c].new /\ r1.todo = cmd[c].todo /\ r1.rest = cmd[c].rest \ {p}
    BY <1>0 DEF CmdType
  <2>2. /\ r2 \in CmdType /\ r2.pc = cmd[c].pc /\ r2.what = cmd[c].what
        /\ r2.new = cmd[c].new /\ r2.todo = cmd[c].todo /\ r2.rest = cmd[c].rest \ {p}
        /\ r2.ok = ok
    <3> HIDE DEF r1
    <3> QED  BY <2>1 DEF CmdType
  <2>3. cmd' = [cmd EXCEPT ![c] = r2]
    BY <1>2
  <2> HIDE DEF r2
  <2>4. CmdBecomes(c, r2.pc, r2.what, r2.new, r2.todo, r2.rest, r2.ok)
    BY <1>0, <2>2, <2>3, CmdReplaced
  <2>5. /\ cmd' \in [Command -> CmdType]
        /\ \A d \in Command \ {c} : cmd'[d] = cmd[d]
        /\ cmd'[c].pc = "store" /\ cmd'[c].what = cmd[c].what
        /\ cmd'[c].todo = cmd[c].todo /\ cmd'[c].rest = cmd[c].rest \ {p}
    BY <1>a, <2>2, <2>4 DEF CmdBecomes
  <2>6. cmd'[c].ok = ok
    BY <2>2, <2>4, Zenon DEF CmdBecomes
  <2>7. /\ told' \in [Store -> ToldType] /\ told'["nss"] = "nothing"
        /\ \A s \in Store \ {"nss"} : told'[s] = told[s]
    BY <1>0, <1>2, <1>b DEF ToldType
  <2>8. Local(c)'
    BY <1>0, <1>2, <1>a, <2>5, <2>6 DEF Local, InStore, At, Installs
  <2>9. \A s \in Store : InTodo(c, s)' <=> InTodo(c, s)
    BY <2>5 DEF InTodo
  <2>10. ~overlapped => Knows(c)'
    <3> SUFFICES ASSUME ~overlapped PROVE Knows(c)'
      OBVIOUS
    <3>1. Loads'
      BY <1>a, <1>c DEF Loads
    <3>2. cmd[c].what = "uninstall" =>
            \A s \in Store : told'[s] = "trusted" => InTodo(c, s)'
      BY <1>0, <1>a, <2>7, <2>9 DEF Knows
    <3>3. cmd'[c].ok => \E q \in machine'.profiles : cert' \in trusted'[q]
      BY <1>2, <1>a, <2>6
    <3> QED  BY <2>5, <3>1, <3>2, <3>3 DEF Knows
  <2>11. ASSUME ~overlapped, NEW s \in Store, told'[s] = "trusted"
         PROVE  Holds(s, cert)'
    <3>1. s # "nss" /\ s \in Place /\ s # p /\ Holds(s, cert)
      BY <1>0, <1>2, <1>b, <2>7, <2>11 DEF Store, Place, ToldTrue
    <3> QED  BY <1>2, <1>a, <3>1 DEF Holds
  <2>12. ASSUME faults' = 0, faults = 0, ~overlapped, Tidy
         PROVE  /\ \A q \in Place : trusted'[q] \subseteq {cert}
                /\ BundleCurrent' /\ Cleared(c)'
    <3>1. \A q \in Place : trusted'[q] \subseteq {cert}
      BY <1>0, <1>2, <2>12 DEF Clean
    <3>2. BundleCurrent'
      <4>1. \A d \in Command : ~At(d, "update")
        BY <1>0, <1>a, <2>12 DEF Alone, At
      <4>2. trusted'["system"] = trusted["system"] /\ anchor' = anchor
        BY <1>2, <1>a, <1>b
      <4> QED  BY <1>0, <1>a, <2>12, <4>1, <4>2 DEF Clean, BundleCurrent
    <3>3. ASSUME cmd[c].what = "uninstall", NEW s \in Store, ~InTodo(c, s),
                 NEW q \in Of(s)
          PROVE  trusted'[q] = {}
      <4>1. trusted[q] = {} /\ q \in Place
        BY <1>0, <1>a, <2>12, <3>3, OfLemma DEF Clean, Cleared
      <4> QED  BY <1>2, <2>12, <3>3, <4>1
    <3>4. ASSUME cmd[c].what = "uninstall", NEW q \in Profile \ (cmd[c].rest \ {p})
          PROVE  trusted'[q] = {}
      <4>1. q \in Place
        BY <1>b
      <4> QED  BY <1>2, <1>e, <2>12, <3>4, <4>1
    <3>5. Cleared(c)'
      BY <2>5, <2>9, <3>3, <3>4 DEF Cleared
    <3> QED  BY <3>1, <3>2, <3>5
  <2>13. /\ cmd[c].pc \in {"store", "update"} /\ cmd'[c].pc \in {"store", "update"}
         /\ anchor' \in Content
    BY <1>0, <1>a, <2>5
  <2> QED
    BY <1>2, <1>a, <2>5, <2>7, <2>8, <2>10, <2>11, <2>12, <2>13, StoreKeepsInv

(* One profile is done. *)
<1>3. ASSUME NEW p \in cmd[c].rest, "certutil" \in machine.tools[c],
             NEW cas \in SUBSET Ca, SetTrusted(p, cas),
             NEW ok \in BOOLEAN, NEW answer \in {"trusted", "untrusted", "failed"},
             NssNext(c, p, ok, answer),
             ok \/ answer = "trusted" => Installs(c),
             ~overlapped /\ (ok \/ answer = "trusted") =>
               cert \in cas \/ \E q \in machine.profiles \ {p} : cert \in trusted[q],
             faults' = 0 /\ faults = 0 /\ ~overlapped /\ Tidy =>
               cas \subseteq {cert} /\ (cmd[c].what = "uninstall" => cas = {})
      PROVE  Inv'
  <2>1. p \in Place /\ p \in Profile /\ p \in machine.profiles
    BY <1>3, <1>b
  <2>2. /\ trusted' \in [Place -> SUBSET Ca] /\ trusted'[p] = cas
        /\ \A q \in Place \ {p} : trusted'[q] = trusted[q]
    BY <1>0, <1>3, <2>1, TrustedLemma
  <2>3. OutOfReach'
    <3>1. trusted'["system"] = trusted["system"] /\ trusted'["java"] = trusted["java"]
      BY <1>b, <2>1, <2>2
    <3> QED  BY <1>0, <1>3, <1>a, <1>b, <2>1, <2>2, <3>1 DEF OutOfReach, Lacks
  <2>4. ~overlapped /\ (ok \/ answer = "trusted") =>
          \E q \in machine.profiles : cert \in trusted'[q]
    BY <1>3, <1>b, <2>1, <2>2
  <2>5. CASE cmd[c].rest = {p}
    <3>1. Tell(c, answer)
      BY <1>3, <2>5 DEF NssNext
    <3>2. ~overlapped /\ answer = "trusted" => Installs(c) /\ Holds("nss", cert)'
      BY <1>3, <1>a, <2>4 DEF Holds
    <3>3. ASSUME faults' = 0, faults = 0, ~overlapped, Tidy
          PROVE  /\ \A q \in Profile : trusted'[q] \subseteq {cert}
                 /\ cmd[c].what = "uninstall" => \A q \in Profile : trusted'[q] = {}
      BY <1>3, <1>b, <1>e, <2>2, <2>5, <3>3
    <3>4. \A q \in Place \ Profile : trusted'[q] = trusted[q]
      BY <2>1, <2>2
    <3> QED  BY <1>1, <2>2, <2>3, <3>1, <3>2, <3>3, <3>4
  <2>6. CASE cmd[c].rest # {p}
    <3>1. /\ cmd' = [cmd EXCEPT ![c].rest = @ \ {p}, ![c].ok = ok]
          /\ told' = [told EXCEPT !["nss"] = "nothing"]
      BY <1>3, <2>6 DEF NssNext
    <3> QED  BY <1>2, <1>3, <2>2, <2>3, <2>4, <3>1
  <2> QED  BY <2>5, <2>6

(* The store answers with nothing changed. *)
<1>f. /\ \A p \in Profile : trusted[p] \in SUBSET Ca
      /\ \A p \in Profile : trusted' = trusted => SetTrusted(p, trusted[p])
  BY <1>0, <1>b DEF SetTrusted
<1>g. UNCHANGED trusted => OutOfReach'
  BY <1>0, <1>a DEF OutOfReach, Lacks
<1>4. ASSUME Fault, Tell(c, "failed"), UNCHANGED trusted
      PROVE  Inv'
  BY <1>0, <1>1, <1>4, <1>d, <1>g
<1>5. CASE NssNothingToDo(c)
  <2>1. /\ UNCHANGED trusted
        /\ "certutil" \notin machine.tools[c] \/ machine.profiles = {}
    BY <1>5 DEF NssNothingToDo, Certutil, NssProfiles
  <2>2. /\ Tidy => \A p \in Profile : trusted'[p] = {}
        /\ \A p \in Profile : trusted'[p] = trusted[p]
    BY <1>0, <2>1 DEF OutOfReach, Lacks, Tidy, SameTools
  <2> DEFINE o == IF ~Installs(c) THEN "untrusted"
                  ELSE IF "certutil" \in machine.tools[c] THEN "trusted" ELSE "failed"
  <2>3. Tell(c, o)
    BY <1>5 DEF NssNothingToDo, Certutil, NssProfiles
  <2>4. /\ o \in {"trusted", "untrusted", "failed"}
        /\ o = "trusted" => Installs(c) /\ machine.profiles = {}
    BY <2>1
  <2> HIDE DEF o
  <2>5. machine.profiles = {} => Holds("nss", cert)'
    BY <1>a DEF Holds
  <2> QED  BY <1>0, <1>1, <1>g, <2>1, <2>2, <2>3, <2>4, <2>5
<1>6. ASSUME NEW p \in Profile, NssInstall(c, p)
      PROVE  Inv'
  <2>0. /\ Installs(c) /\ cmd[c].what # "uninstall" /\ "certutil" \in machine.tools[c]
        /\ p \in cmd[c].rest /\ cmd[c].ok \in BOOLEAN
    BY <1>0, <1>6 DEF NssInstall, Certutil, Trusting, Installs, CmdType
  <2>1. CASE /\ cert \in Ca /\ SetTrusted(p, trusted[p] \cup {cert})
             /\ NssNext(c, p, TRUE, "trusted")
    <3>1. trusted[p] \cup {cert} \in SUBSET Ca
      BY <1>f, <2>1
    <3>2. faults = 0 /\ ~overlapped /\ Tidy =>
            trusted[p] \cup {cert} \subseteq {cert}
      BY <1>e
    <3> QED  BY <1>3, <2>0, <2>1, <3>1, <3>2
  <2>2. CASE /\ UNCHANGED trusted
             /\ NssNext(c, p, cmd[c].ok, IF cmd[c].ok THEN "trusted" ELSE "failed")
    <3> DEFINE answer == IF cmd[c].ok THEN "trusted" ELSE "failed"
    <3>1. /\ answer \in {"trusted", "untrusted", "failed"}
          /\ answer = "trusted" => cmd[c].ok
      OBVIOUS
    <3>2. NssNext(c, p, cmd[c].ok, answer)
      BY <2>2
    <3> HIDE DEF answer
    <3>3. ~overlapped /\ (cmd[c].ok \/ answer = "trusted") =>
            cert \in trusted[p] \/ \E q \in machine.profiles \ {p} : cert \in trusted[q]
      BY <1>0, <3>1 DEF Knows
    <3>4. faults = 0 /\ ~overlapped /\ Tidy =>
            trusted[p] \subseteq {cert}
      BY <1>e
    <3>5. trusted[p] \in SUBSET Ca /\ SetTrusted(p, trusted[p])
      BY <1>f, <2>2
    <3> QED  BY <1>3, <2>0, <3>1, <3>2, <3>3, <3>4, <3>5
  <2> QED  BY <1>4, <1>6, <2>1, <2>2 DEF NssInstall
<1>7. ASSUME NEW p \in Profile, NssUninstall(c, p)
      PROVE  Inv'
  <2>0. /\ "certutil" \in machine.tools[c] /\ p \in cmd[c].rest
    BY <1>7 DEF NssUninstall, Certutil
  <2>1. ASSUME NssNext(c, p, FALSE, "untrusted"), NEW cas \in SUBSET Ca,
               SetTrusted(p, cas),
               faults' = 0 /\ faults = 0 /\ ~overlapped /\ Tidy =>
                 cas = {}
        PROVE  Inv'
    BY <1>3, <2>0, <2>1
  <2>2. CASE /\ UNCHANGED trusted /\ (trusted[p] = {} \/ Fault)
             /\ NssNext(c, p, FALSE, "untrusted")
    BY <1>d, <1>f, <2>1, <2>2
  <2>3. ASSUME NEW x \in trusted[p], SetTrusted(p, trusted[p] \ {x}),
               NssNext(c, p, FALSE, "untrusted")
        PROVE  Inv'
    <3>1. trusted[p] \ {x} \in SUBSET Ca
      BY <1>f
    <3>2. faults = 0 /\ ~overlapped /\ Tidy => trusted[p] \ {x} = {}
      BY <1>e, <2>3
    <3> QED  BY <2>1, <2>3, <3>1, <3>2
  <2> QED  BY <1>4, <1>7, <2>2, <2>3 DEF NssUninstall
<1> QED  BY <1>5, <1>6, <1>7

LEMMA JavaSteps ==
  ASSUME Inv, NEW c \in Command, JavaInstall(c) \/ JavaUninstall(c)
  PROVE  Inv'
<1>0. /\ cmd \in [Command -> CmdType] /\ told \in [Store -> ToldType]
      /\ trusted \in [Place -> SUBSET Ca] /\ machine \in Machine
      /\ cert \in Content /\ anchor \in Content
      /\ (~overlapped => Knows(c)) /\ Clean /\ OutOfReach /\ faults \in 0..MaxFaults
  BY TypeOKIs DEF Inv
<1>a. /\ UNCHANGED <<machine, files, made, daemon, overlapped>>
      /\ UNCHANGED <<machine, cert, key, overlapped, anchor>>
      /\ Fault \/ NoFault
      /\ cmd[c].pc = "store" /\ cmd[c].todo # << >> /\ Head(cmd[c].todo) = "java"
  BY DEF JavaInstall, JavaUninstall, Trusting, Untrusting, InStore, At, files, ToolFails
<1>b. /\ "java" \in Store /\ "java" \in Place /\ Of("java") = {"java"}
      /\ \A p \in Profile : p # "java"
  BY ProfileAssumption DEF Place, Store, Of
<1>c. faults' = 0 => ~Fault
  BY <1>0, <1>a, FaultLemma
<1>d. faults = 0 /\ ~overlapped /\ Tidy =>
        trusted["java"] \subseteq {cert}
  BY <1>0, <1>b DEF Clean
<1>e. trusted["java"] \in SUBSET Ca
      /\ (trusted' = trusted => SetTrusted("java", trusted["java"]))
  BY <1>0, <1>b DEF SetTrusted
<1>1. ASSUME NEW o \in {"trusted", "untrusted", "failed"}, Tell(c, o),
             NEW cas \in SUBSET Ca, SetTrusted("java", cas),
             Lacks("keytool") => cas = {},
             o = "trusted" => Installs(c) /\ cert \in cas,
             faults' = 0 /\ faults = 0 /\ ~overlapped /\ Tidy =>
               cas \subseteq {cert} /\ (cmd[c].what = "uninstall" => cas = {})
      PROVE  Inv'
  <2>1. /\ trusted' \in [Place -> SUBSET Ca] /\ trusted'["java"] = cas
        /\ \A q \in Place \ {"java"} : trusted'[q] = trusted[q]
    BY <1>0, <1>1, <1>b, TrustedLemma
  <2>2. OutOfReach'
    BY <1>0, <1>1, <1>a, <1>b, <2>1 DEF OutOfReach, Lacks, Place
  <2>3. o = "trusted" => Installs(c) /\ Holds("java", cert)'
    BY <1>1, <1>a, <2>1 DEF Holds
  <2>4. cmd[c].pc \in {"store", "update"} /\ anchor' \in Content /\ UNCHANGED anchor
    BY <1>0, <1>a
  <2> QED  BY <1>1, <1>a, <1>b, <2>1, <2>2, <2>3, <2>4, AnswerKeepsInv
<1>2. CASE JavaInstall(c)
  <2>0. Installs(c) /\ cmd[c].what # "uninstall"
    BY <1>2 DEF JavaInstall, Trusting, Installs
  <2>1. CASE /\ "keytool" \in machine.tools[c] /\ cert \in Ca
             /\ SetTrusted("java", {cert}) /\ Tell(c, "trusted")
    <3>1. {cert} \in SUBSET Ca /\ ~Lacks("keytool")
      BY <2>1 DEF Lacks
    <3> QED  BY <1>1, <2>0, <2>1, <3>1
  <2>2. CASE Tell(c, "failed") /\ UNCHANGED trusted
    BY <1>0, <1>1, <1>d, <1>e, <2>0, <2>2 DEF OutOfReach, Lacks
  <2> QED  BY <1>2, <2>1, <2>2 DEF JavaInstall, Keytool
<1>3. CASE JavaUninstall(c)
  <2>1. CASE Tell(c, "untrusted") /\ UNCHANGED trusted /\ ~HasAlias(c)
    <3>1. Tidy => trusted["java"] = {}
      BY <1>0, <2>1 DEF HasAlias, Keytool, OutOfReach, Lacks, Tidy, SameTools
    <3>2. Lacks("keytool") => trusted["java"] = {}
      BY <1>0 DEF OutOfReach
    <3> QED  BY <1>1, <1>e, <2>1, <3>1, <3>2
  <2>2. CASE SetTrusted("java", {}) /\ Tell(c, "untrusted")
    BY <1>1, <2>2
  <2>3. ASSUME NEW o \in {"untrusted", "failed"}, Fault, Tell(c, o), UNCHANGED trusted
        PROVE  Inv'
    BY <1>0, <1>1, <1>c, <1>e, <2>3 DEF OutOfReach, Lacks
  <2> QED  BY <1>3, <2>1, <2>2, <2>3 DEF JavaUninstall
<1> QED  BY <1>2, <1>3

-----------------------------------------------------------------------------
(* The daemon. *)

LEMMA DaemonSteps ==
  ASSUME Inv, LoadCa \/ ServeHttps \/ DaemonEnds
  PROVE  Inv'
<1>0. /\ TypeOK /\ daemon \in DaemonType
      /\ Alone /\ Numbered /\ OutOfReach
      /\ \A c \in Command : Local(c) /\ (~overlapped => Knows(c))
      /\ ToldTrue /\ PairMatches /\ KeyLast /\ LoadedPair /\ Clean
  BY TypeOKIs DEF Inv
<1>1. /\ UNCHANGED <<machine, cert, key, anchor, trusted, told, made, cmd, faults,
                     overlapped>>
  BY DEF LoadCa, ServeHttps, DaemonEnds, files, stores
<1>2. daemon' \in DaemonType
  <2>1. CASE /\ daemon.stage = "down" /\ cert \in Ca
             /\ daemon' = [NoDaemon EXCEPT !.stage = "reading",
                                           !.ca = [cert |-> cert, key |-> None]]
    BY <2>1 DEF NoDaemon, DaemonType
  <2>4. CASE /\ daemon.stage = "reading" /\ key \in Ca
             /\ daemon.ca \in [cert : Ca, key : {None}]
             /\ daemon' = [daemon EXCEPT !.stage = "loaded", !.ca.key = key,
                                         !.raced = (cert # daemon.ca.cert)]
    BY <1>0, <2>4 DEF DaemonType
  <2>5. CASE daemon' = [NoDaemon EXCEPT !.stage = "loaded"]
    BY <2>5 DEF NoDaemon, DaemonType
  <2>2. CASE ServeHttps
    <3>1. Loads \in BOOLEAN
      BY DEF Loads
    <3> QED  BY <1>0, <2>2, <3>1 DEF ServeHttps, DaemonType
  <2>3. CASE DaemonEnds
    BY <2>3 DEF DaemonEnds, NoDaemon, DaemonType
  <2> QED  BY <1>0, <2>1, <2>2, <2>3, <2>4, <2>5 DEF LoadCa, LoadedPair
<1>3. TypeOK'
  BY <1>0, <1>1, <1>2 DEF TypeOK, DaemonType, Content
<1>4. Alone' /\ Numbered' /\ OutOfReach' /\ ToldTrue' /\ PairMatches' /\ KeyLast'
  BY <1>0, <1>1
     DEF Alone, Numbered, OutOfReach, Lacks, ToldTrue, PairMatches, KeyLast, Loads, Holds, At
<1>5. ASSUME NEW c \in Command
      PROVE  Local(c)' /\ (~overlapped' => Knows(c)')
  <2>1. Local(c)'
    BY <1>0, <1>1 DEF Local, InStore, Installs, At
  <2>2. \A s \in Store : InTodo(c, s)' <=> InTodo(c, s)
    BY <1>1 DEF InTodo
  <2>3. ~overlapped' => Knows(c)'
    BY <1>0, <1>1, <2>2 DEF Knows, Installs, Loads
  <2> QED  BY <2>1, <2>3
<1>6. Clean'
  <2>1. \A c \in Command : Cleared(c)' <=> Cleared(c)
    BY <1>1 DEF Cleared, InTodo, Of
  <2>2. \A c \in Command : (At(c, "update") /\ ~Installs(c))' <=>
                           At(c, "update") /\ ~Installs(c)
    BY <1>1 DEF At, Installs
  <2>3. Loads' <=> Loads
    BY <1>1 DEF Loads
  <2> QED  BY <1>0, <1>1, <2>1, <2>2, <2>3 DEF Clean, Tidy, SameTools
<1>7. LoadedPair'
  <2>4. daemon'.stage = "reading" =>
          daemon'.ca \in [cert : Ca, key : {None}] /\ ~daemon'.https
    <3>1. CASE /\ daemon.stage = "down" /\ cert \in Ca
               /\ daemon' = [NoDaemon EXCEPT !.stage = "reading",
                                             !.ca = [cert |-> cert, key |-> None]]
      BY <3>1 DEF NoDaemon
    <3>2. CASE daemon' = [daemon EXCEPT !.stage = "loaded", !.ca.key = key,
                                        !.raced = (cert # daemon.ca.cert)]
      BY <1>0, <3>2 DEF DaemonType
    <3>3. CASE daemon' = [NoDaemon EXCEPT !.stage = "loaded"]
      BY <3>3 DEF NoDaemon
    <3>4. CASE ServeHttps
      BY <1>0, <3>4 DEF ServeHttps, DaemonType
    <3>5. CASE DaemonEnds
      BY <3>5 DEF DaemonEnds, NoDaemon
    <3> QED  BY <3>1, <3>2, <3>3, <3>4, <3>5 DEF LoadCa
  <2> SUFFICES ASSUME faults = 0, ~overlapped, daemon'.ca # None, ~daemon'.raced,
                      daemon'.stage # "reading"
               PROVE  daemon'.ca.cert = daemon'.ca.key
    BY <1>1, <2>4 DEF LoadedPair
  <2>1. CASE LoadCa
    <3>1. /\ daemon.stage = "reading" /\ key \in Ca
          /\ daemon' = [daemon EXCEPT !.stage = "loaded", !.ca.key = key,
                                      !.raced = (cert # daemon.ca.cert)]
      BY <2>1 DEF LoadCa, NoDaemon
    <3>2. daemon.ca \in [cert : Ca, key : Ca \cup {None}]
      BY <1>0, <3>1 DEF LoadedPair, DaemonType
    <3>3. daemon'.ca.cert = cert /\ daemon'.ca.key = key /\ cert \in Ca
      BY <1>0, <3>1, <3>2 DEF DaemonType
    <3>4. Loads /\ \A c \in Command : ~At(c, "save_key")
      BY <1>0, <3>1, <3>3 DEF KeyLast, Loads
    <3>5. cert = key
      BY <1>0, <3>4 DEF PairMatches
    <3> QED  BY <3>3, <3>5
  <2>2. CASE ServeHttps
    BY <1>0, <2>2 DEF ServeHttps, DaemonType, LoadedPair
  <2>3. CASE DaemonEnds
    BY <2>3 DEF DaemonEnds, NoDaemon
  <2> QED  BY <2>1, <2>2, <2>3
<1> QED  BY <1>3, <1>4, <1>5, <1>6, <1>7 DEF Inv

-----------------------------------------------------------------------------

LEMMA InvInit == Init => Inv
<1> SUFFICES ASSUME Init PROVE Inv
  OBVIOUS
<1>1. /\ machine \in Machine /\ cert = None /\ key = None /\ anchor = None
      /\ trusted = [p \in Place |-> {}] /\ made = 0 /\ faults = 0 /\ overlapped = FALSE
      /\ cmd = [c \in Command |-> NotRunning]
      /\ told = [s \in Store |-> "nothing"] /\ daemon = NoDaemon
  BY DEF Init
<1>2. cmd \in [Command -> CmdType]
  BY <1>1, NotRunningLemma
<1>3. \A c \in Command : /\ cmd[c].pc = "idle" /\ ~cmd[c].ok /\ cmd[c].todo = << >>
                         /\ cmd[c].rest = {}
  BY <1>1, NotRunningLemma
<1>4. None \notin Ca /\ None \in Content
  BY FilesAssumption DEF Ca, Content
<1>5. TypeOK
  <2>1. daemon \in DaemonType
    BY <1>1 DEF NoDaemon, DaemonType
  <2>2. made \in 0..MaxCa /\ faults \in 0..MaxFaults
    BY <1>1, BoundsAssumption
  <2>4. overlapped \in BOOLEAN
    BY <1>1
  <2>3. trusted \in [Place -> SUBSET Ca] /\ told \in [Store -> ToldType]
    BY <1>1 DEF ToldType
  <2> QED  BY <1>1, <1>2, <1>4, <2>1, <2>2, <2>3, <2>4, TypeOKIs
<1>6. \A p \in Place : trusted[p] = {}
  BY <1>1
<1>7. Alone /\ Numbered /\ OutOfReach
  BY <1>1, <1>3, <1>4, <1>6 DEF Alone, Numbered, OutOfReach, Lacks, At, Place
<1>8. \A c \in Command : Local(c) /\ Knows(c) /\ Cleared(c)
  BY <1>3 DEF Local, Knows, Cleared
<1>9. ToldTrue /\ PairMatches /\ KeyLast /\ LoadedPair
  BY <1>1, <1>4 DEF ToldTrue, PairMatches, KeyLast, LoadedPair, Loads, NoDaemon
<1>10. Clean
  BY <1>1, <1>6, <1>8 DEF Clean, Place
<1> QED  BY <1>5, <1>7, <1>8, <1>9, <1>10 DEF Inv

LEMMA NextInv == Inv /\ [Next]_vars => Inv'
<1> SUFFICES ASSUME Inv, [Next]_vars PROVE Inv'
  OBVIOUS
<1>1. ASSUME NEW c \in Command, NEW what \in What, Ask(c, what)
      PROVE  Inv'
  BY <1>1, AskKeepsInv
<1>2. ASSUME NEW c \in Command, CommandStep(c)
      PROVE  Inv'
  <2>1. CASE \/ Check(c) \/ LoadOrGenerate(c) \/ InstallTrusts(c)
             \/ AfterStores(c) \/ Dies(c)
    BY <2>1, QuietSteps
  <2>2. CASE Save(c) \/ SaveFails(c) \/ RemoveFiles(c)
    BY <2>2, FileSteps
  <2>3. CASE StoreStep(c)
    BY <2>3, SystemSteps, NssSteps, JavaSteps DEF StoreStep
  <2> QED  BY <1>2, <2>1, <2>2, <2>3 DEF CommandStep
<1>3. CASE LoadCa \/ ServeHttps \/ DaemonEnds
  BY <1>3, DaemonSteps
<1>4. CASE UNCHANGED vars
  <2>1. /\ UNCHANGED <<machine, cert, key, anchor, trusted, told, made, cmd, daemon,
                       faults, overlapped>>
    BY <1>4 DEF vars, files, stores
  <2>2. TypeOK'
    BY <2>1 DEF Inv, TypeOK, Content
  <2>3. /\ Alone' /\ Numbered' /\ OutOfReach' /\ ToldTrue' /\ PairMatches' /\ KeyLast'
        /\ LoadedPair'
    BY <2>1 DEF Inv, Alone, Numbered, OutOfReach, Lacks, ToldTrue, PairMatches, KeyLast,
       LoadedPair, Loads, Holds, At
  <2>4. ASSUME NEW c \in Command
        PROVE  Local(c)' /\ (~overlapped' => Knows(c)')
    <3>1. Local(c)'
      BY <2>1 DEF Inv, Local, InStore, Installs, At
    <3>2. \A s \in Store : InTodo(c, s)' <=> InTodo(c, s)
      BY <2>1 DEF InTodo
    <3>3. ~overlapped' => Knows(c)'
      BY <2>1, <3>2 DEF Inv, Knows, Installs, Loads
    <3> QED  BY <3>1, <3>3
  <2>5. Clean'
    BY <2>1 DEF Inv, Clean, Cleared, InTodo, Of, At, Installs, Loads, Tidy, SameTools
  <2> QED  BY <2>2, <2>3, <2>4, <2>5 DEF Inv
<1> QED  BY <1>1, <1>2, <1>3, <1>4 DEF Next

LEMMA InvAlways == Spec => []Inv
BY InvInit, NextInv, PTL DEF Spec

(* The files, the stores, the commands and the daemon keep their types.    *)
THEOREM TypeCorrect == Spec => []TypeOK
<1>1. Inv => TypeOK
  BY DEF Inv
<1> QED  BY <1>1, InvAlways, PTL

(* After one failure at most, the certificate and the key that Ca::load    *)
(* accepts belong together, unless commands overlapped or save is between  *)
(* its two writes (ca.rs:155).                                             *)
THEOREM PairsAlwaysMatch == Spec => []PairMatches
<1>1. Inv => PairMatches
  BY DEF Inv
<1> QED  BY <1>1, InvAlways, PTL

(* However many failures there were, a store of which the user was last    *)
(* told that it trusts the CA (cert.rs:99) does, for the CA on disk.       *)
THEOREM TrustedAlwaysTrue == Spec => []TrustedIsTrue
<1>1. Inv => TrustedIsTrue
  BY DEF Inv, ToldTrue, TrustedIsTrue
<1> QED  BY <1>1, InvAlways, PTL

(* As long as nothing fails and every command finds the same tools, but    *)
(* not on Arch, no place trusts any CA but the one on disk once the        *)
(* commands are done (cert.rs:44).                                         *)
THEOREM NeverOrphans == Spec => []NoOrphans
<1>1. Inv => NoOrphans
  BY DEF Inv, Clean, NoOrphans, Tidy
<1> QED  BY <1>1, InvAlways, PTL

(* As long as nothing fails, a daemon that serves HTTPS has a pair that    *)
(* belongs together, unless the CA was replaced between its two reads      *)
(* (ca.rs:97), and one the stores trust if it is still on disk.            *)
THEOREM BrowsersAlwaysAccept == Spec => []BrowsersAccept
<1>1. Inv => BrowsersAccept
  BY DEF Inv, LoadedPair, ToldTrue, BrowsersAccept
<1> QED  BY <1>1, InvAlways, PTL

(* A CA whose two files are whole and belong together. *)
Whole == Loads /\ cert = key

(* The files change: then an uninstall is under way. *)
OnlyUninstallReplaces ==
  Whole /\ files' # files /\ ~overlapped =>
    \E c \in Command : cmd[c].what = "uninstall"

LEMMA NextReplaces == Inv /\ [Next]_vars => OnlyUninstallReplaces
<1> SUFFICES ASSUME Inv, [Next]_vars, Loads, cert = key, files' # files, ~overlapped
             PROVE  \E c \in Command : cmd[c].what = "uninstall"
  BY DEF OnlyUninstallReplaces, Whole
<1>1. PICK c \in Command : Save(c) \/ SaveFails(c) \/ RemoveFiles(c)
  BY DEF Next, Ask, CommandStep, Check, LoadOrGenerate, InstallTrusts, StoreStep,
     SystemInstall, SystemInstallUpdate, SystemUninstall, SystemUninstallUpdate,
     KeychainInstall, KeychainUninstall,
     NssNothingToDo, NssInstall, NssUninstall, JavaInstall, JavaUninstall,
     AfterStores, Dies, LoadCa, ServeHttps, DaemonEnds, vars
<1>2. Local(c) /\ Knows(c)
  BY DEF Inv
<1>3. ~At(c, "save_cert") /\ ~At(c, "save_key")
  BY <1>2 DEF Knows, At
<1>4. At(c, "remove_cert") \/ At(c, "remove_key")
  BY <1>1, <1>3 DEF Save, SaveFails, RemoveFiles
<1> QED  BY <1>2, <1>4 DEF Local, At

(* A CA that is whole is replaced only by way of an uninstall, whatever    *)
(* the commands are and whatever fails: what the test                      *)
(* load_or_generate_reuses_without_regenerating (ca.rs:354) shows of one   *)
(* call holds for every sequence of commands - `install --force`, which is *)
(* documented to re-generate (cli.rs:56), included.                        *)
THEOREM CaAlwaysStable == Spec => [][OnlyUninstallReplaces]_vars
<1>1. Inv /\ [Next]_vars => [OnlyUninstallReplaces]_vars
  BY NextReplaces
<1> QED  BY <1>1, InvAlways, PTL DEF Spec

=============================================================================
