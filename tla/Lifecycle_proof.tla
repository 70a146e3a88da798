--------------------------- MODULE Lifecycle_proof ---------------------------
(***************************************************************************)
(* Proof that daemons keep what they share in order, for any number of     *)
(* processes, commands and servers, any number of crashes and any tasks    *)
(* that fail.                                                              *)
(***************************************************************************)
EXTENDS Lifecycle, TLAPS

(* Two that are up together are both in the history. *)
Together ==
  \A p, q \in Process : Up(p) /\ Up(q) /\ p # q => p \in shared

(* What AloneIsWhole says of a process, and what it rests on: between the  *)
(* removal of the path and the bind nobody else binds, until the tasks are *)
(* told to stop, and have, what they took stays theirs, and only a task    *)
(* that met an error ends before it is told to.                            *)
Whole(p) ==
  /\ ~proc[p].token =>
       proc[p].ipc \in {"unlink", "bind", "accept"} \/ <<p, "ipc">> \in failed
  /\ proc[p].ipc = "bind" => socket = None
  /\ proc[p].ipc = "accept" => socket = p
  /\ ~proc[p].token =>
       proc[p].mgr \in {"cleanup", "apply", "recv"} \/ <<p, "mgr">> \in failed
  /\ proc[p].mgr = "recv" => routes = p
  /\ ~proc[p].token => \A s \in Server :
       proc[p].srv[s] \in {"bind", "listen"} \/ <<p, s>> \in failed

AllWhole == \A p \in Process \ shared : Up(p) => Whole(p)

(* A process whose socket or routes are there has a task left that takes   *)
(* them away, or that task met an error.                                   *)
HoldersAct ==
  \A p \in Process : Up(p) =>
    /\ socket = p => proc[p].ipc \in {"accept", "drop"} \/ <<p, "ipc">> \in failed
    /\ routes = p => proc[p].mgr = "recv" \/ <<p, "mgr">> \in failed

(* A process that crashed does not come up again. *)
CrashedGone == \A p \in crashed : proc[p].stage = "gone"

Inv ==
  /\ TypeOK /\ Together /\ AllWhole /\ HoldersAct /\ NothingLeft
  /\ CrashedGone

-----------------------------------------------------------------------------
(* The types. *)

ProcType ==
  [stage : {"none", "spawned", "up", "gone"}, background : BOOLEAN,
   token : BOOLEAN, ipc : {"none", "unlink", "bind", "accept", "drop", "done"},
   mgr : {"none", "cleanup", "apply", "recv", "done"},
   srv : [Server -> {"none", "bind", "listen", "failed", "done"}]]

CmdType ==
  [pc : Outcome \cup {"idle", "probe", "decide", "send", "wait", "run",
                      "await", "attached"},
   what : {"none", "start", "foreground", "stop"}, restart : BOOLEAN,
   ipc : BOOLEAN, tries : 0..(MaxTries - 1), child : Process \cup {None}]

(* One process changes, to these fields. *)
Becomes(p, stage, token, ipc, mgr, srv) ==
  /\ proc' \in [Process -> ProcType]
  /\ \A q \in Process \ {p} : proc'[q] = proc[q]
  /\ proc'[p].stage = stage /\ proc'[p].token = token
  /\ proc'[p].ipc = ipc /\ proc'[p].mgr = mgr /\ proc'[p].srv = srv

LEMMA Replaces ==
  ASSUME proc \in [Process -> ProcType], NEW p \in Process, NEW r \in ProcType,
         proc' = [proc EXCEPT ![p] = r]
  PROVE  Becomes(p, r.stage, r.token, r.ipc, r.mgr, r.srv)
BY DEF Becomes, ProcType

(* What an assignment to one field of a process changes. *)
LEMMA SetIpc ==
  ASSUME proc \in [Process -> ProcType], NEW p \in Process,
         NEW v \in {"bind", "accept", "drop", "done"}, SetProc(p, "ipc", v)
  PROVE  Becomes(p, proc[p].stage, proc[p].token, v, proc[p].mgr, proc[p].srv)
BY DEF SetProc, ProcType, Becomes

LEMMA SetMgr ==
  ASSUME proc \in [Process -> ProcType], NEW p \in Process,
         NEW v \in {"apply", "recv", "done"}, SetProc(p, "mgr", v)
  PROVE  Becomes(p, proc[p].stage, proc[p].token, proc[p].ipc, v, proc[p].srv)
BY DEF SetProc, ProcType, Becomes

LEMMA SetToken ==
  ASSUME proc \in [Process -> ProcType], NEW p \in Process,
         SetProc(p, "token", TRUE)
  PROVE  Becomes(p, proc[p].stage, TRUE, proc[p].ipc, proc[p].mgr, proc[p].srv)
BY DEF SetProc, ProcType, Becomes

LEMMA SetSrv ==
  ASSUME proc \in [Process -> ProcType], NEW p \in Process, NEW s \in Server,
         NEW v \in {"listen", "failed", "done"},
         proc' = [proc EXCEPT ![p].srv[s] = v]
  PROVE  Becomes(p, proc[p].stage, proc[p].token, proc[p].ipc, proc[p].mgr,
                 [proc[p].srv EXCEPT ![s] = v])
BY DEF ProcType, Becomes

LEMMA Vanishes ==
  ASSUME proc \in [Process -> ProcType], NEW p \in Process, Vanish(p)
  PROVE  Becomes(p, "gone", FALSE, "none", "none", [s \in Server |-> "none"])
<1>1. Unborn \in ProcType /\ Unborn.token = FALSE /\ Unborn.ipc = "none"
      /\ Unborn.mgr = "none" /\ Unborn.srv = [s \in Server |-> "none"]
  BY DEF Unborn, ProcType
<1> QED  BY <1>1 DEF Vanish, ProcType, Becomes

LEMMA Begins ==
  ASSUME proc \in [Process -> ProcType], NEW p \in Process,
         proc' = [proc EXCEPT ![p].stage = "up", ![p].ipc = "unlink",
                              ![p].mgr = "cleanup",
                              ![p].srv = [s \in Server |-> "bind"]]
  PROVE  Becomes(p, "up", proc[p].token, "unlink", "cleanup",
                 [s \in Server |-> "bind"])
<1> DEFINE r1 == [proc[p] EXCEPT !.stage = "up"]
           r2 == [r1 EXCEPT !.ipc = "unlink"]
           r3 == [r2 EXCEPT !.mgr = "cleanup"]
           r4 == [r3 EXCEPT !.srv = [s \in Server |-> "bind"]]
<1>1. r1 \in ProcType /\ r1.stage = "up" /\ r1.token = proc[p].token
  BY DEF ProcType
<1>2. r2 \in ProcType /\ r2.stage = "up" /\ r2.token = proc[p].token /\ r2.ipc = "unlink"
  <2> HIDE DEF r1
  <2> QED  BY <1>1 DEF ProcType
<1>3. r3 \in ProcType /\ r3.stage = "up" /\ r3.token = proc[p].token
      /\ r3.ipc = "unlink" /\ r3.mgr = "cleanup"
  <2> HIDE DEF r2
  <2> QED  BY <1>2 DEF ProcType
<1>4. r4 \in ProcType /\ r4.stage = "up" /\ r4.token = proc[p].token
      /\ r4.ipc = "unlink" /\ r4.mgr = "cleanup"
      /\ r4.srv = [s \in Server |-> "bind"]
  <2> HIDE DEF r3
  <2> QED  BY <1>3 DEF ProcType
<1>5. proc' = [proc EXCEPT ![p] = r4]
  OBVIOUS
<1> HIDE DEF r4
<1>6. Becomes(p, r4.stage, r4.token, r4.ipc, r4.mgr, r4.srv)
  BY <1>4, <1>5, Replaces
<1> QED  BY <1>4, <1>6, Zenon

LEMMA TypeOKIs ==
  TypeOK <=> /\ proc \in [Process -> ProcType]
             /\ {socket, pidfile, routes} \subseteq Process \cup {None}
             /\ cmd \in [Command -> CmdType]
             /\ crashed \subseteq Process /\ shared \subseteq Process
             /\ failed \subseteq Process \X Task
BY DEF TypeOK, ProcType, CmdType

-----------------------------------------------------------------------------
(* The steps of a process. *)

(* A task that fails is one of the process. *)
LEMMA FailedType ==
  ASSUME failed \subseteq Process \X Task, NEW p \in Process, NEW task \in Task,
         failed' = failed \cup {<<p, task>>}
  PROVE  failed' \subseteq Process \X Task
OBVIOUS

LEMMA ProcessKeepsInv ==
  ASSUME Inv, NEW p \in Process,
         \/ TaskStep(p) \/ MgrReapply(p) \/ Signal(p)
         \/ AcceptFails(p) \/ DnsEnds(p) \/ Crash(p)
  PROVE  Inv'
<1>0. /\ TypeOK /\ proc \in [Process -> ProcType]
      /\ socket \in Process \cup {None} /\ routes \in Process \cup {None}
      /\ pidfile \in Process \cup {None} /\ cmd \in [Command -> CmdType]
      /\ crashed \subseteq Process /\ shared \subseteq Process
      /\ failed \subseteq Process \X Task
      /\ Together /\ AllWhole /\ HoldersAct /\ NothingLeft /\ CrashedGone
  BY TypeOKIs DEF Inv
<1>1. CASE /\ IpcUnlink(p) /\ SetProc(p, "ipc", "bind")
           /\ socket' = None /\ UNCHANGED failed
  <2>1. Becomes(p, "up", proc[p].token, "bind", proc[p].mgr, proc[p].srv)
    BY <1>0, <1>1, SetIpc DEF IpcUnlink, Up, ProcType
  <2>2. /\ Up(p) /\ socket' = None
        /\ UNCHANGED <<pidfile, routes, cmd, crashed, failed, shared>>
    BY <1>1 DEF IpcUnlink, machine
  <2>3. TypeOK'
    BY <1>0, <2>1, <2>2, FailedType DEF TypeOK, Becomes, ProcType, CmdType, Task
  <2>4. Together' /\ CrashedGone'
    BY <1>0, <2>1, <2>2 DEF Together, CrashedGone, Becomes, Up
  <2>5. AllWhole'
    BY <1>0, <2>1, <2>2 DEF Together, AllWhole, Whole, Becomes, Up
  <2>6. HoldersAct' /\ NothingLeft'
    BY <1>0, <2>1, <2>2, NoneAssumption DEF HoldersAct, NothingLeft, CrashedGone,
           Becomes, Up
  <2> QED  BY <2>3, <2>4, <2>5, <2>6 DEF Inv
<1>2. CASE /\ (IpcUnlink(p) \/ IpcBind(p) \/ AcceptFails(p))
           /\ SetProc(p, "ipc", "drop") /\ Fails(p, "ipc") /\ UNCHANGED socket
  <2>1. Becomes(p, "up", proc[p].token, "drop", proc[p].mgr, proc[p].srv)
    BY <1>0, <1>2, SetIpc DEF IpcUnlink, IpcBind, AcceptFails, Fails, Up, ProcType
  <2>2. /\ Up(p) /\ failed' = failed \cup {<<p, "ipc">>}
        /\ UNCHANGED <<socket, pidfile, routes, cmd, crashed, shared>>
    BY <1>2 DEF IpcUnlink, IpcBind, AcceptFails, Fails, machine
  <2>3. TypeOK'
    BY <1>0, <2>1, <2>2, FailedType DEF TypeOK, Becomes, ProcType, CmdType, Task
  <2>4. Together' /\ CrashedGone'
    BY <1>0, <2>1, <2>2 DEF Together, CrashedGone, Becomes, Up
  <2>5. AllWhole'
    BY <1>0, <2>1, <2>2 DEF Together, AllWhole, Whole, Becomes, Up
  <2>6. HoldersAct' /\ NothingLeft'
    BY <1>0, <2>1, <2>2, NoneAssumption DEF HoldersAct, NothingLeft, CrashedGone,
           Becomes, Up
  <2> QED  BY <2>3, <2>4, <2>5, <2>6 DEF Inv
<1>3. CASE /\ IpcBind(p) /\ socket = None /\ socket' = p
           /\ SetProc(p, "ipc", "accept") /\ UNCHANGED failed
  <2>1. Becomes(p, "up", proc[p].token, "accept", proc[p].mgr, proc[p].srv)
    BY <1>0, <1>3, SetIpc DEF IpcBind, Up, ProcType
  <2>2. /\ Up(p) /\ socket = None /\ socket' = p /\ proc[p].ipc = "bind"
        /\ UNCHANGED <<pidfile, routes, cmd, crashed, failed, shared>>
    BY <1>3 DEF IpcBind, machine
  <2>3. TypeOK'
    BY <1>0, <2>1, <2>2, FailedType DEF TypeOK, Becomes, ProcType, CmdType, Task
  <2>4. Together' /\ CrashedGone'
    BY <1>0, <2>1, <2>2 DEF Together, CrashedGone, Becomes, Up
  <2>5. AllWhole'
    BY <1>0, <2>1, <2>2 DEF Together, AllWhole, Whole, Becomes, Up
  <2>6. HoldersAct' /\ NothingLeft'
    BY <1>0, <2>1, <2>2, NoneAssumption DEF HoldersAct, NothingLeft, CrashedGone,
           Becomes, Up
  <2> QED  BY <2>3, <2>4, <2>5, <2>6 DEF Inv
<1>4. CASE /\ IpcBind(p) /\ socket # None
           /\ SetProc(p, "ipc", "drop") /\ UNCHANGED <<socket, failed>>
  <2>1. Becomes(p, "up", proc[p].token, "drop", proc[p].mgr, proc[p].srv)
    BY <1>0, <1>4, SetIpc DEF IpcBind, Up, ProcType
  <2>2. /\ Up(p) /\ socket # None /\ proc[p].ipc = "bind"
        /\ UNCHANGED <<socket, pidfile, routes, cmd, crashed, failed, shared>>
    BY <1>4 DEF IpcBind, machine
  <2>3. TypeOK'
    BY <1>0, <2>1, <2>2, FailedType DEF TypeOK, Becomes, ProcType, CmdType, Task
  <2>4. Together' /\ CrashedGone'
    BY <1>0, <2>1, <2>2 DEF Together, CrashedGone, Becomes, Up
  <2>5. AllWhole'
    BY <1>0, <2>1, <2>2 DEF Together, AllWhole, Whole, Becomes, Up
  <2>6. HoldersAct' /\ NothingLeft'
    BY <1>0, <2>1, <2>2, NoneAssumption DEF HoldersAct, NothingLeft, CrashedGone,
           Becomes, Up
  <2> QED  BY <2>3, <2>4, <2>5, <2>6 DEF Inv
<1>5. CASE IpcClose(p)
  <2>1. Becomes(p, "up", TRUE, "drop", proc[p].mgr, proc[p].srv)
    BY <1>0, <1>5, SetIpc DEF IpcClose, Up, ProcType
  <2>2. /\ Up(p) /\ proc[p].ipc = "accept"
        /\ UNCHANGED <<socket, pidfile, routes, cmd, crashed, failed, shared>>
    BY <1>5 DEF IpcClose, machine
  <2>3. TypeOK'
    BY <1>0, <2>1, <2>2, FailedType DEF TypeOK, Becomes, ProcType, CmdType, Task
  <2>4. Together' /\ CrashedGone'
    BY <1>0, <2>1, <2>2 DEF Together, CrashedGone, Becomes, Up
  <2>5. AllWhole'
    BY <1>0, <2>1, <2>2 DEF Together, AllWhole, Whole, Becomes, Up
  <2>6. HoldersAct' /\ NothingLeft'
    BY <1>0, <2>1, <2>2, NoneAssumption DEF HoldersAct, NothingLeft, CrashedGone,
           Becomes, Up
  <2> QED  BY <2>3, <2>4, <2>5, <2>6 DEF Inv
<1>6. CASE IpcDrop(p) /\ socket' = None /\ UNCHANGED failed
  <2>1. Becomes(p, "up", proc[p].token, "done", proc[p].mgr, proc[p].srv)
    BY <1>0, <1>6, SetIpc DEF IpcDrop, Up, ProcType
  <2>2. /\ Up(p) /\ proc[p].ipc = "drop" /\ socket' = None
        /\ UNCHANGED <<pidfile, routes, cmd, crashed, failed, shared>>
    BY <1>6 DEF IpcDrop, machine
  <2>3. TypeOK'
    BY <1>0, <2>1, <2>2, FailedType DEF TypeOK, Becomes, ProcType, CmdType, Task
  <2>4. Together' /\ CrashedGone'
    BY <1>0, <2>1, <2>2 DEF Together, CrashedGone, Becomes, Up
  <2>5. AllWhole'
    BY <1>0, <2>1, <2>2 DEF Together, AllWhole, Whole, Becomes, Up
  <2>6. HoldersAct' /\ NothingLeft'
    BY <1>0, <2>1, <2>2, NoneAssumption DEF HoldersAct, NothingLeft, CrashedGone,
           Becomes, Up
  <2> QED  BY <2>3, <2>4, <2>5, <2>6 DEF Inv
<1>7. CASE IpcDrop(p) /\ Fails(p, "ipc") /\ UNCHANGED socket
  <2>1. Becomes(p, "up", proc[p].token, "done", proc[p].mgr, proc[p].srv)
    BY <1>0, <1>7, SetIpc DEF IpcDrop, Fails, Up, ProcType
  <2>2. /\ Up(p) /\ proc[p].ipc = "drop" /\ failed' = failed \cup {<<p, "ipc">>}
        /\ UNCHANGED <<socket, pidfile, routes, cmd, crashed, shared>>
    BY <1>7 DEF IpcDrop, Fails, machine
  <2>3. TypeOK'
    BY <1>0, <2>1, <2>2, FailedType DEF TypeOK, Becomes, ProcType, CmdType, Task
  <2>4. Together' /\ CrashedGone'
    BY <1>0, <2>1, <2>2 DEF Together, CrashedGone, Becomes, Up
  <2>5. AllWhole'
    BY <1>0, <2>1, <2>2 DEF Together, AllWhole, Whole, Becomes, Up
  <2>6. HoldersAct' /\ NothingLeft'
    BY <1>0, <2>1, <2>2, NoneAssumption DEF HoldersAct, NothingLeft, CrashedGone,
           Becomes, Up
  <2> QED  BY <2>3, <2>4, <2>5, <2>6 DEF Inv
<1>8. CASE /\ MgrStart(p) /\ SetProc(p, "mgr", "apply")
           /\ routes' = None /\ UNCHANGED failed
  <2>1. Becomes(p, "up", proc[p].token, proc[p].ipc, "apply", proc[p].srv)
    BY <1>0, <1>8, SetMgr DEF MgrStart, Up, ProcType
  <2>2. /\ Up(p) /\ routes' = None
        /\ UNCHANGED <<socket, pidfile, cmd, crashed, failed, shared>>
    BY <1>8 DEF MgrStart, machine
  <2>3. TypeOK'
    BY <1>0, <2>1, <2>2, FailedType DEF TypeOK, Becomes, ProcType, CmdType, Task
  <2>4. Together' /\ CrashedGone'
    BY <1>0, <2>1, <2>2 DEF Together, CrashedGone, Becomes, Up
  <2>5. AllWhole'
    BY <1>0, <2>1, <2>2 DEF Together, AllWhole, Whole, Becomes, Up
  <2>6. HoldersAct' /\ NothingLeft'
    BY <1>0, <2>1, <2>2, NoneAssumption DEF HoldersAct, NothingLeft, CrashedGone,
           Becomes, Up
  <2> QED  BY <2>3, <2>4, <2>5, <2>6 DEF Inv
<1>9. CASE /\ MgrStart(p) /\ SetProc(p, "mgr", "apply")
           /\ Fails(p, "mgr") /\ UNCHANGED routes
  <2>1. Becomes(p, "up", proc[p].token, proc[p].ipc, "apply", proc[p].srv)
    BY <1>0, <1>9, SetMgr DEF MgrStart, Fails, Up, ProcType
  <2>2. /\ Up(p) /\ failed' = failed \cup {<<p, "mgr">>}
        /\ UNCHANGED <<socket, pidfile, routes, cmd, crashed, shared>>
    BY <1>9 DEF MgrStart, Fails, machine
  <2>3. TypeOK'
    BY <1>0, <2>1, <2>2, FailedType DEF TypeOK, Becomes, ProcType, CmdType, Task
  <2>4. Together' /\ CrashedGone'
    BY <1>0, <2>1, <2>2 DEF Together, CrashedGone, Becomes, Up
  <2>5. AllWhole'
    BY <1>0, <2>1, <2>2 DEF Together, AllWhole, Whole, Becomes, Up
  <2>6. HoldersAct' /\ NothingLeft'
    BY <1>0, <2>1, <2>2, NoneAssumption DEF HoldersAct, NothingLeft, CrashedGone,
           Becomes, Up
  <2> QED  BY <2>3, <2>4, <2>5, <2>6 DEF Inv
<1>10. CASE /\ MgrStart(p) /\ SetProc(p, "mgr", "recv")
            /\ routes' = p /\ UNCHANGED failed
  <2>1. Becomes(p, "up", proc[p].token, proc[p].ipc, "recv", proc[p].srv)
    BY <1>0, <1>10, SetMgr DEF MgrStart, Up, ProcType
  <2>2. /\ Up(p) /\ routes' = p
        /\ UNCHANGED <<socket, pidfile, cmd, crashed, failed, shared>>
    BY <1>10 DEF MgrStart, machine
  <2>3. TypeOK'
    BY <1>0, <2>1, <2>2, FailedType DEF TypeOK, Becomes, ProcType, CmdType, Task
  <2>4. Together' /\ CrashedGone'
    BY <1>0, <2>1, <2>2 DEF Together, CrashedGone, Becomes, Up
  <2>5. AllWhole'
    BY <1>0, <2>1, <2>2 DEF Together, AllWhole, Whole, Becomes, Up
  <2>6. HoldersAct' /\ NothingLeft'
    BY <1>0, <2>1, <2>2, NoneAssumption DEF HoldersAct, NothingLeft, CrashedGone,
           Becomes, Up
  <2> QED  BY <2>3, <2>4, <2>5, <2>6 DEF Inv
<1>11. CASE (MgrStart(p) \/ MgrReapply(p)) /\ ApplyFails(p)
  <2>1. Becomes(p, "up", proc[p].token, proc[p].ipc, "done", proc[p].srv)
    BY <1>0, <1>11, SetMgr DEF MgrStart, MgrReapply, ApplyFails, Fails, Up, ProcType
  <2>2. /\ Up(p) /\ failed' = failed \cup {<<p, "mgr">>}
        /\ routes' \in {routes, p, None}
        /\ UNCHANGED <<socket, pidfile, cmd, crashed, shared>>
    BY <1>11 DEF MgrStart, MgrReapply, ApplyFails, Fails, machine
  <2>3. TypeOK'
    BY <1>0, <2>1, <2>2, FailedType DEF TypeOK, Becomes, ProcType, CmdType, Task
  <2>4. Together' /\ CrashedGone'
    BY <1>0, <2>1, <2>2 DEF Together, CrashedGone, Becomes, Up
  <2>5. AllWhole'
    BY <1>0, <2>1, <2>2 DEF Together, AllWhole, Whole, Becomes, Up
  <2>6. HoldersAct' /\ NothingLeft'
    BY <1>0, <2>1, <2>2, NoneAssumption DEF HoldersAct, NothingLeft, CrashedGone,
           Becomes, Up
  <2> QED  BY <2>3, <2>4, <2>5, <2>6 DEF Inv
<1>12. CASE MgrReapply(p) /\ routes' = p /\ UNCHANGED <<proc, failed>>
  <2>1. Becomes(p, "up", proc[p].token, proc[p].ipc, "recv", proc[p].srv)
    BY <1>0, <1>12, Zenon DEF MgrReapply, Becomes, Up
  <2>2. /\ Up(p) /\ routes' = p
        /\ UNCHANGED <<socket, pidfile, cmd, crashed, failed, shared>>
    BY <1>12 DEF MgrReapply
  <2>3. TypeOK'
    BY <1>0, <2>1, <2>2, FailedType DEF TypeOK, Becomes, ProcType, CmdType, Task
  <2>4. Together' /\ CrashedGone'
    BY <1>0, <2>1, <2>2 DEF Together, CrashedGone, Becomes, Up
  <2>5. AllWhole'
    BY <1>0, <2>1, <2>2 DEF Together, AllWhole, Whole, Becomes, Up
  <2>6. HoldersAct' /\ NothingLeft'
    BY <1>0, <2>1, <2>2, NoneAssumption DEF HoldersAct, NothingLeft, CrashedGone,
           Becomes, Up
  <2> QED  BY <2>3, <2>4, <2>5, <2>6 DEF Inv
<1>13. CASE MgrRevert(p) /\ routes' = None /\ UNCHANGED failed
  <2>1. Becomes(p, "up", TRUE, proc[p].ipc, "done", proc[p].srv)
    BY <1>0, <1>13, SetMgr DEF MgrRevert, Up, ProcType
  <2>2. /\ Up(p) /\ routes' = None
        /\ UNCHANGED <<socket, pidfile, cmd, crashed, failed, shared>>
    BY <1>13 DEF MgrRevert, machine
  <2>3. TypeOK'
    BY <1>0, <2>1, <2>2, FailedType DEF TypeOK, Becomes, ProcType, CmdType, Task
  <2>4. Together' /\ CrashedGone'
    BY <1>0, <2>1, <2>2 DEF Together, CrashedGone, Becomes, Up
  <2>5. AllWhole'
    BY <1>0, <2>1, <2>2 DEF Together, AllWhole, Whole, Becomes, Up
  <2>6. HoldersAct' /\ NothingLeft'
    BY <1>0, <2>1, <2>2, NoneAssumption DEF HoldersAct, NothingLeft, CrashedGone,
           Becomes, Up
  <2> QED  BY <2>3, <2>4, <2>5, <2>6 DEF Inv
<1>14. CASE MgrRevert(p) /\ Fails(p, "mgr") /\ UNCHANGED routes
  <2>1. Becomes(p, "up", TRUE, proc[p].ipc, "done", proc[p].srv)
    BY <1>0, <1>14, SetMgr DEF MgrRevert, Fails, Up, ProcType
  <2>2. /\ Up(p) /\ failed' = failed \cup {<<p, "mgr">>}
        /\ UNCHANGED <<socket, pidfile, routes, cmd, crashed, shared>>
    BY <1>14 DEF MgrRevert, Fails, machine
  <2>3. TypeOK'
    BY <1>0, <2>1, <2>2, FailedType DEF TypeOK, Becomes, ProcType, CmdType, Task
  <2>4. Together' /\ CrashedGone'
    BY <1>0, <2>1, <2>2 DEF Together, CrashedGone, Becomes, Up
  <2>5. AllWhole'
    BY <1>0, <2>1, <2>2 DEF Together, AllWhole, Whole, Becomes, Up
  <2>6. HoldersAct' /\ NothingLeft'
    BY <1>0, <2>1, <2>2, NoneAssumption DEF HoldersAct, NothingLeft, CrashedGone,
           Becomes, Up
  <2> QED  BY <2>3, <2>4, <2>5, <2>6 DEF Inv
<1>15. CASE Signal(p)
  <2>1. Becomes(p, "up", TRUE, proc[p].ipc, proc[p].mgr, proc[p].srv)
    BY <1>0, <1>15, SetToken DEF Signal, Up
  <2>2. /\ Up(p) /\ UNCHANGED <<socket, pidfile, routes, cmd, crashed, failed, shared>>
    BY <1>15 DEF Signal, machine
  <2>3. TypeOK'
    BY <1>0, <2>1, <2>2, FailedType DEF TypeOK, Becomes, ProcType, CmdType, Task
  <2>4. Together' /\ CrashedGone'
    BY <1>0, <2>1, <2>2 DEF Together, CrashedGone, Becomes, Up
  <2>5. AllWhole'
    BY <1>0, <2>1, <2>2 DEF Together, AllWhole, Whole, Becomes, Up
  <2>6. HoldersAct' /\ NothingLeft'
    BY <1>0, <2>1, <2>2, NoneAssumption DEF HoldersAct, NothingLeft, CrashedGone,
           Becomes, Up
  <2> QED  BY <2>3, <2>4, <2>5, <2>6 DEF Inv
<1>16. CASE Crash(p)
  <2>1. Becomes(p, "gone", FALSE, "none", "none", [s \in Server |-> "none"])
    BY <1>0, <1>16, Vanishes DEF Crash
  <2>2. /\ crashed' = crashed \cup {p} /\ shared' = shared \ {p}
        /\ UNCHANGED <<socket, pidfile, routes, cmd, failed>>
    BY <1>16 DEF Crash, Vanish, machine
  <2>3. TypeOK'
    BY <1>0, <2>1, <2>2, FailedType DEF TypeOK, Becomes, ProcType, CmdType, Task
  <2>4. Together' /\ CrashedGone'
    BY <1>0, <2>1, <2>2 DEF Together, CrashedGone, Becomes, Up
  <2>5. AllWhole'
    BY <1>0, <2>1, <2>2 DEF Together, AllWhole, Whole, Becomes, Up
  <2>6. HoldersAct' /\ NothingLeft'
    BY <1>0, <2>1, <2>2, NoneAssumption DEF HoldersAct, NothingLeft, CrashedGone,
           Becomes, Up
  <2> QED  BY <2>3, <2>4, <2>5, <2>6 DEF Inv
<1>17. CASE Exit(p)
  <2>1. Becomes(p, "gone", FALSE, "none", "none", [s \in Server |-> "none"])
    BY <1>0, <1>17, Vanishes DEF Exit
  <2>2. /\ Up(p) /\ proc[p].ipc = "done" /\ proc[p].mgr = "done"
        /\ shared' = shared \ {p} /\ pidfile' \in {pidfile, None}
        /\ UNCHANGED <<socket, routes, cmd, crashed, failed>>
    BY <1>17 DEF Exit, Vanish
  <2>3. TypeOK'
    BY <1>0, <2>1, <2>2, FailedType DEF TypeOK, Becomes, ProcType, CmdType, Task
  <2>4. Together' /\ CrashedGone'
    BY <1>0, <2>1, <2>2 DEF Together, CrashedGone, Becomes, Up
  <2>5. AllWhole'
    BY <1>0, <2>1, <2>2 DEF Together, AllWhole, Whole, Becomes, Up
  <2>6. HoldersAct' /\ NothingLeft'
    BY <1>0, <2>1, <2>2, NoneAssumption DEF HoldersAct, NothingLeft, CrashedGone,
           Becomes, Up
  <2> QED  BY <2>3, <2>4, <2>5, <2>6 DEF Inv
<1>18. CASE Begin(p)
  <2>0. CASE Vanish(p) /\ UNCHANGED pidfile
    <3>1. Becomes(p, "gone", FALSE, "none", "none", [s \in Server |-> "none"])
      BY <1>0, <2>0, Vanishes
    <3>2. /\ proc[p].stage = "spawned" /\ shared' = shared \ {p}
          /\ UNCHANGED <<socket, pidfile, routes, cmd, crashed, failed>>
      BY <1>18, <2>0 DEF Begin, Vanish, Up
    <3>3. TypeOK'
      BY <1>0, <3>1, <3>2 DEF TypeOK, Becomes, ProcType, CmdType, Task
    <3>4. Together' /\ CrashedGone'
      BY <1>0, <3>1, <3>2 DEF Together, CrashedGone, Becomes, Up
    <3>5. AllWhole'
      BY <1>0, <3>1, <3>2 DEF Together, AllWhole, Whole, Becomes, Up
    <3>6. HoldersAct' /\ NothingLeft'
      BY <1>0, <3>1, <3>2, NoneAssumption DEF HoldersAct, NothingLeft, CrashedGone,
             Becomes, Up
    <3> QED  BY <3>3, <3>4, <3>5, <3>6 DEF Inv
  <2> DEFINE others == {q \in Process \ {p} : Up(q)}
  <2>1. CASE ~(Vanish(p) /\ UNCHANGED pidfile)
    <3>1. Becomes(p, "up", proc[p].token, "unlink", "cleanup",
                  [s \in Server |-> "bind"])
      BY <1>0, <1>18, <2>1, Begins DEF Begin
    <3>2. /\ proc[p].stage = "spawned" /\ pidfile' \in {p, pidfile}
          /\ shared' = IF others = {} THEN shared ELSE shared \cup others \cup {p}
          /\ UNCHANGED <<socket, routes, cmd, crashed, failed>>
      BY <1>18, <2>1 DEF Begin, Up
    <3>3. TypeOK'
      BY <1>0, <3>1, <3>2 DEF TypeOK, Becomes, ProcType, CmdType, Task
    <3>4. Together' /\ CrashedGone'
      BY <1>0, <3>1, <3>2 DEF Together, CrashedGone, Becomes, Up
    <3>5. AllWhole'
      BY <1>0, <3>1, <3>2 DEF Together, AllWhole, Whole, Becomes, Up
    <3>6. HoldersAct' /\ NothingLeft'
      BY <1>0, <3>1, <3>2, NoneAssumption DEF HoldersAct, NothingLeft, CrashedGone,
             Becomes, Up
    <3> QED  BY <3>3, <3>4, <3>5, <3>6 DEF Inv
  <2> QED  BY <2>0, <2>1
<1>19. CASE \/ \E s \in Server : SrvBind(p, s) \/ SrvClose(p, s)
            \/ DnsEnds(p)
  <2>0. PICK s \in Server, v \in {"listen", "failed", "done"} :
        /\ Up(p) /\ UNCHANGED <<socket, pidfile, routes, cmd, crashed, shared>>
        /\ proc' = [proc EXCEPT ![p].srv[s] = v]
        /\ failed' = failed \/ failed' = failed \cup {<<p, s>>}
        /\ v = "done" => proc[p].token
        /\ v = "failed" =>
             \/ /\ proc[p].srv[s] = "bind"
                /\ \E q \in Process : Up(q) /\ proc[q].srv[s] = "listen"
             \/ failed' = failed \cup {<<p, s>>}
    BY <1>19 DEF SrvBind, SrvClose, DnsEnds, Fails, machine
  <2>1. Becomes(p, "up", proc[p].token, proc[p].ipc, proc[p].mgr,
                [proc[p].srv EXCEPT ![s] = v])
    BY <1>0, <2>0, SetSrv DEF Up
  <2>2. p \notin shared => (v = "failed" => <<p, s>> \in failed')
    BY <1>0, <2>0 DEF Together
  <2>7. failed' \subseteq Process \X Task
    BY <1>0, <2>0 DEF Task
  <2>3. TypeOK'
    BY <1>0, <2>0, <2>1, <2>7 DEF TypeOK, Becomes, ProcType, CmdType
  <2>4. Together' /\ CrashedGone'
    BY <1>0, <2>0, <2>1, <2>2 DEF Together, CrashedGone, Becomes, Up
  <2>5. AllWhole'
    BY <1>0, <2>0, <2>1, <2>2 DEF Together, AllWhole, Whole, Becomes, Up, ProcType
  <2>6. HoldersAct' /\ NothingLeft'
    BY <1>0, <2>0, <2>1, <2>2, NoneAssumption DEF HoldersAct, NothingLeft, CrashedGone,
           Becomes, Up
  <2> QED  BY <2>3, <2>4, <2>5, <2>6 DEF Inv
<1>20. IpcUnlink(p) \/ IpcBind(p) \/ AcceptFails(p) => Inv'
  BY <1>1, <1>2, <1>3, <1>4 DEF IpcUnlink, IpcBind, AcceptFails, machine
<1>21. IpcDrop(p) \/ IpcClose(p) => Inv'
  BY <1>5, <1>6, <1>7 DEF IpcDrop
<1>22. MgrStart(p) \/ MgrReapply(p) \/ MgrRevert(p) => Inv'
  BY <1>8, <1>9, <1>10, <1>11, <1>12, <1>13, <1>14 DEF MgrStart, MgrReapply, MgrRevert
<1> QED
  BY <1>15, <1>16, <1>17, <1>18, <1>19, <1>20, <1>21, <1>22 DEF TaskStep

-----------------------------------------------------------------------------
(* The steps of a command. *)

(* A command that ends keeps the types. *)
LEMMA EndsLemma ==
  ASSUME cmd \in [Command -> CmdType], NEW c \in Command,
         NEW outcome \in Outcome, Ends(c, outcome)
  PROVE  cmd' \in [Command -> CmdType]
<1>1. NewCommand \in CmdType
  BY BoundsAssumption DEF NewCommand, CmdType
<1> QED  BY <1>1 DEF Ends, CmdType

(* A command's step on the process: the token of one that is up, or a new  *)
(* process that is not up yet.                                             *)
Spawns(p) ==
  /\ proc[p].stage = "none"
  /\ Becomes(p, "spawned", proc[p].token, proc[p].ipc, proc[p].mgr, proc[p].srv)

CommandOnProc ==
  \/ UNCHANGED proc
  \/ \E p \in Process : Up(p) /\ SetProc(p, "token", TRUE)
  \/ \E p \in Process : Spawns(p)

(* A field of a command. *)
LEMMA SetCmdLemma ==
  ASSUME cmd \in [Command -> CmdType], NEW c \in Command,
         NEW pc \in {"send", "run", "wait"}, SetCmd(c, pc)
  PROVE  cmd' \in [Command -> CmdType]
BY DEF SetCmd, CmdType

LEMMA StopReturnsLemma ==
  ASSUME cmd \in [Command -> CmdType], NEW c \in Command,
         NEW outcome \in Outcome, StopReturns(c, outcome)
  PROVE  cmd' \in [Command -> CmdType]
BY EndsLemma, SetCmdLemma DEF StopReturns

LEMMA CommandEffect ==
  ASSUME TypeOK, NEW c \in Command,
         \/ \E what \in {"start", "foreground", "stop"} : Ask(c, what)
         \/ CommandStep(c)
  PROVE  /\ cmd' \in [Command -> CmdType]
         /\ CommandOnProc
         /\ UNCHANGED <<socket, pidfile, routes, crashed, failed, shared>>
<1>0. /\ proc \in [Process -> ProcType] /\ cmd \in [Command -> CmdType]
      /\ socket \in Process \cup {None} /\ pidfile \in Process \cup {None}
  BY TypeOKIs
<1>a. \A o \in {"already", "started", "stopped", "not running", "kill it",
               "failed", "ended"} : o \in Outcome
  BY DEF Outcome
<1>1. CASE \E what \in {"start", "foreground", "stop"} : Ask(c, what)
  <2> PICK what \in {"start", "foreground", "stop"} : Ask(c, what)
    BY <1>1
  <2> DEFINE r == [cmd[c] EXCEPT !.pc = "probe"]
  <2>1. r \in CmdType
    BY <1>0 DEF CmdType
  <2>2. [r EXCEPT !.what = what] \in CmdType
    <3> HIDE DEF r
    <3> QED  BY <2>1 DEF CmdType
  <2>3. cmd' \in [Command -> CmdType]
    BY <1>0, <2>2 DEF Ask
  <2> QED  BY <2>3 DEF Ask, CommandOnProc, machine
<1>2. CASE Probe(c)
  <2> DEFINE r == [cmd[c] EXCEPT !.pc = "decide"]
  <2>1. r \in CmdType
    BY <1>0 DEF CmdType
  <2>2. Found \subseteq BOOLEAN
    BY DEF Found, Reachable, Up
  <2>3. \A found \in Found : [r EXCEPT !.ipc = found] \in CmdType
    <3> HIDE DEF r
    <3> QED  BY <2>1, <2>2 DEF CmdType
  <2>4. cmd' \in [Command -> CmdType]
    BY <1>0, <1>2, <2>3 DEF Probe
  <2> QED  BY <1>2, <2>4 DEF Probe, CommandOnProc, machine
<1>3. CASE StartDecides(c)
  <2> DEFINE r == [cmd[c] EXCEPT !.pc = "probe"]
  <2>1. r \in CmdType
    BY <1>0 DEF CmdType
  <2>2. [r EXCEPT !.restart = TRUE] \in CmdType
    <3> HIDE DEF r
    <3> QED  BY <2>1 DEF CmdType
  <2>3. \/ Ends(c, "already")
        \/ cmd' = [cmd EXCEPT ![c] = [r EXCEPT !.restart = TRUE]]
        \/ SetCmd(c, "run")
    BY <1>3 DEF StartDecides
  <2>4. cmd' \in [Command -> CmdType]
    <3> HIDE DEF r
    <3> QED  BY <1>0, <1>a, <2>2, <2>3, EndsLemma, SetCmdLemma
  <2> QED  BY <1>3, <2>4 DEF StartDecides, CommandOnProc, machine
<1>4. CASE StopDecides(c)
  <2>1. \/ SetCmd(c, "send")
        \/ \E o \in {"not running", "stopped", "kill it"} : StopReturns(c, o)
        \/ Ends(c, "failed")
    BY <1>4 DEF StopDecides
  <2>2. cmd' \in [Command -> CmdType]
    BY <1>0, <1>a, <2>1, EndsLemma, SetCmdLemma, StopReturnsLemma
  <2>3. CommandOnProc
    BY <1>0, <1>4 DEF StopDecides, PidRunning, CommandOnProc
  <2> QED  BY <1>4, <2>2, <2>3 DEF StopDecides, machine
<1>5. CASE SendStop(c)
  <2>1. cmd' \in [Command -> CmdType]
    BY <1>0, <1>5, <1>a, EndsLemma, SetCmdLemma DEF SendStop
  <2>2. CommandOnProc
    BY <1>0, <1>5 DEF SendStop, Reachable, CommandOnProc
  <2> QED  BY <1>5, <2>1, <2>2 DEF SendStop, machine
<1>6. CASE WaitStop(c) \/ AwaitStart(c)
  <2>1. \/ /\ cmd' = [cmd EXCEPT ![c].tries = @ + 1]
           /\ cmd[c].tries + 1 < MaxTries
        \/ StopReturns(c, "stopped")
        \/ Ends(c, "started") \/ Ends(c, "failed")
    BY <1>6 DEF WaitStop, AwaitStart
  <2>2. ASSUME cmd' = [cmd EXCEPT ![c].tries = @ + 1],
               cmd[c].tries + 1 < MaxTries
        PROVE  cmd' \in [Command -> CmdType]
    <3>1. cmd[c].tries \in 0..(MaxTries - 1)
      BY <1>0 DEF CmdType
    <3>2. cmd[c].tries + 1 \in 0..(MaxTries - 1)
      BY <2>2, <3>1, BoundsAssumption
    <3>3. [cmd[c] EXCEPT !.tries = cmd[c].tries + 1] \in CmdType
      BY <1>0, <3>2 DEF CmdType
    <3> QED  BY <1>0, <2>2, <3>3
  <2>3. cmd' \in [Command -> CmdType]
    BY <1>0, <1>a, <2>1, <2>2, StopReturnsLemma, EndsLemma
  <2> QED  BY <1>6, <2>3 DEF WaitStop, AwaitStart, CommandOnProc, machine
<1>7. CASE RunDaemon(c)
  <2> DEFINE unborn == {p \in Process : proc[p].stage = "none"}
             child == CHOOSE p \in unborn : TRUE
             started == [NewCommand EXCEPT !.pc = "await"]
             attached == [NewCommand EXCEPT !.pc = "attached", !.child = child]
             background == cmd[c].what = "start"
  <2>1. \/ Ends(c, "failed") /\ UNCHANGED proc
        \/ /\ unborn # {}
           /\ proc' = [proc EXCEPT ![child].stage = "spawned",
                                   ![child].background = background]
           /\ cmd' = [cmd EXCEPT ![c] = IF @.what = "start" THEN started
                                        ELSE attached]
    BY <1>7 DEF RunDaemon
  <2>2. CASE Ends(c, "failed") /\ UNCHANGED proc
    BY <1>0, <1>7, <1>a, <2>2, EndsLemma DEF RunDaemon, CommandOnProc, machine
  <2>3. CASE ~(Ends(c, "failed") /\ UNCHANGED proc)
    <3>1. child \in Process /\ proc[child].stage = "none"
      BY <2>1, <2>3
    <3>2. NewCommand \in CmdType
      BY BoundsAssumption DEF NewCommand, CmdType
    <3>3. started \in CmdType
      BY <3>2 DEF CmdType
    <3> HIDE DEF child
    <3>4. attached \in CmdType
      <4> DEFINE r == [NewCommand EXCEPT !.pc = "attached"]
      <4>1. r \in CmdType
        BY <3>2 DEF CmdType
      <4>2. [r EXCEPT !.child = child] \in CmdType
        <5> HIDE DEF r
        <5> QED  BY <3>1, <4>1 DEF CmdType
      <4> QED  BY <4>2
    <3> HIDE DEF started, attached
    <3>5. cmd' \in [Command -> CmdType]
      BY <1>0, <2>1, <2>3, <3>3, <3>4
    <3>6. Spawns(child)
      <4> DEFINE r1 == [proc[child] EXCEPT !.stage = "spawned"]
                 r2 == [r1 EXCEPT !.background = background]
      <4>1. /\ r1 \in ProcType /\ r1.stage = "spawned"
            /\ r1.token = proc[child].token /\ r1.ipc = proc[child].ipc
            /\ r1.mgr = proc[child].mgr /\ r1.srv = proc[child].srv
        BY <1>0, <3>1 DEF ProcType
      <4>2. background \in BOOLEAN
        OBVIOUS
      <4>3. /\ r2 \in ProcType /\ r2.stage = "spawned"
            /\ r2.token = proc[child].token /\ r2.ipc = proc[child].ipc
            /\ r2.mgr = proc[child].mgr /\ r2.srv = proc[child].srv
        <5> HIDE DEF r1, background
        <5> QED  BY <4>1, <4>2 DEF ProcType
      <4>4. proc' = [proc EXCEPT ![child] = r2]
        BY <2>1, <2>3
      <4> HIDE DEF r2
      <4>5. Becomes(child, r2.stage, r2.token, r2.ipc, r2.mgr, r2.srv)
        BY <1>0, <3>1, <4>3, <4>4, Replaces
      <4> QED  BY <3>1, <4>3, <4>5, Zenon DEF Spawns
    <3> QED  BY <1>7, <3>1, <3>5, <3>6 DEF RunDaemon, CommandOnProc, machine
  <2> QED  BY <2>2, <2>3
<1>8. CASE ForegroundEnds(c)
  BY <1>0, <1>8, <1>a, EndsLemma DEF ForegroundEnds, CommandOnProc, machine
<1> QED
  BY <1>1, <1>2, <1>3, <1>4, <1>5, <1>6, <1>7, <1>8 DEF CommandStep

LEMMA CommandKeepsInv ==
  ASSUME Inv, NEW c \in Command,
         \/ \E what \in {"start", "foreground", "stop"} : Ask(c, what)
         \/ CommandStep(c)
  PROVE  Inv'
<1>0. /\ TypeOK /\ proc \in [Process -> ProcType]
      /\ socket \in Process \cup {None} /\ routes \in Process \cup {None}
      /\ pidfile \in Process \cup {None}
      /\ crashed \subseteq Process /\ shared \subseteq Process
      /\ failed \subseteq Process \X Task
      /\ Together /\ AllWhole /\ HoldersAct /\ NothingLeft /\ CrashedGone
  BY TypeOKIs DEF Inv
<1>1. /\ cmd' \in [Command -> CmdType] /\ CommandOnProc
      /\ UNCHANGED <<socket, pidfile, routes, crashed, failed, shared>>
  BY <1>0, CommandEffect
<1>2. CASE UNCHANGED proc
  BY <1>0, <1>1, <1>2 DEF Inv, TypeOK, CmdType, Together, AllWhole, Whole,
         HoldersAct, NothingLeft, CrashedGone, Up
<1>3. CASE \E p \in Process :
             \/ Up(p) /\ SetProc(p, "token", TRUE)
             \/ Spawns(p)
  <2> PICK p \in Process : (Up(p) /\ SetProc(p, "token", TRUE)) \/ Spawns(p)
    BY <1>3
  <2>1. \E stage, token :
          /\ Becomes(p, stage, token, proc[p].ipc, proc[p].mgr, proc[p].srv)
          /\ Up(p) => stage = "up" /\ token
          /\ ~Up(p) => stage = "spawned" /\ proc[p].stage = "none"
    BY <1>0, SetToken DEF Up, Spawns
  <2>2. PICK stage, token :
          /\ Becomes(p, stage, token, proc[p].ipc, proc[p].mgr, proc[p].srv)
          /\ Up(p) => stage = "up" /\ token
          /\ ~Up(p) => stage = "spawned" /\ proc[p].stage = "none"
    BY <2>1
  <2>3. TypeOK'
    BY <1>0, <1>1, <2>2 DEF TypeOK, Becomes, ProcType, CmdType
  <2>4. Together' /\ CrashedGone'
    BY <1>0, <1>1, <2>2 DEF Together, CrashedGone, Becomes, Up
  <2>5. AllWhole'
    BY <1>0, <1>1, <2>2 DEF Together, AllWhole, Whole, Becomes, Up
  <2>6. HoldersAct' /\ NothingLeft'
    BY <1>0, <1>1, <2>2 DEF HoldersAct, NothingLeft, Becomes, Up
  <2> QED  BY <2>3, <2>4, <2>5, <2>6 DEF Inv
<1> QED  BY <1>1, <1>2, <1>3 DEF CommandOnProc

-----------------------------------------------------------------------------

LEMMA InvInit == Init => Inv
<1> SUFFICES ASSUME Init PROVE Inv
  OBVIOUS
<1>1. NewCommand \in CmdType
  BY BoundsAssumption DEF NewCommand, CmdType
<1>2. Unborn \in ProcType /\ Unborn.stage = "none"
  BY DEF Unborn, ProcType
<1>3. TypeOK
  BY <1>1, <1>2, TypeOKIs DEF Init
<1>4. \A p \in Process : ~Up(p)
  BY <1>2 DEF Init, Up
<1> QED
  BY <1>3, <1>4 DEF Init, Inv, Together, AllWhole, HoldersAct, NothingLeft,
     CrashedGone

LEMMA NextInv == Inv /\ [Next]_vars => Inv'
<1> SUFFICES ASSUME Inv, [Next]_vars PROVE Inv'
  OBVIOUS
<1>1. CASE Next
  BY <1>1, ProcessKeepsInv, CommandKeepsInv DEF Next
<1>2. CASE UNCHANGED vars
  BY <1>2 DEF vars, machine, Inv, TypeOK, Together, AllWhole, Whole, HoldersAct,
     NothingLeft, CrashedGone, Up
<1> QED  BY <1>1, <1>2

(* Processes, commands and what they share have their types, and a command *)
(* makes no more than MaxTries probes (daemon.rs:58).                      *)
THEOREM TypeCorrect == Spec => []TypeOK
<1>1. Inv => TypeOK
  BY DEF Inv
<1> QED  BY <1>1, InvInit, NextInv, PTL DEF Spec

(* However many processes and commands there are, whatever crashed and     *)
(* whichever tasks failed, a daemon that no other ran beside has the       *)
(* socket, every port and the routes, or is about to take them, but for    *)
(* the tasks of its own that met an error (server.rs:86, 153, dns/mod.rs,  *)
(* sys/mod.rs:70).                                                         *)
THEOREM AloneAlwaysWhole == Spec => []AloneIsWhole
<1>1. Inv => AloneIsWhole
  BY DEF Inv, AllWhole, Whole, AloneIsWhole
<1> QED  BY <1>1, InvInit, NextInv, PTL DEF Spec

(* However daemons overlapped, what is at the socket's path and in the     *)
(* routes was put there by a process that is up, one that crashed, or one  *)
(* whose task that takes it away met an error (server.rs:45, 86,           *)
(* sys/mod.rs:76, 91, 101).                                                *)
THEOREM NothingEverLeft == Spec => []NothingLeft
<1>1. Inv => NothingLeft
  BY DEF Inv
<1> QED  BY <1>1, InvInit, NextInv, PTL DEF Spec
=============================================================================
