------------------------------- MODULE Hand --------------------------------
(***************************************************************************)
(* The handle and protocol database of the DXE core                        *)
(* (MdeModulePkg/Core/Dxe/Hand): handles, the interfaces installed on      *)
(* them, who has opened each, and the registrations for notification.      *)
(*                                                                         *)
(* gProtocolDatabaseLock makes a stretch of code between acquire and       *)
(* release one step.  Uninstall, reinstall and an exclusive open release   *)
(* it to have drivers stopped or started, and install looks at the handle  *)
(* before it takes it: there, drivers and notification functions run and   *)
(* call the services themselves.  Calls in progress form a stack, and only *)
(* the innermost one goes on.                                              *)
(***************************************************************************)
EXTENDS Integers, Sequences, FiniteSets, FiniteSetsExt, SequencesExt

CONSTANTS
  Handles,          \* addresses an IHANDLE may have
  Protocols,        \* protocol GUIDs
  Watched,          \* the protocols somebody may register for
  Interfaces,       \* interface pointers
  Agents,           \* image handles of drivers and applications
  Core,             \* gDxeCoreImageHandle, the agent of HandleProtocol
  Opens,            \* what agents ask OpenProtocol for: pairs of agent and attributes
  MaxProt,          \* bound: PROTOCOL_INTERFACE structures at a time
  MaxDepth,         \* bound: calls nested in one another
  OwnersWait,       \* the callers keep to the discipline of MayChange and MayRemove
  NestedExclusive   \* an exclusive open may begin inside another call

\* EFI_OPEN_PROTOCOL_xxx attributes are sets of bits.
BY_DRIVER    == "BY_DRIVER"
EXCLUSIVE    == "EXCLUSIVE"
CHILD        == "BY_CHILD_CONTROLLER"
GET_PROTOCOL == "BY_HANDLE_PROTOCOL"
Attributes == {{BY_DRIVER}, {BY_DRIVER, EXCLUSIVE}, {EXCLUSIVE}, {CHILD}, {GET_PROTOCOL}}

ASSUME ConstantsAssumption ==
  /\ IsFiniteSet(Handles) /\ IsFiniteSet(Protocols) /\ IsFiniteSet(Interfaces)
  /\ Watched \subseteq Protocols /\ Core \notin Agents /\ Opens \subseteq Agents \X Attributes
  /\ MaxProt \in Nat /\ MaxDepth \in Nat
  /\ OwnersWait \in BOOLEAN /\ NestedExclusive \in BOOLEAN

VARIABLES
  gHandleList,  \* the handles that exist
  byHandle,     \* IHANDLE.Protocols: for a handle its interfaces, newest first
  byProtocol,   \* PROTOCOL_ENTRY.Protocols: for a protocol its interfaces
  prot,         \* the PROTOCOL_INTERFACE structures, free ones are NoProt
  Position,     \* PROTOCOL_NOTIFY.Position; 0 is the head of the list
  registered,   \* protocols with a registration for notification
  signaled,     \* registrations whose event is signalled
  notifying,    \* registrations whose notification function is at work
  stack,        \* the calls in progress, innermost first
  seen,         \* history: interfaces a registration was told of
  old           \* history: others that it need not be told of, since they were
                \* installed before it was made or with Notify = FALSE

database == <<gHandleList, byHandle, byProtocol, prot>>
notify == <<Position, registered, signaled, notifying, seen, old>>
vars == <<database, notify, stack>>

ProtId == 1..MaxProt
NoProt == [handle |-> "none"]
OpenData == [agent : Agents \cup {Core}, attr : Attributes]
Live == {i \in ProtId : prot[i] # NoProt}

-----------------------------------------------------------------------------
(* Lookups *)

\* The first element of a sequence of structures that satisfies P; 0: none.
First(s, P(_)) ==
  LET k == SelectInSeq(s, P) IN IF k = 0 THEN 0 ELSE s[k]

CoreFindProtocolInterface(h, p, i) ==
  First(byHandle[h], LAMBDA x : prot[x].protocol = p /\ prot[x].interface = i)

CoreGetProtocolInterface(h, p) == First(byHandle[h], LAMBDA x : prot[x].protocol = p)

Managed(x) == {o \in prot[x].open : BY_DRIVER \in o.attr}
Exclusive(x) == {o \in prot[x].open : EXCLUSIVE \in o.attr}

\* The driver manages the handle: DriverImageHandleValid in CoreDisconnectController.
Manages(d, h) == \E x \in Live : prot[x].handle = h /\ \E o \in Managed(x) : o.agent = d

\* RemoveEntryList: the list without its entry x.
RemoveEntry(list, x) ==
  IF \E k \in 1..Len(list) : list[k] = x
  THEN LET at == CHOOSE k \in 1..Len(list) : list[k] = x
       IN  [k \in 1..(Len(list) - 1) |-> IF k < at THEN list[k] ELSE list[k + 1]]
  ELSE list

\* The registration's place in the list of its protocol.
Place(p) == IF Position[p] = 0 THEN 0
            ELSE CHOOSE k \in DOMAIN byProtocol[p] : byProtocol[p][k] = Position[p]

\* The interface CoreGetNextLocateByRegisterNotify comes to; 0: none.
NextByRegisterNotify(p) ==
  IF Place(p) < Len(byProtocol[p]) THEN byProtocol[p][Place(p) + 1] ELSE 0

-----------------------------------------------------------------------------
(* Calls in progress *)

Call == [op : {"install", "uninstall", "reinstall", "open"}, handle : Handles,
         protocol : Protocols, interface : Interfaces, opener : Agents \cup {Core},
         attr : Attributes, prot : 0..MaxProt, agent : Agents \cup {Core},
         pc : {"lock", "stop", "rescan", "connect", "started"}]

\* A call that is yet to take the lock.
NewCall(op, h, p, i) ==
  [op |-> op, handle |-> h, protocol |-> p, interface |-> i, opener |-> Core,
   attr |-> {GET_PROTOCOL}, prot |-> 0, agent |-> Core, pc |-> "lock"]

\* Other code gets to run: outside of all calls, or where the innermost one
\* does not hold the lock.  Every stored pc is such a place.
Begin(call) ==
  /\ Len(stack) < MaxDepth
  /\ stack' = <<call>> \o stack

Top == Head(stack)
At(ops, pc) == stack # <<>> /\ Top.op \in ops /\ Top.pc = pc
\* The call goes on to a place where it refers to the interface x, or to none (0).
Goto(pc, x) == stack' = <<[Top EXCEPT !.pc = pc, !.prot = x, !.agent = Core]>> \o Tail(stack)
\* The call waits until CoreDisconnectController has stopped the driver d.
AwaitStop(x, d) == stack' = <<[Top EXCEPT !.pc = "stop", !.prot = x, !.agent = d]>> \o Tail(stack)
Return == stack' = Tail(stack)

\* The discipline OwnersWait stands for: nobody installs, removes or replaces an
\* interface that a call in progress is about,
MayChange(h, p) ==
  OwnersWait => \A k \in DOMAIN stack : stack[k].handle # h \/ stack[k].protocol # p

\* and nobody removes anything from a handle, for it may be the last interface,
\* while a call has yet to find out that what it is to remove is not there.
MayRemove(h) ==
  OwnersWait => \A k \in DOMAIN stack :
    stack[k].op \in {"uninstall", "reinstall"} /\ stack[k].pc = "lock" /\ stack[k].handle = h
      => CoreFindProtocolInterface(h, stack[k].protocol, stack[k].interface) # 0

-----------------------------------------------------------------------------
Init ==
  /\ gHandleList = {} /\ byHandle = [h \in Handles |-> <<>>]
  /\ byProtocol = [p \in Protocols |-> <<>>]
  /\ prot = [x \in ProtId |-> NoProt]
  /\ Position = [p \in Protocols |-> 0] /\ registered = {}
  /\ signaled = {} /\ notifying = {} /\ stack = <<>>
  /\ seen = [p \in Protocols |-> {}] /\ old = [p \in Protocols |-> {}]

\* CoreNotifyProtocolEntry
CoreNotifyProtocolEntry(p) == signaled' = signaled \cup ({p} \cap registered)

\* The part of CoreInstallProtocolInterfaceNotify under the lock, for a handle
\* that exists or has just been made.  Memory that a call still refers to is
\* not given out again, so that a stale reference is seen.
AddInterface(h, p, i, Notify) ==
  /\ \E x \in ProtId :
       /\ x = Min({y \in ProtId : prot[y] = NoProt /\ \A k \in DOMAIN stack : stack[k].prot # y})
       /\ prot' = [prot EXCEPT ![x] = [handle |-> h, protocol |-> p, interface |-> i, open |-> {}]]
       /\ byHandle' = [byHandle EXCEPT ![h] = <<x>> \o @]
       /\ byProtocol' = [byProtocol EXCEPT ![p] = Append(@, x)]
       /\ old' = IF Notify \/ p \notin registered THEN old
                 ELSE [old EXCEPT ![p] = @ \cup {x}]
  /\ IF Notify THEN CoreNotifyProtocolEntry(p) ELSE UNCHANGED signaled
  /\ UNCHANGED <<Position, registered, notifying, seen>>

\* There is memory for one more interface.
Memory == \E y \in ProtId : prot[y] = NoProt /\ \A k \in DOMAIN stack : stack[k].prot # y

\* CoreInstallProtocolInterface with a handle of NULL makes a new handle.  So
\* does CoreLoadImageCommon, without notification: it is to reinstall the
\* interface when the image is loaded.
InstallNewHandle(h, p, i, Notify) ==
  /\ h \notin gHandleList /\ Memory /\ \A k \in DOMAIN stack : stack[k].handle # h
  /\ gHandleList' = gHandleList \cup {h}
  /\ AddInterface(h, p, i, Notify)
  /\ UNCHANGED stack

\* On an existing handle CoreHandleProtocol is asked first, without the lock.
Install(h, p, i) ==
  /\ Begin(NewCall("install", h, p, i))
  /\ h \in gHandleList /\ CoreGetProtocolInterface(h, p) = 0 /\ MayChange(h, p)
  /\ UNCHANGED <<database, notify>>

\* Mutant: the handle is not validated under the lock.
InstallUnchecked ==
  /\ At({"install"}, "lock") /\ Memory
  /\ AddInterface(Top.handle, Top.protocol, Top.interface, TRUE)
  /\ Return
  /\ UNCHANGED gHandleList

\* Under the lock the handle is validated, for it may be gone by now.
InstallLocked ==
  /\ At({"install"}, "lock")
  /\ IF Top.handle \in gHandleList /\ Memory
     THEN AddInterface(Top.handle, Top.protocol, Top.interface, TRUE)
     ELSE UNCHANGED <<byHandle, byProtocol, prot, notify>>
  /\ Return
  /\ UNCHANGED gHandleList

-----------------------------------------------------------------------------
(* Removing *)

\* Mutant: the registration starts again at the beginning.
BackToHead(p, x) ==
  /\ Position' = [Position EXCEPT ![p] = IF @ # x THEN @ ELSE 0]
  /\ seen' = [seen EXCEPT ![p] = @ \ {x}]
  /\ old' = [old EXCEPT ![p] = @ \ {x}]

\* CoreRemoveInterfaceFromProtocol: a registration that points to the interface
\* is backed up one.
RemoveFromProtocol(p, x) ==
  /\ Position' = [Position EXCEPT ![p] =
       IF @ # x THEN @ ELSE IF Place(p) = 1 THEN 0 ELSE byProtocol[p][Place(p) - 1]]
  /\ seen' = [seen EXCEPT ![p] = @ \ {x}]
  /\ old' = [old EXCEPT ![p] = @ \ {x}]

\* Mutant: the handle is freed with any of its interfaces.
RemoveWithHandle(h, p, x) ==
  /\ RemoveFromProtocol(p, x)
  /\ byProtocol' = [byProtocol EXCEPT ![p] = RemoveEntry(@, x)]
  /\ byHandle' = [byHandle EXCEPT ![h] = RemoveEntry(@, x)]
  /\ prot' = [prot EXCEPT ![x] = NoProt]
  /\ gHandleList' = gHandleList \ {h}
  /\ UNCHANGED <<registered, signaled, notifying>>

\* The rest of CoreUninstallProtocolInterface: the handle goes with its last
\* interface.
RemoveInterface(h, p, x) ==
  /\ RemoveFromProtocol(p, x)
  /\ byProtocol' = [byProtocol EXCEPT ![p] = RemoveEntry(@, x)]
  /\ byHandle' = [byHandle EXCEPT ![h] = RemoveEntry(@, x)]
  /\ prot' = [prot EXCEPT ![x] = NoProt]
  /\ gHandleList' = IF byHandle'[h] = <<>> THEN gHandleList \ {h} ELSE gHandleList
  /\ UNCHANGED <<registered, signaled, notifying>>

\* The middle of CoreReinstallProtocolInterface: the interface is replaced and
\* goes to the tail of its protocol's list.
ReplaceInterface(p, x, i) ==
  /\ RemoveFromProtocol(p, x)
  /\ byProtocol' = [byProtocol EXCEPT ![p] = Append(RemoveEntry(@, x), x)]
  /\ prot' = [prot EXCEPT ![x].interface = i, ![x].open = {}]
  /\ UNCHANGED <<gHandleList, byHandle, registered, signaled, notifying>>

\* Entries of the open list that are dropped without asking anybody.
Droppable(o) == GET_PROTOCOL \in o.attr

\* The handle is validated before the lock is taken.  Whether the interface is
\* there is not known yet.
UninstallOrReinstall(op, h, p, i) ==
  /\ Begin(NewCall(op, h, p, i))
  /\ h \in gHandleList /\ MayChange(h, p)
  /\ op = "uninstall" => MayRemove(h)
  /\ UNCHANGED <<database, notify>>

Uninstall(h, p, i) == UninstallOrReinstall("uninstall", h, p, i)
Reinstall(h, p, i) == UninstallOrReinstall("reinstall", h, p, i)

\* CoreDisconnectControllersUsingProtocolInterface and what follows it, from one
\* release of the lock to the next, for the interface x: a driver is to be
\* stopped, or somebody else still has it open, or it is removed or replaced.
Disconnect(x) ==
  \/ \E o \in Managed(x) :
       /\ AwaitStop(x, o.agent)
       /\ UNCHANGED <<database, notify>>
  \/ /\ Managed(x) = {} /\ \E o \in prot[x].open : ~Droppable(o)
     /\ prot' = [prot EXCEPT ![x].open = {o \in @ : ~Droppable(o)}]
     /\ Goto("connect", 0)
     /\ UNCHANGED <<gHandleList, byHandle, byProtocol, notify>>
  \/ /\ \A o \in prot[x].open : Droppable(o)
     /\ LET y == CoreFindProtocolInterface(Top.handle, Top.protocol, Top.interface)
        IN  IF y = 0 THEN Return /\ UNCHANGED <<database, notify>>
            ELSE IF Top.op = "uninstall"
                 THEN RemoveInterface(Top.handle, Top.protocol, y) /\ Return
                 ELSE \E i \in Interfaces :
                        /\ ReplaceInterface(Top.protocol, y, i)
                        /\ Goto("started", 0)

\* The lock is taken and the interface looked up.
FindAndDisconnect ==
  /\ At({"uninstall", "reinstall"}, "lock") /\ Top.handle \in gHandleList
  /\ LET x == CoreFindProtocolInterface(Top.handle, Top.protocol, Top.interface)
     IN  IF x = 0 THEN Return /\ UNCHANGED <<database, notify>> ELSE Disconnect(x)

\* CoreDisconnectController returns: the driver has been stopped, and has closed
\* what it had opened; or it refuses, or was not managing the handle any more.
StopSucceeds ==
  /\ At({"uninstall", "reinstall", "open"}, "stop") /\ ~Manages(Top.agent, Top.handle)
  /\ Goto("rescan", Top.prot)
  /\ UNCHANGED <<database, notify>>

\* Uninstall and reinstall then connect the drivers again; open gives up.
StopFails ==
  /\ At({"uninstall", "reinstall", "open"}, "stop")
  /\ IF Top.op = "open" THEN Return ELSE Goto("connect", 0)
  /\ UNCHANGED <<database, notify>>

\* Mutant: the open list is not looked at again after a driver was stopped.
RemoveWithoutRescan ==
  /\ At({"uninstall", "reinstall"}, "rescan") /\ Top.prot \in Live
  /\ RemoveInterface(Top.handle, Top.protocol, Top.prot)
  /\ Return

DisconnectAgain ==
  /\ At({"uninstall", "reinstall"}, "rescan") /\ Top.prot \in Live
  /\ Disconnect(Top.prot)

\* CoreConnectController has returned; the result is EFI_ACCESS_DENIED.
Connected ==
  /\ At({"uninstall", "reinstall"}, "connect")
  /\ Return
  /\ UNCHANGED <<database, notify>>

\* Mutant: a reinstallation is not notified.
ReturnUnnotified ==
  /\ At({"reinstall"}, "started")
  /\ Return
  /\ UNCHANGED <<database, notify>>

\* The end of CoreReinstallProtocolInterface, after CoreConnectController.
NotifyReinstalled ==
  /\ At({"reinstall"}, "started")
  /\ CoreNotifyProtocolEntry(Top.protocol)
  /\ Return
  /\ UNCHANGED <<database, Position, registered, notifying, seen, old>>

-----------------------------------------------------------------------------
(* Opening and closing *)

AddOpen(x, d, a) ==
  /\ prot' = [prot EXCEPT ![x].open = @ \cup {[agent |-> d, attr |-> a]}]
  /\ UNCHANGED <<gHandleList, byHandle, byProtocol, notify>>

\* CoreOpenProtocol where nobody has to be disconnected.
Open(h, p, d, a) ==
  /\ h \in gHandleList
  /\ EXCLUSIVE \in a => stack = <<>> \/ NestedExclusive
  /\ \E x \in {CoreGetProtocolInterface(h, p)} \ {0} :
       /\ a \cap {BY_DRIVER, EXCLUSIVE} # {} => Exclusive(x) = {} /\ Managed(x) = {}
       /\ AddOpen(x, d, a)
  /\ UNCHANGED stack

\* CoreHandleProtocol, which install calls as well.
HandleProtocol(h, p) == Open(h, p, Core, {GET_PROTOCOL})

\* An exclusive open of a managed interface has the driver stopped.
OpenExclusive(h, p, d, a) ==
  /\ h \in gHandleList /\ EXCLUSIVE \in a
  /\ stack = <<>> \/ NestedExclusive
  /\ \E x \in {CoreGetProtocolInterface(h, p)} \ {0} :
       /\ Exclusive(x) = {}
       /\ \E o \in Managed(x) :
            Begin([NewCall("open", h, p, prot[x].interface) EXCEPT
                     !.opener = d, !.attr = a, !.prot = x, !.agent = o.agent, !.pc = "stop"])
  /\ UNCHANGED <<database, notify>>

\* Mutant: one driver is stopped and the open list not looked at again.
OpenOnce ==
  /\ At({"open"}, "rescan") /\ Top.prot \in Live
  /\ AddOpen(Top.prot, Top.opener, Top.attr)
  /\ Return

\* Back under the lock: once no driver manages the interface it is opened.
\* Whether another agent has opened it exclusively is not looked at again.
OpenAgain ==
  /\ At({"open"}, "rescan") /\ Top.prot \in Live
  /\ \/ \E o \in Managed(Top.prot) :
          /\ AwaitStop(Top.prot, o.agent)
          /\ UNCHANGED <<database, notify>>
     \/ /\ Managed(Top.prot) = {}
        /\ AddOpen(Top.prot, Top.opener, Top.attr)
        /\ Return

\* CoreCloseProtocol removes all entries of the agent.
Close(h, p, d) ==
  /\ h \in gHandleList
  /\ \E x \in {CoreGetProtocolInterface(h, p)} \ {0} :
       /\ \E o \in prot[x].open : o.agent = d
       /\ prot' = [prot EXCEPT ![x].open = {o \in @ : o.agent # d}]
  /\ UNCHANGED <<gHandleList, byHandle, byProtocol, notify, stack>>

-----------------------------------------------------------------------------
(* Registration and notification *)

CoreRegisterProtocolNotify(p) ==
  /\ p \notin registered
  /\ registered' = registered \cup {p}
  /\ Position' = [Position EXCEPT ![p] = 0]
  /\ old' = [old EXCEPT ![p] = ToSet(byProtocol[p])]
  /\ seen' = [seen EXCEPT ![p] = {}]
  /\ UNCHANGED <<database, signaled, notifying, stack>>

\* CoreCloseEvent unregisters the event.  If the notification function is at
\* work, perhaps closing the event itself, it asks for no more handles.
CoreUnregisterProtocolNotify(p) ==
  /\ p \in registered
  /\ registered' = registered \ {p} /\ signaled' = signaled \ {p}
  /\ notifying' = notifying \ {p}
  /\ Position' = [Position EXCEPT ![p] = 0]
  /\ seen' = [seen EXCEPT ![p] = {}] /\ old' = [old EXCEPT ![p] = {}]
  /\ UNCHANGED <<database, stack>>

\* The notification function begins; it asks for one handle after another.
Notification(p) ==
  /\ p \in signaled \ notifying
  /\ signaled' = signaled \ {p} /\ notifying' = notifying \cup {p}
  /\ UNCHANGED <<database, Position, registered, seen, old, stack>>

\* CoreLocateHandle (ByRegisterNotify) finds one and moves on, or finds none and
\* the notification function is done.
LocateByRegisterNotify(p) ==
  /\ p \in notifying
  /\ LET x == NextByRegisterNotify(p)
     IN  IF x = 0 THEN notifying' = notifying \ {p} /\ UNCHANGED <<Position, seen, old>>
         ELSE /\ Position' = [Position EXCEPT ![p] = x]
              /\ seen' = [seen EXCEPT ![p] = @ \cup {x}]
              /\ old' = [old EXCEPT ![p] = @ \ {x}]
              /\ UNCHANGED notifying
  /\ UNCHANGED <<database, registered, signaled, stack>>

-----------------------------------------------------------------------------
Next ==
  \/ \E h \in Handles, p \in Protocols, i \in Interfaces :
       \/ \E Notify \in BOOLEAN : InstallNewHandle(h, p, i, Notify)
       \/ Install(h, p, i) \/ Uninstall(h, p, i) \/ Reinstall(h, p, i)
  \/ InstallLocked \/ FindAndDisconnect \/ StopSucceeds \/ StopFails
  \/ DisconnectAgain \/ Connected \/ NotifyReinstalled \/ OpenAgain
  \/ \E h \in Handles, p \in Protocols :
       \/ HandleProtocol(h, p)
       \/ \E d \in Agents : Close(h, p, d)
       \/ \E o \in Opens : Open(h, p, o[1], o[2]) \/ OpenExclusive(h, p, o[1], o[2])
  \/ \E p \in Watched :
       \/ CoreRegisterProtocolNotify(p) \/ CoreUnregisterProtocolNotify(p)
       \/ Notification(p) \/ LocateByRegisterNotify(p)

Spec == Init /\ [][Next]_vars

-----------------------------------------------------------------------------
(* Properties *)

\* The variables have their types.
TypeOK ==
  /\ gHandleList \subseteq Handles
  /\ byHandle \in [Handles -> Seq(ProtId)] /\ byProtocol \in [Protocols -> Seq(ProtId)]
  /\ \A x \in ProtId : \/ prot[x] = NoProt
                       \/ prot[x] \in [handle : Handles, protocol : Protocols,
                                       interface : Interfaces, open : SUBSET OpenData]
  /\ Position \in [Protocols -> 0..MaxProt]
  /\ signaled \subseteq registered /\ notifying \subseteq registered
  /\ stack \in Seq(Call) /\ Len(stack) <= MaxDepth

\* The list of a handle and the list of a protocol hold the same interfaces,
\* each once, and a handle exists exactly as long as an interface is on it:
\* whatever was installed or removed while a call waited for drivers.
ListsAgree ==
  /\ TypeOK
  /\ \A p \in Protocols : /\ IsInjective(byProtocol[p])
                          /\ ToSet(byProtocol[p]) = {x \in Live : prot[x].protocol = p}
  /\ \A h \in Handles : /\ IsInjective(byHandle[h])
                        /\ ToSet(byHandle[h]) = {x \in Live : prot[x].handle = h}
  /\ gHandleList = {h \in Handles : byHandle[h] # <<>>}

\* What a call goes on with after it has waited still exists: the handle that
\* CoreValidateHandle found before the lock was taken, also if the call will end
\* with EFI_NOT_FOUND, and Prot, which was looked up before the lock was released
\* for CoreDisconnectController.
NoStalePointer ==
  \A k \in DOMAIN stack :
    /\ stack[k].op \in {"uninstall", "reinstall"} /\ stack[k].pc \in {"lock", "rescan"}
         => stack[k].handle \in gHandleList
    /\ stack[k].pc = "rescan" => stack[k].prot \in Live

\* An interface is managed by one driver at most, and who has it exclusively
\* shares it with no driver, though CoreOpenProtocol lets go of the lock while
\* the former driver is stopped.
OneManager ==
  \A x \in Live : Cardinality(Managed(x) \cup Exclusive(x)) <= 1

\* The innermost call replaces the interface x.
Replaces(x) ==
  /\ At({"reinstall"}, "lock") \/ At({"reinstall"}, "rescan")
  /\ Len(stack') = Len(stack) /\ Head(stack').pc = "started"
  /\ x = CoreFindProtocolInterface(Top.handle, Top.protocol, Top.interface)

\* An interface is removed or replaced only when nobody but HandleProtocol has it
\* open: also when a driver, stopped for that, started again meanwhile.
RemovedUnused ==
  [][\A x \in Live : prot'[x] = NoProt \/ Replaces(x)
       => \A o \in prot[x].open : Droppable(o)]_vars

\* A registration has been told of exactly the interfaces up to its Position:
\* none is skipped and none is reported twice when interfaces before, at or behind
\* the Position are removed or moved to the tail.
ToldOnce ==
  \A p \in registered :
    /\ Position[p] \in ToSet(byProtocol[p]) \cup {0}
    /\ seen[p] = {byProtocol[p][k] : k \in 1..Place(p)}

\* No notification is lost: when a registration has not been told of an interface
\* that was reinstalled, or installed with Notify = TRUE, after it was made, its
\* event is signalled, its function is at work or the reinstallation has yet to
\* signal it.  An interface installed with Notify = FALSE has to be told of only
\* once it is reinstalled.
ToldSoon ==
  \A p \in registered \ (signaled \cup notifying) :
    \A x \in ToSet(byProtocol[p]) \ (seen[p] \cup old[p]) :
      \E k \in DOMAIN stack : stack[k].op = "reinstall" /\ stack[k].pc = "started"
                              /\ stack[k].protocol = p
=============================================================================
