------------------------------ MODULE SmcTrap ------------------------------
(***************************************************************************)
(* The trap provider (kern_prov.cpp, kern_handler.S): a thread of AppleSMC  *)
(* that touches a monitored page faults; the fault handler saves and        *)
(* patches the code behind the access with a trampoline, lets the access    *)
(* happen, and the trampoline restores the code, hands the access to the    *)
(* protocol and goes on behind it.  kernelWriteLock is held from the patch  *)
(* to the restoration, across the access itself; what the fault saves is    *)
(* kept per page, under no lock, and nothing keeps two threads off a page.  *)
(***************************************************************************)
EXTENDS Naturals

CONSTANTS
  Threads,    \* threads and processors that touch the device
  Pages,      \* pages of the window
  ReadOnly,   \* those mapped for reading; nothing may touch the others
  Returns,    \* addresses behind an access; no two trampolines overlap
  None

(* Assumed of the constants wherever the module is used.                    *)
TrapAssumption ==
  /\ ReadOnly \subseteq Pages
  /\ None \notin Threads \cup Pages \cup Returns
  /\ Threads \cap Pages = {} /\ Threads \cap Returns = {} /\ Pages \cap Returns = {}

VARIABLES
  info,      \* pageInfo: the saved code and the return address, per page
  code,      \* what is at a return address: the original or a trampoline
  prot,      \* protection of the pages: "none", "read", "write"
  lock,      \* kernelWriteLock: the thread that took it
  thread,    \* what each thread is doing
  mixed      \* history: the threads, pages and addresses that accesses under
             \* way at the same time have shared, or touched after that

vars == <<info, code, prot, lock, thread, mixed>>

(* A trampoline carries the page and the kind of the fault (trinfo).        *)
Trampolines == [page : Pages, write : BOOLEAN, vm : BOOLEAN]
Original == [page |-> None, write |-> FALSE, vm |-> FALSE]

Away == [pc |-> "away", page |-> None, write |-> FALSE, vm |-> FALSE,
         ret |-> None, traps |-> Original, back |-> None]

Closed(page) == IF page \in ReadOnly THEN "read" ELSE "none"

Init ==
  /\ info = [p \in Pages |-> [org |-> Original, ret |-> None]]
  /\ code = [r \in Returns |-> Original]
  /\ prot = [p \in Pages |-> Closed(p)]
  /\ lock = None
  /\ thread = [t \in Threads |-> Away]
  /\ mixed = {}

(* pageInfo has an entry for every page of the window.                      *)
SlotMutant(page) == CHOOSE p \in Pages : TRUE

Slot(page) == page

Goto(t, pc) == thread' = [thread EXCEPT ![t].pc = pc]

UnderWay(t) == thread[t].pc # "away"

(* The other threads whose access under way is at the page or the address.  *)
Sharers(t, page, ret) ==
  {u \in Threads \ {t} : UnderWay(u) /\ (thread[u].page = page \/ thread[u].ret = ret)}

(* An access that shares its page or its address, or comes to one that was  *)
(* shared, and all that shares with it.                                     *)
Mixing(t, page, ret) ==
  IF Sharers(t, page, ret) = {} /\ {page, ret} \cap mixed = {} THEN {}
  ELSE {t, page, ret} \cup Sharers(t, page, ret)
       \cup {thread[u].page : u \in Sharers(t, page, ret)}
       \cup {thread[u].ret : u \in Sharers(t, page, ret)}

-----------------------------------------------------------------------------
(* kernelTrap saves the code behind the access in the page's entry; whether *)
(* the page has to be opened is what the processor says of this fault.      *)
Save(t, page, ret, write) ==
  /\ info' = [info EXCEPT ![Slot(page)].org = code[ret]]
  /\ thread' = [thread EXCEPT ![t] =
       [Away EXCEPT !.pc = "saved", !.page = page, !.write = write,
                    !.vm = (prot[page] = "none"), !.ret = ret]]
  /\ mixed' = mixed \cup Mixing(t, page, ret)
  /\ UNCHANGED <<code, prot, lock>>

(* A page that may be read faults on a write, a closed one on any access.   *)
Fault(t, page, ret, write) ==
  /\ thread[t].pc = "away"
  /\ prot[page] = "none" \/ (prot[page] = "read" /\ write)
  /\ Save(t, page, ret, write)

SaveAddressMutant(t) ==
  /\ thread[t].pc = "saved"
  /\ info' = IF thread[t].vm
             THEN [info EXCEPT ![Slot(thread[t].page)].ret = thread[t].ret] ELSE info
  /\ Goto(t, IF thread[t].vm THEN "open" ELSE "patch")
  /\ UNCHANGED <<code, prot, lock, mixed>>

(* The address is stored after the code.  A page that may be read only      *)
(* needs write protection off; any other page is opened first.              *)
SaveAddress(t) ==
  /\ thread[t].pc = "saved"
  /\ info' = [info EXCEPT ![Slot(thread[t].page)].ret = thread[t].ret]
  /\ Goto(t, IF thread[t].vm THEN "open" ELSE "patch")
  /\ UNCHANGED <<code, prot, lock, mixed>>

OpenPage(t) ==
  /\ thread[t].pc = "open"
  /\ prot' = [prot EXCEPT ![thread[t].page] = "write"]
  /\ Goto(t, IF thread[t].write THEN "patch" ELSE "handleRead")
  /\ UNCHANGED <<info, code, lock, mixed>>

(* The protocol's handlers take kernelWriteLock themselves and give it back.*)
HandleRead(t) ==
  /\ thread[t].pc = "handleRead" /\ lock = None
  /\ Goto(t, "patch")
  /\ UNCHANGED <<info, code, prot, lock, mixed>>

Patch(t) ==
  /\ thread[t].pc = "patch" /\ lock = None
  /\ lock' = t
  /\ code' = [code EXCEPT ![thread[t].ret] =
       [page |-> thread[t].page, write |-> thread[t].write, vm |-> thread[t].vm]]
  /\ Goto(t, "access")
  /\ UNCHANGED <<info, prot, mixed>>

(* A thread that runs into a trampoline carries no more than what it names. *)
Trapped(page, ret, trampoline) ==
  [Away EXCEPT !.pc = "restore", !.page = page, !.ret = ret, !.traps = trampoline]

(* The code that was always there instead: the thread leaves, with the lock *)
(* if it holds it.                                                          *)
Behind(t, at) ==
  IF code[at] = Original THEN Away
  ELSE Trapped(thread[t].page, thread[t].ret, code[at])

(* The access, with write protection off; on a page that has been closed    *)
(* since, it faults again.                                                  *)
AccessPage(t) ==
  /\ thread[t].pc = "access"
  /\ IF prot[thread[t].page] = "none"
     THEN Save(t, thread[t].page, thread[t].ret, thread[t].write)
     ELSE /\ thread' = [thread EXCEPT ![t] = Behind(t, thread[t].ret)]
          /\ UNCHANGED <<info, code, prot, lock, mixed>>

(* An access that does not fault, because the page may be read or another   *)
(* thread's fault has opened it, is trapped by what it finds behind it.     *)
Touch(t, page, ret, write) ==
  /\ thread[t].pc = "away"
  /\ prot[page] = "write" \/ (prot[page] = "read" /\ ~write)
  /\ code[ret] # Original
  /\ thread' = [thread EXCEPT ![t] = Trapped(page, ret, code[ret])]
  /\ mixed' = mixed \cup Mixing(t, page, ret)
  /\ UNCHANGED <<info, code, prot, lock>>

-----------------------------------------------------------------------------
(* ioProcessResult, for the page and the fault the trampoline names.        *)
Info(t) == info[Slot(thread[t].traps.page)]

Restore(t) ==
  /\ thread[t].pc = "restore"
  /\ code' = [code EXCEPT ![Info(t).ret] = Info(t).org]
  /\ Goto(t, "unlock")
  /\ UNCHANGED <<info, prot, lock, mixed>>

LockAfterMutant(t) == IF thread[t].traps.write THEN lock ELSE None

(* The lock is given back before the protocol is called, whoever holds it.  *)
LockAfter(t) == None

Unlock(t) ==
  /\ thread[t].pc = "unlock"
  /\ lock' = LockAfter(t)
  /\ Goto(t, IF thread[t].traps.write THEN "handleWrite" ELSE "close")
  /\ UNCHANGED <<info, code, prot, mixed>>

HandleWrite(t) ==
  /\ thread[t].pc = "handleWrite" /\ lock = None
  /\ Goto(t, "close")
  /\ UNCHANGED <<info, code, prot, lock, mixed>>

ClosePage(t) ==
  /\ thread[t].pc = "close"
  /\ prot' = IF thread[t].traps.vm
             THEN [prot EXCEPT ![thread[t].traps.page] = "none"] ELSE prot
  /\ Goto(t, "leave")
  /\ UNCHANGED <<info, code, lock, mixed>>

(* The address is read from pageInfo again, long after the lock was given   *)
(* back.                                                                    *)
Leave(t) ==
  /\ thread[t].pc = "leave"
  /\ thread' = [thread EXCEPT ![t].pc = "back", ![t].traps = Original,
                              ![t].back = Info(t).ret]
  /\ UNCHANGED <<info, code, prot, lock, mixed>>

GoOn(t) ==
  /\ thread[t].pc = "back"
  /\ thread' = [thread EXCEPT ![t] = Behind(t, thread[t].back)]
  /\ UNCHANGED <<info, code, prot, lock, mixed>>

Next ==
  \E t \in Threads :
    \/ \E page \in Pages, ret \in Returns, write \in BOOLEAN :
         Fault(t, page, ret, write) \/ Touch(t, page, ret, write)
    \/ SaveAddress(t) \/ OpenPage(t) \/ HandleRead(t) \/ Patch(t) \/ AccessPage(t)
    \/ Restore(t) \/ Unlock(t) \/ HandleWrite(t) \/ ClosePage(t) \/ Leave(t) \/ GoOn(t)

Spec == Init /\ [][Next]_vars

-----------------------------------------------------------------------------
Labels == {"away", "saved", "open", "handleRead", "patch", "access", "restore",
           "unlock", "handleWrite", "close", "leave", "back"}

ThreadStates ==
  [pc : Labels, page : Pages \cup {None}, write : BOOLEAN, vm : BOOLEAN,
   ret : Returns \cup {None}, traps : Trampolines \cup {Original},
   back : Returns \cup {None}]

(* In ioProcessResult: from the trampoline to the way back.                 *)
Processing == {"restore", "unlock", "handleWrite", "close", "leave"}

(* Every variable has its type, and however accesses overlap, the entry     *)
(* that a trampoline names has an address: ioProcessResult never restores   *)
(* code at, or returns to, the address zero of an entry nobody filled.      *)
TypeOK ==
  /\ info \in [Pages -> [org : Trampolines \cup {Original}, ret : Returns \cup {None}]]
  /\ code \in [Returns -> Trampolines \cup {Original}]
  /\ prot \in [Pages -> {"none", "read", "write"}]
  /\ lock \in Threads \cup {None}
  /\ mixed \subseteq Threads \cup Pages \cup Returns
  /\ thread \in [Threads -> ThreadStates]
  /\ \A t \in Threads :
       /\ thread[t].pc \in Processing => Info(t).ret \in Returns
       /\ thread[t].pc = "back" => thread[t].back \in Returns

(* An access whose page and address were never shared goes on behind        *)
(* itself, with the code there as it was and its page closed again,         *)
(* whatever the others do meanwhile and whatever accesses that did share    *)
(* have done to each other's pages, code and lock.                          *)
ReturnsHome ==
  \A t \in Threads :
    thread[t].pc = "back" /\ {thread[t].page, thread[t].ret} \cap mixed = {} =>
      /\ thread[t].back = thread[t].ret
      /\ code[thread[t].ret] = Original
      /\ prot[thread[t].page] = Closed(thread[t].page)

(* A thread whose accesses were never shared does not wait for              *)
(* kernelWriteLock while it holds it: the handlers and the patch take a     *)
(* lock that is not recursive.                                              *)
NoSelfDeadlock ==
  \A t \in Threads \ mixed :
    thread[t].pc \in {"handleRead", "patch", "handleWrite"} => lock # t

(* kern_prov.hpp says of ioProcessResult that it "restores the original     *)
(* code execution path" and returns the "code return address".  Of two      *)
(* threads that fault on one page it does neither: the second to fault      *)
(* overwrites what the first one's way back is read from.                   *)
PathRestored ==
  \A t \in Threads :
    thread[t].pc = "back" =>
      thread[t].back = thread[t].ret /\ code[thread[t].ret] = Original
=============================================================================
