---------------------------- MODULE SmcTrap_proofs ----------------------------
(***************************************************************************)
(* Proofs about SmcTrap for any number of threads, pages and addresses.    *)
(* pageInfo, the patched code and the protection of the pages are shared   *)
(* by all threads, and the only lock is not held from the fault to the way *)
(* back.  What has to be shown is that whatever accesses that overlap do   *)
(* to each other, it leads to nothing but what they share: the pages and   *)
(* addresses that stayed clean belong to one thread at a time.             *)
(***************************************************************************)
EXTENDS SmcTrap, TLAPS

Typed ==
  /\ info \in [Pages -> [org : Trampolines \cup {Original}, ret : Returns \cup {None}]]
  /\ code \in [Returns -> Trampolines \cup {Original}]
  /\ prot \in [Pages -> {"none", "read", "write"}]
  /\ lock \in Threads \cup {None}
  /\ mixed \subseteq Threads \cup Pages \cup Returns
  /\ thread \in [Threads -> ThreadStates]

At(t, labels) == thread[t].pc \in labels

(* A thread whose access under way is at a page nobody else has been at.   *)
Clean(t) == UnderWay(t) /\ thread[t].page \notin mixed

(* Shared are a page and an address together, and the thread with them.    *)
Placed ==
  \A t \in Threads : UnderWay(t) =>
    /\ thread[t].page \in Pages /\ thread[t].ret \in Returns
    /\ thread[t].page \in mixed <=> thread[t].ret \in mixed
    /\ thread[t].page \in mixed => t \in mixed

(* The access of a clean thread is at a page and an address that no other  *)
(* thread is at.                                                           *)
Apart ==
  \A t, u \in Threads : Clean(t) /\ UnderWay(u) /\ t # u =>
    thread[t].page # thread[u].page /\ thread[t].ret # thread[u].ret

(* Of a clean page only original code was saved, and the address stays     *)
(* until the thread has gone back.                                         *)
Saved ==
  /\ \A p \in Pages \ mixed : info[p].org = Original
  /\ \A t \in Threads : Clean(t) /\ ~At(t, {"saved"}) =>
       info[thread[t].page].ret = thread[t].ret

(* A clean thread holds the lock from the patch to its restoration at most.*)
Locked ==
  \A t \in Threads \ mixed : lock = t => At(t, {"access", "restore", "unlock"})

(* The trampoline of a clean access is its own, with its thread between    *)
(* patch and restoration.                                                  *)
Own(page, trampoline) ==
  trampoline.page = page /\ (trampoline.vm <=> Closed(page) = "none")

Patched ==
  /\ \A t \in Threads : Clean(t) /\ At(t, {"access", "restore"}) =>
       code[thread[t].ret] # Original /\ Own(thread[t].page, code[thread[t].ret])
  /\ \A r \in Returns \ mixed : code[r] # Original =>
       \E t \in Threads : At(t, {"access", "restore"}) /\ thread[t].ret = r

Told ==
  \A t \in Threads : Clean(t) =>
    /\ At(t, Processing) => Own(thread[t].page, thread[t].traps)
    /\ At(t, {"back"}) => thread[t].back = thread[t].ret

(* A clean page is opened by the one thread that is at it, which closes it.*)
Opened ==
  /\ \A t \in Threads : Clean(t) =>
       /\ At(t, {"saved", "open", "handleRead", "patch", "access"}) =>
            (thread[t].vm <=> Closed(thread[t].page) = "none")
       /\ At(t, {"open", "handleRead"}) => thread[t].vm
       /\ At(t, {"handleRead", "patch", "access"}) => prot[thread[t].page] # "none"
  /\ \A p \in Pages \ mixed : prot[p] # Closed(p) =>
       \E t \in Threads : /\ thread[t].page = p /\ Closed(p) = "none"
                          /\ ~At(t, {"away", "saved", "open", "leave", "back"})

(* What is shared leads to nothing but what is shared.                     *)
Contained ==
  /\ \A r \in Returns \cap mixed : code[r] # Original => code[r].page \in mixed
  /\ \A p \in Pages \cap mixed : info[p].org # Original => info[p].org.page \in mixed
  /\ \A t \in Threads : thread[t].page \in mixed =>
       /\ At(t, Processing) => thread[t].traps.page \in mixed
       /\ At(t, {"back"}) => thread[t].back \in mixed

(* A page has an address before any trampoline names it, a shared one if   *)
(* it is shared.                                                           *)
Has(p) == info[p].ret \in Returns /\ (p \in mixed => info[p].ret \in mixed)

Known ==
  /\ \A t \in Threads :
       /\ At(t, {"open", "handleRead", "patch", "access"}) => Has(thread[t].page)
       /\ At(t, Processing) => thread[t].traps # Original /\ Has(thread[t].traps.page)
       /\ At(t, {"back"}) => thread[t].back \in Returns
  /\ \A r \in Returns : code[r] # Original => Has(code[r].page)
  /\ \A p \in Pages : info[p].org # Original => Has(info[p].org.page)

IInv ==
  /\ Typed /\ Placed /\ Apart /\ Saved /\ Locked /\ Patched /\ Told /\ Opened
  /\ Contained /\ Known

-----------------------------------------------------------------------------
(* The invariant holds at first, and every action keeps it.                *)

LEMMA InitOK == ASSUME TrapAssumption, Init PROVE IInv
<1>1. Typed
  BY DEF TrapAssumption, Init, Typed, ThreadStates, Labels, Away, Original,
         Trampolines, Closed
<1>2. /\ \A t \in Threads : thread[t].pc = "away" /\ thread[t].page = None
      /\ lock = None /\ mixed = {}
      /\ \A r \in Returns : code[r] = Original
      /\ \A p \in Pages : info[p].org = Original /\ prot[p] = Closed(p)
  BY DEF Init, Away
<1> QED
  BY <1>1, <1>2, TrapAssumption
     DEF TrapAssumption, IInv, Placed, Apart, Saved, Locked, Patched, Told, Opened,
         Contained, Known, At, Clean, UnderWay, Processing

(* A trampoline and the original code are told apart by the page.          *)
LEMMA CodeOK ==
  ASSUME TrapAssumption, Typed
  PROVE  /\ \A r \in Returns : code[r] # Original =>
              code[r] \in Trampolines /\ code[r].page \in Pages
         /\ \A p \in Pages : info[p].org # Original =>
              info[p].org \in Trampolines /\ info[p].org.page \in Pages
BY DEF Typed, Trampolines

(* Who is clean stays so when a thread moves on at its page, or leaves.    *)
LEMMA StaysPlaced ==
  ASSUME Placed, Apart, NEW t \in Threads, UnderWay(t), mixed' = mixed,
         \A u \in Threads \ {t} : thread'[u] = thread[u],
         \/ thread'[t].page = thread[t].page /\ thread'[t].ret = thread[t].ret
         \/ thread'[t].pc = "away"
  PROVE  Placed' /\ Apart'
BY DEF Placed, Apart, Clean, UnderWay

(* What an access that arrives adds to what is shared, and that it adds    *)
(* pages, addresses and threads together.                                  *)
LEMMA MixingOK ==
  ASSUME TrapAssumption, Typed, Placed, Apart, NEW t \in Threads,
         NEW page \in Pages, NEW ret \in Returns,
         mixed' = mixed \cup Mixing(t, page, ret)
  PROVE  /\ mixed \subseteq mixed' /\ mixed' \subseteq Threads \cup Pages \cup Returns
         /\ (page \in mixed' <=> ret \in mixed') /\ (page \in mixed' => t \in mixed')
         /\ \A u \in Threads \ {t} : UnderWay(u) =>
              /\ (thread[u].page \in mixed' <=> thread[u].ret \in mixed')
              /\ (thread[u].page \in mixed' => u \in mixed')
              /\ thread[u].page = page \/ thread[u].ret = ret =>
                   page \in mixed' /\ thread[u].page \in mixed'
<1> DEFINE S == Sharers(t, page, ret)
<1>1. \A u \in S : u \in Threads \ {t} /\ UnderWay(u)
                   /\ thread[u].page \in Pages /\ thread[u].ret \in Returns
  BY DEF Sharers, Placed
<1>2. CASE S = {} /\ {page, ret} \cap mixed = {}
  <2>1. mixed' = mixed
    BY <1>2 DEF Mixing
  <2> QED
    BY <1>2, <2>1 DEF Sharers, Placed, Typed
<1>3. CASE ~(S = {} /\ {page, ret} \cap mixed = {})
  <2>1. mixed' = mixed \cup {t, page, ret} \cup S \cup {thread[u].page : u \in S}
                  \cup {thread[u].ret : u \in S}
    BY <1>3 DEF Mixing
  <2>2. mixed' \subseteq Threads \cup Pages \cup Returns
    BY <1>1, <2>1 DEF Typed
  <2>3. ASSUME NEW u \in Threads \ {t}, UnderWay(u)
        PROVE  /\ (thread[u].page \in mixed' <=> thread[u].ret \in mixed')
               /\ (thread[u].page \in mixed' => u \in mixed')
               /\ thread[u].page = page \/ thread[u].ret = ret =>
                    page \in mixed' /\ thread[u].page \in mixed'
    <3>1. /\ thread[u].page \in Pages /\ thread[u].ret \in Returns
          /\ thread[u].page \in mixed => thread[u].ret \in mixed /\ u \in mixed
          /\ thread[u].ret \in mixed => thread[u].page \in mixed
      BY <2>3 DEF Placed
    <3>2. CASE u \in S
      BY <2>1, <3>2
    <3>3. CASE u \notin S
      <4>1. thread[u].page # page /\ thread[u].ret # ret
        BY <2>3, <3>3 DEF Sharers
      <4>2. ASSUME thread[u].page \notin mixed, NEW w \in S
            PROVE  thread[u].page # thread[w].page /\ thread[u].ret # thread[w].ret
        BY <1>1, <2>3, <3>3, <4>2 DEF Apart, Clean
      <4>3. thread[u].page \in mixed' => thread[u].page \in mixed
        BY <1>1, <2>1, <3>1, <4>1, <4>2, TrapAssumption DEF TrapAssumption
      <4>4. thread[u].ret \in mixed' => thread[u].page \in mixed
        BY <1>1, <2>1, <3>1, <4>1, <4>2, TrapAssumption DEF TrapAssumption
      <4> QED
        BY <2>1, <3>1, <4>1, <4>3, <4>4
    <3> QED
      BY <3>2, <3>3
  <2> QED
    BY <2>1, <2>2, <2>3
<1> QED
  BY <1>2, <1>3

(* A thread that arrives, by a fault or at a trampoline it finds.          *)
LEMMA ArrivalKeeps ==
  ASSUME TrapAssumption, IInv, NEW t \in Threads, NEW page \in Pages,
         NEW ret \in Returns,
         \/ thread[t].pc = "away"
         \/ thread[t].page = page /\ thread[t].ret = ret /\ page \in mixed,
         mixed' = mixed \cup Mixing(t, page, ret),
         UNCHANGED <<code, prot, lock>>,
         info' \in [Pages -> [org : Trampolines \cup {Original},
                              ret : Returns \cup {None}]],
         \A p \in Pages :
           /\ info'[p].ret = info[p].ret
           /\ info'[p].org = info[p].org \/ (p = page /\ info'[p].org = code[ret]),
         thread' \in [Threads -> ThreadStates],
         \A u \in Threads \ {t} : thread'[u] = thread[u],
         thread'[t].page = page, thread'[t].ret = ret,
         \/ thread'[t].pc = "saved" /\ (thread'[t].vm <=> prot[page] = "none")
         \/ /\ thread[t].pc = "away" /\ code[ret] # Original
            /\ thread'[t].pc = "restore" /\ thread'[t].traps = code[ret]
  PROVE  IInv'
<1> USE DEF IInv, At
<1> DEFINE Got(p) == /\ info'[p].ret \in Returns
                     /\ p \in mixed' => info'[p].ret \in mixed'
<1>1. /\ mixed \subseteq mixed' /\ mixed' \subseteq Threads \cup Pages \cup Returns
      /\ (page \in mixed' <=> ret \in mixed') /\ (page \in mixed' => t \in mixed')
      /\ \A u \in Threads \ {t} : UnderWay(u) =>
           /\ (thread[u].page \in mixed' <=> thread[u].ret \in mixed')
           /\ (thread[u].page \in mixed' => u \in mixed')
           /\ thread[u].page = page \/ thread[u].ret = ret =>
                page \in mixed' /\ thread[u].page \in mixed'
  <2> HIDE DEF IInv
  <2>1. Typed /\ Placed /\ Apart
    BY DEF IInv
  <2>2. mixed' = mixed \cup Mixing(t, page, ret)
    OBVIOUS
  <2> HIDE DEF Mixing
  <2> QED
    BY <2>1, <2>2, MixingOK
<1>2. \A u \in Threads \ {t} :
        /\ UnderWay(u)' <=> UnderWay(u)
        /\ Clean(u)' => Clean(u)
  BY <1>1 DEF UnderWay, Clean
<1>3. UnderWay(t)'
  BY DEF UnderWay
<1>4. ~Clean(t)
  BY DEF Clean, UnderWay
(* The owner of a clean trampoline is another thread.                      *)
<1>5. ASSUME NEW r \in Returns \ mixed, code[r] # Original
      PROVE  \E u \in Threads \ {t} : /\ Clean(u) /\ At(u, {"access", "restore"})
                                      /\ thread[u].ret = r
                                      /\ code[r].page = thread[u].page
  <2>1. PICK u \in Threads : At(u, {"access", "restore"}) /\ thread[u].ret = r
    BY <1>5 DEF Patched
  <2>2. Clean(u)
    BY <1>5, <2>1 DEF Clean, Placed, UnderWay
  <2> QED
    BY <1>4, <1>5, <2>1, <2>2 DEF Patched, Own
<1>6. ret \notin mixed' => code[ret] = Original
  BY <1>1, <1>5 DEF Clean
<1>7. page \notin mixed' => prot[page] = Closed(page)
  <2> SUFFICES ASSUME page \notin mixed', prot[page] # Closed(page) PROVE FALSE
    OBVIOUS
  <2>1. PICK u \in Threads : thread[u].page = page /\ thread[u].pc # "away"
    BY <1>1 DEF Opened
  <2>2. u # t
    BY <1>1, <2>1
  <2> QED
    BY <1>1, <2>1, <2>2 DEF UnderWay
<1>8. Typed'
  BY <1>1 DEF Typed
<1>9. Placed'
  BY <1>1, <1>2 DEF Placed, UnderWay
<1>10. Apart'
  BY <1>1, <1>2, <1>3 DEF Apart, Clean
<1>11. Saved'
  <2>1. ASSUME NEW p \in Pages \ mixed' PROVE info'[p].org = Original
    BY <1>1, <1>6, <2>1 DEF Saved
  <2>2. ASSUME NEW u \in Threads, Clean(u)', thread'[u].pc # "saved"
        PROVE  info'[thread'[u].page].ret = thread'[u].ret
    <3>1. u # t
      BY <1>1, <1>6, <2>2 DEF Clean
    <3> QED
      BY <1>2, <2>2, <3>1 DEF Saved, Placed, Clean
  <2> QED
    BY <2>1, <2>2 DEF Saved
<1>12. Locked'
  BY <1>1 DEF Locked
<1>13. Patched'
  <2>1. ASSUME NEW u \in Threads, Clean(u)', thread'[u].pc \in {"access", "restore"}
        PROVE  code[thread'[u].ret] # Original /\ Own(thread'[u].page, code[thread'[u].ret])
    <3>1. u # t
      BY <1>1, <1>6, <2>1 DEF Clean
    <3> QED
      BY <1>2, <2>1, <3>1 DEF Patched, Own, Closed
  <2>2. ASSUME NEW r \in Returns \ mixed', code[r] # Original
        PROVE  \E u \in Threads : thread'[u].pc \in {"access", "restore"}
                                  /\ thread'[u].ret = r
    BY <1>1, <1>5, <2>2
  <2> QED
    BY <2>1, <2>2 DEF Patched
<1>14. Told'
  <2>1. ASSUME NEW u \in Threads, Clean(u)'
        PROVE  /\ thread'[u].pc \in Processing => Own(thread'[u].page, thread'[u].traps)
               /\ thread'[u].pc = "back" => thread'[u].back = thread'[u].ret
    <3>1. CASE u = t
      BY <1>1, <1>6, <2>1, <3>1 DEF Clean, Processing
    <3>2. CASE u # t
      BY <1>2, <2>1, <3>2 DEF Told, Own, Closed
    <3> QED
      BY <3>1, <3>2
  <2> QED
    BY <2>1 DEF Told, Processing
<1>15. Opened'
  <2>1. ASSUME NEW u \in Threads, Clean(u)'
        PROVE  /\ thread'[u].pc \in {"saved", "open", "handleRead", "patch", "access"} =>
                    (thread'[u].vm <=> Closed(thread'[u].page) = "none")
               /\ thread'[u].pc \in {"open", "handleRead"} => thread'[u].vm
               /\ thread'[u].pc \in {"handleRead", "patch", "access"} =>
                    prot'[thread'[u].page] # "none"
    <3>1. CASE u = t
      BY <1>1, <1>7, <2>1, <3>1 DEF Clean
    <3>2. CASE u # t
      BY <1>2, <2>1, <3>2 DEF Opened
    <3> QED
      BY <3>1, <3>2
  <2>2. ASSUME NEW p \in Pages \ mixed', prot[p] # Closed(p)
        PROVE  \E u \in Threads :
                 /\ thread'[u].page = p /\ Closed(p) = "none"
                 /\ thread'[u].pc \notin {"away", "saved", "open", "leave", "back"}
    <3>1. PICK u \in Threads :
            /\ thread[u].page = p /\ Closed(p) = "none"
            /\ thread[u].pc \notin {"away", "saved", "open", "leave", "back"}
      BY <1>1, <2>2 DEF Opened
    <3>2. u # t
      BY <1>1, <2>2, <3>1
    <3> QED
      BY <3>1, <3>2
  <2> QED
    BY <2>1, <2>2 DEF Opened, Closed
<1>16. \A r \in Returns \cap mixed' : code[r] # Original => code[r].page \in mixed'
  <2> SUFFICES ASSUME NEW r \in Returns \cap mixed', code[r] # Original
               PROVE  code[r].page \in mixed'
    OBVIOUS
  <2>1. CASE r \in mixed
    BY <1>1, <2>1 DEF Contained
  <2>2. CASE r \notin mixed
    BY <1>1, <1>5, <2>2 DEF Clean
  <2> QED
    BY <2>1, <2>2
<1>17. Contained'
  <2>1. ASSUME NEW p \in Pages \cap mixed', info'[p].org # Original
        PROVE  info'[p].org.page \in mixed'
    BY <1>1, <1>16, <2>1 DEF Contained, Saved
  <2>2. ASSUME NEW u \in Threads, thread'[u].page \in mixed'
        PROVE  /\ thread'[u].pc \in Processing => thread'[u].traps.page \in mixed'
               /\ thread'[u].pc = "back" => thread'[u].back \in mixed'
    <3>1. CASE u = t
      BY <1>1, <1>16, <2>2, <3>1 DEF Processing
    <3>2. CASE u # t /\ thread[u].page \in mixed
      BY <1>1, <3>2 DEF Contained
    <3>3. CASE u # t /\ thread[u].page \notin mixed
      BY <1>1, <2>2, <3>3 DEF Told, Own, Clean, UnderWay, Processing
    <3> QED
      BY <3>1, <3>2, <3>3
  <2> QED
    BY <1>16, <2>1, <2>2 DEF Contained, Processing
(* A page that becomes shared has the address of the one thread at it.     *)
<1>18. ASSUME NEW u \in Threads \ {t}, Clean(u), thread[u].pc # "saved",
              Has(thread[u].page)
       PROVE  Got(thread[u].page)
  <2>1. /\ info[thread[u].page].ret = thread[u].ret
        /\ thread[u].page \in Pages
    BY <1>18 DEF Saved, Placed, Clean
  <2> QED
    BY <1>1, <1>18, <2>1 DEF Has, Clean, UnderWay
<1>19. ASSUME NEW p \in Pages \cap mixed, Has(p) PROVE Got(p)
  BY <1>1, <1>19 DEF Has
<1>20. \A r \in Returns : code[r] # Original => Got(code[r].page)
  <2> SUFFICES ASSUME NEW r \in Returns, code[r] # Original PROVE Got(code[r].page)
    OBVIOUS
  <2>1. code[r].page \in Pages /\ Has(code[r].page)
    BY CodeOK DEF Known
  <2>2. CASE r \in mixed
    BY <1>19, <2>1, <2>2 DEF Contained
  <2>3. CASE r \notin mixed
    BY <1>5, <1>18, <2>1, <2>3
  <2> QED
    BY <2>2, <2>3
<1>21. Known'
  <2>1. ASSUME NEW u \in Threads \ {t}
        PROVE  /\ thread[u].pc \in {"open", "handleRead", "patch", "access"} =>
                    Got(thread[u].page)
               /\ thread[u].pc \in Processing =>
                    thread[u].traps # Original /\ Got(thread[u].traps.page)
               /\ thread[u].pc = "back" => thread[u].back \in Returns
    <3>1. ASSUME thread[u].pc \in {"open", "handleRead", "patch", "access"}
          PROVE  Got(thread[u].page)
      BY <1>18, <1>19, <3>1 DEF Known, Placed, Clean, UnderWay
    <3>2. ASSUME thread[u].pc \in Processing
          PROVE  thread[u].traps # Original /\ Got(thread[u].traps.page)
      <4>1. thread[u].traps # Original /\ Has(thread[u].traps.page)
            /\ thread[u].traps.page \in Pages
        BY <3>2 DEF Known, Typed, ThreadStates, Trampolines
      <4>2. CASE thread[u].page \in mixed
        BY <1>19, <3>2, <4>1, <4>2 DEF Contained
      <4>3. CASE thread[u].page \notin mixed
        <5>1. Clean(u) /\ thread[u].traps.page = thread[u].page
          BY <3>2, <4>3 DEF Clean, UnderWay, Processing, Told, Own
        <5> QED
          BY <1>18, <3>2, <4>1, <5>1 DEF Processing
      <4> QED
        BY <4>2, <4>3
    <3> QED
      BY <3>1, <3>2 DEF Known
  <2>2. /\ thread'[t].pc \in Processing =>
             thread'[t].traps # Original /\ Got(thread'[t].traps.page)
        /\ thread'[t].pc \notin {"open", "handleRead", "patch", "access", "back"}
    BY <1>20 DEF Processing
  <2>3. ASSUME NEW p \in Pages, info'[p].org # Original
        PROVE  Got(info'[p].org.page)
    <3>1. CASE info'[p].org = code[ret]
      BY <1>20, <2>3, <3>1
    <3>2. CASE info'[p].org = info[p].org
      BY <1>19, <2>3, <3>2, CodeOK DEF Known, Contained, Saved
    <3> QED
      BY <3>1, <3>2
  <2> QED
    BY <1>20, <2>1, <2>2, <2>3 DEF Known, Has, Processing
<1> QED
  BY <1>8, <1>9, <1>10, <1>11, <1>12, <1>13, <1>14, <1>15, <1>17, <1>21

(* kernelTrap's first step, for a new fault or one more of an access whose *)
(* page was closed again.                                                  *)
LEMMA SaveKeeps ==
  ASSUME TrapAssumption, IInv, NEW t \in Threads, NEW page \in Pages,
         NEW ret \in Returns, NEW write \in BOOLEAN,
         \/ thread[t].pc = "away"
         \/ thread[t].page = page /\ thread[t].ret = ret /\ page \in mixed,
         Save(t, page, ret, write)
  PROVE  IInv'
<1> DEFINE new == [Away EXCEPT !.pc = "saved", !.page = page, !.write = write,
                               !.vm = (prot[page] = "none"), !.ret = ret]
<1>1. /\ thread' = [thread EXCEPT ![t] = new]
      /\ info' = [info EXCEPT ![page].org = code[ret]]
      /\ mixed' = mixed \cup Mixing(t, page, ret)
      /\ UNCHANGED <<code, prot, lock>>
  BY DEF Save, Slot
<1>2. /\ new \in ThreadStates /\ new.pc = "saved"
      /\ new.page = page /\ new.ret = ret /\ (new.vm <=> prot[page] = "none")
  BY DEF Away, ThreadStates, Labels
<1>3. /\ thread' \in [Threads -> ThreadStates] /\ thread'[t] = new
      /\ \A u \in Threads \ {t} : thread'[u] = thread[u]
  BY <1>1, <1>2 DEF IInv, Typed
<1>4. /\ info' \in [Pages -> [org : Trampolines \cup {Original}, ret : Returns \cup {None}]]
      /\ \A p \in Pages :
           /\ info'[p].ret = info[p].ret
           /\ info'[p].org = info[p].org \/ (p = page /\ info'[p].org = code[ret])
  <2>1. /\ info \in [Pages -> [org : Trampolines \cup {Original},
                               ret : Returns \cup {None}]]
        /\ code[ret] \in Trampolines \cup {Original}
    BY DEF IInv, Typed
  <2>2. [info[page] EXCEPT !.org = code[ret]]
          \in [org : Trampolines \cup {Original}, ret : Returns \cup {None}]
    BY <2>1
  <2>3. info' = [info EXCEPT ![page] = [info[page] EXCEPT !.org = code[ret]]]
    BY <1>1
  <2>4. \A p \in Pages : info'[p] = IF p = page THEN [info[page] EXCEPT !.org = code[ret]]
                                      ELSE info[p]
    BY <2>1, <2>3
  <2>5. /\ info[page] \in [org : Trampolines \cup {Original}, ret : Returns \cup {None}]
        /\ info'[page].ret = info[page].ret /\ info'[page].org = code[ret]
    BY <2>1, <2>4
  <2>6. info' \in [Pages -> [org : Trampolines \cup {Original}, ret : Returns \cup {None}]]
    BY <2>1, <2>2, <2>3
  <2> QED
    BY <2>4, <2>5, <2>6
<1> HIDE DEF new
<1> QED
  BY <1>1, <1>2, <1>3, <1>4, ArrivalKeeps

(* An access that does not fault finds another thread's trampoline.        *)
LEMMA TouchKeeps ==
  ASSUME TrapAssumption, IInv, NEW t \in Threads, NEW page \in Pages,
         NEW ret \in Returns, NEW write \in BOOLEAN, Touch(t, page, ret, write)
  PROVE  IInv'
<1> DEFINE new == Trapped(page, ret, code[ret])
<1>1. /\ thread' = [thread EXCEPT ![t] = new] /\ thread[t].pc = "away"
      /\ info' = info /\ code[ret] # Original
      /\ mixed' = mixed \cup Mixing(t, page, ret)
      /\ UNCHANGED <<code, prot, lock>>
  BY DEF Touch
<1>2. /\ new \in ThreadStates /\ new.pc = "restore"
      /\ new.page = page /\ new.ret = ret /\ new.traps = code[ret]
  BY DEF Trapped, Away, ThreadStates, Labels, IInv, Typed
<1>3. /\ thread' \in [Threads -> ThreadStates] /\ thread'[t] = new
      /\ \A u \in Threads \ {t} : thread'[u] = thread[u]
  BY <1>1, <1>2 DEF IInv, Typed
<1>4. /\ info' \in [Pages -> [org : Trampolines \cup {Original}, ret : Returns \cup {None}]]
      /\ \A p \in Pages :
           /\ info'[p].ret = info[p].ret
           /\ info'[p].org = info[p].org \/ (p = page /\ info'[p].org = code[ret])
  <2>1. info' = info
    BY <1>1
  <2>2. info \in [Pages -> [org : Trampolines \cup {Original}, ret : Returns \cup {None}]]
    BY DEF IInv, Typed
  <2> QED
    BY <2>1, <2>2
<1>5. /\ thread'[t].page = page /\ thread'[t].ret = ret
      /\ thread[t].pc = "away" /\ code[ret] # Original
      /\ thread'[t].pc = "restore" /\ thread'[t].traps = code[ret]
  BY <1>1, <1>2, <1>3
<1> HIDE DEF new, Mixing
<1> QED
  BY <1>5, <1>1, <1>2, <1>3, <1>4, ArrivalKeeps

(* The facts about a thread that moves on: it stays where it is, and the   *)
(* others do too.                                                          *)
LEMMA GotoOK ==
  ASSUME IInv, NEW t \in Threads, UnderWay(t), NEW label \in Labels \ {"away"},
         Goto(t, label), mixed' = mixed
  PROVE  /\ thread' \in [Threads -> ThreadStates]
         /\ thread'[t].pc = label
         /\ thread'[t].page = thread[t].page /\ thread'[t].ret = thread[t].ret
         /\ thread'[t].vm = thread[t].vm /\ thread'[t].traps = thread[t].traps
         /\ thread'[t].back = thread[t].back
         /\ \A u \in Threads \ {t} : thread'[u] = thread[u]
         /\ Placed' /\ Apart'
<1>1. /\ thread' \in [Threads -> ThreadStates]
      /\ thread'[t].pc = label
      /\ thread'[t].page = thread[t].page /\ thread'[t].ret = thread[t].ret
      /\ thread'[t].vm = thread[t].vm /\ thread'[t].traps = thread[t].traps
      /\ thread'[t].back = thread[t].back
      /\ \A u \in Threads \ {t} : thread'[u] = thread[u]
  BY DEF IInv, Typed, ThreadStates, Goto
<1>2. Placed' /\ Apart'
  BY <1>1, StaysPlaced DEF IInv
<1> QED
  BY <1>1, <1>2

(* The entry of a clean page gets the address of the thread that is at it. *)
LEMMA SaveAddressKeeps ==
  ASSUME TrapAssumption, IInv, NEW t \in Threads, SaveAddress(t)
  PROVE  IInv'
<1> USE DEF IInv, At
<1>1. /\ thread[t].pc = "saved" /\ thread'[t].pc \in {"open", "patch"}
      /\ thread'[t].page = thread[t].page /\ thread'[t].ret = thread[t].ret
      /\ thread'[t].vm = thread[t].vm /\ thread'[t].traps = thread[t].traps
      /\ thread' \in [Threads -> ThreadStates]
      /\ \A u \in Threads \ {t} : thread'[u] = thread[u]
      /\ mixed' = mixed /\ UnderWay(t) /\ Placed' /\ Apart'
  <2>1. PICK label \in Labels \ {"away"} : Goto(t, label) /\ label \in {"open", "patch"}
    BY DEF SaveAddress, Labels
  <2>2. thread[t].pc = "saved" /\ mixed' = mixed
    BY DEF SaveAddress
  <2>3. UnderWay(t)
    BY <2>2 DEF UnderWay
  <2> QED
    BY <2>1, <2>2, <2>3, GotoOK
<1>2. /\ info' = [info EXCEPT ![thread[t].page].ret = thread[t].ret]
      /\ (thread'[t].pc = "open" <=> thread[t].vm)
      /\ code' = code /\ prot' = prot /\ lock' = lock
  BY <1>1 DEF SaveAddress, Slot, Goto, Typed, ThreadStates
<1>3. Typed'
  BY <1>1, <1>2 DEF Typed, Placed
<1>4. Saved'
  <2>1. \A p \in Pages : info'[p].org = info[p].org
    BY <1>2 DEF Typed
  <2>2. ASSUME NEW u \in Threads, Clean(u)', thread'[u].pc # "saved"
        PROVE  info'[thread'[u].page].ret = thread'[u].ret
    BY <1>1, <1>2, <2>2 DEF Saved, Placed, Apart, Clean, UnderWay, Typed
  <2> QED
    BY <1>1, <2>1, <2>2 DEF Saved
<1>5. Locked'
  BY <1>1, <1>2, TrapAssumption DEF Locked, TrapAssumption
<1>6. Patched'
  BY <1>1, <1>2 DEF Patched, Clean, UnderWay, Own, Closed
<1>7. Told'
  BY <1>1, <1>2 DEF Told, Clean, UnderWay, Own, Closed, Processing
<1>8. Opened'
  <2>1. ASSUME NEW u \in Threads, Clean(u)', thread'[u].pc = "patch", u = t
        PROVE  prot[thread[u].page] # "none"
    BY <1>1, <1>2, <2>1 DEF Opened, Clean, Placed, Closed, UnderWay
  <2> QED
    BY <1>1, <1>2, <2>1 DEF Opened, Clean, UnderWay, Closed
<1>9. Contained'
  <2>1. \A p \in Pages : info'[p].org = info[p].org
    BY <1>2 DEF Typed
  <2> QED
    BY <1>1, <1>2, <2>1 DEF Contained, Processing
<1>10. Known'
  <2>1. \A p \in Pages : info'[p].org = info[p].org /\ (Has(p) => Has(p)')
    BY <1>1, <1>2 DEF Typed, Has, Placed
  <2>2. Has(thread[t].page)'
    BY <1>1, <1>2 DEF Has, Placed, Typed
  <2>3. \A u \in Threads : thread[u].traps # Original => thread[u].traps.page \in Pages
    BY DEF Typed, ThreadStates, Trampolines
  <2>4. ASSUME NEW u \in Threads
        PROVE  /\ thread'[u].pc \in {"open", "handleRead", "patch", "access"} =>
                    Has(thread[u].page)'
               /\ thread'[u].pc \in Processing =>
                    thread'[u].traps # Original /\ Has(thread[u].traps.page)'
               /\ thread'[u].pc = "back" => thread'[u].back \in Returns
    BY <1>1, <2>1, <2>2, <2>3 DEF Known, Placed, UnderWay, Processing
  <2> QED
    BY <1>1, <1>2, <2>1, <2>4, CodeOK DEF Known, Has, Processing
<1> QED
  BY <1>1, <1>3, <1>4, <1>5, <1>6, <1>7, <1>8, <1>9, <1>10

(* vm_protect opens a page, a clean one only if it is to be closed again.  *)
LEMMA OpenPageKeeps ==
  ASSUME TrapAssumption, IInv, NEW t \in Threads, OpenPage(t)
  PROVE  IInv'
<1> USE DEF IInv, At
<1>1. /\ thread[t].pc = "open" /\ thread'[t].pc \in {"patch", "handleRead"}
      /\ thread'[t].page = thread[t].page /\ thread'[t].ret = thread[t].ret
      /\ thread'[t].vm = thread[t].vm /\ thread'[t].traps = thread[t].traps
      /\ thread' \in [Threads -> ThreadStates]
      /\ \A u \in Threads \ {t} : thread'[u] = thread[u]
      /\ mixed' = mixed /\ UnderWay(t) /\ Placed' /\ Apart'
  <2>1. PICK label \in Labels \ {"away"} : Goto(t, label) /\ label \in {"patch", "handleRead"}
    BY DEF OpenPage, Labels
  <2>2. thread[t].pc = "open" /\ mixed' = mixed
    BY DEF OpenPage
  <2>3. UnderWay(t)
    BY <2>2 DEF UnderWay
  <2> QED
    BY <2>1, <2>2, <2>3, GotoOK
<1>2. /\ prot' = [prot EXCEPT ![thread[t].page] = "write"]
      /\ info' = info /\ code' = code /\ lock' = lock
  BY <1>1 DEF OpenPage
<1>3. Typed'
  BY <1>1, <1>2 DEF Typed, Placed
<1>4. Saved'
  BY <1>1, <1>2 DEF Saved, Clean, UnderWay
<1>5. Locked'
  BY <1>1, <1>2, TrapAssumption DEF Locked, TrapAssumption
<1>6. Patched'
  BY <1>1, <1>2 DEF Patched, Clean, UnderWay, Own, Closed
<1>7. Told'
  BY <1>1, <1>2 DEF Told, Clean, UnderWay, Own, Closed, Processing
<1>8. Opened'
  <2>1. ASSUME NEW u \in Threads, Clean(u)'
        PROVE  /\ thread'[u].pc \in {"saved", "open", "handleRead", "patch", "access"} =>
                    (thread'[u].vm <=> Closed(thread'[u].page) = "none")
               /\ thread'[u].pc \in {"open", "handleRead"} => thread'[u].vm
               /\ thread'[u].pc \in {"handleRead", "patch", "access"} =>
                    prot'[thread'[u].page] # "none"
    BY <1>1, <1>2, <2>1 DEF Opened, Clean, UnderWay, Typed, Placed
  <2>2. ASSUME NEW p \in Pages \ mixed, prot'[p] # Closed(p)
        PROVE  \E u \in Threads :
                 /\ thread'[u].page = p /\ Closed(p) = "none"
                 /\ thread'[u].pc \notin {"away", "saved", "open", "leave", "back"}
    <3>1. CASE p = thread[t].page
      BY <1>1, <2>2, <3>1 DEF Opened, Clean
    <3>2. CASE p # thread[t].page
      BY <1>1, <1>2, <2>2, <3>2 DEF Opened, Typed
    <3> QED
      BY <3>1, <3>2
  <2> QED
    BY <1>1, <2>1, <2>2 DEF Opened, Closed
<1>9. Contained'
  BY <1>1, <1>2 DEF Contained, Processing
<1>10. Known'
  BY <1>1, <1>2 DEF Known, Has, Processing
<1> QED
  BY <1>1, <1>3, <1>4, <1>5, <1>6, <1>7, <1>8, <1>9, <1>10

(* The protocol answers a read and has given the lock back.                *)
LEMMA HandleReadKeeps ==
  ASSUME TrapAssumption, IInv, NEW t \in Threads, HandleRead(t)
  PROVE  IInv'
<1> USE DEF IInv, At
<1>1. /\ thread[t].pc = "handleRead" /\ thread'[t].pc \in {"patch"}
      /\ thread'[t].page = thread[t].page /\ thread'[t].ret = thread[t].ret
      /\ thread'[t].vm = thread[t].vm /\ thread'[t].traps = thread[t].traps
      /\ thread' \in [Threads -> ThreadStates]
      /\ \A u \in Threads \ {t} : thread'[u] = thread[u]
      /\ mixed' = mixed /\ UnderWay(t) /\ Placed' /\ Apart'
  <2>1. PICK label \in Labels \ {"away"} : Goto(t, label) /\ label \in {"patch"}
    BY DEF HandleRead, Labels
  <2>2. thread[t].pc = "handleRead" /\ mixed' = mixed
    BY DEF HandleRead
  <2>3. UnderWay(t)
    BY <2>2 DEF UnderWay
  <2> QED
    BY <2>1, <2>2, <2>3, GotoOK
<1>2. /\ lock = None
      /\ info' = info /\ code' = code /\ prot' = prot /\ lock' = lock
  BY <1>1 DEF HandleRead
<1>3. Typed'
  BY <1>1, <1>2 DEF Typed
<1>4. Saved'
  BY <1>1, <1>2 DEF Saved, Clean, UnderWay
<1>5. Locked'
  BY <1>1, <1>2, TrapAssumption DEF Locked, TrapAssumption
<1>6. Patched'
  BY <1>1, <1>2 DEF Patched, Clean, UnderWay, Own, Closed
<1>7. Told'
  BY <1>1, <1>2 DEF Told, Clean, UnderWay, Own, Closed, Processing
<1>8. Opened'
  BY <1>1, <1>2 DEF Opened, Clean, UnderWay, Closed
<1>9. Contained'
  BY <1>1, <1>2 DEF Contained, Processing
<1>10. Known'
  BY <1>1, <1>2 DEF Known, Has, Processing
<1> QED
  BY <1>1, <1>3, <1>4, <1>5, <1>6, <1>7, <1>8, <1>9, <1>10

(* The thread takes the lock before it patches the code behind its access. *)
LEMMA PatchKeeps ==
  ASSUME TrapAssumption, IInv, NEW t \in Threads, Patch(t)
  PROVE  IInv'
<1> USE DEF IInv, At
<1>1. /\ thread[t].pc = "patch" /\ thread'[t].pc \in {"access"}
      /\ thread'[t].page = thread[t].page /\ thread'[t].ret = thread[t].ret
      /\ thread'[t].vm = thread[t].vm /\ thread'[t].traps = thread[t].traps
      /\ thread' \in [Threads -> ThreadStates]
      /\ \A u \in Threads \ {t} : thread'[u] = thread[u]
      /\ mixed' = mixed /\ UnderWay(t) /\ Placed' /\ Apart'
  <2>1. PICK label \in Labels \ {"away"} : Goto(t, label) /\ label \in {"access"}
    BY DEF Patch, Labels
  <2>2. thread[t].pc = "patch" /\ mixed' = mixed
    BY DEF Patch
  <2>3. UnderWay(t)
    BY <2>2 DEF UnderWay
  <2> QED
    BY <2>1, <2>2, <2>3, GotoOK
<1>2. /\ lock = None /\ lock' = t
      /\ code' = [code EXCEPT ![thread[t].ret] =
           [page |-> thread[t].page, write |-> thread[t].write, vm |-> thread[t].vm]]
      /\ info' = info /\ prot' = prot
  BY <1>1 DEF Patch
<1>3. Typed'
  <2>1. [page |-> thread[t].page, write |-> thread[t].write, vm |-> thread[t].vm]
          \in Trampolines
    BY <1>1 DEF Typed, Trampolines, Placed, ThreadStates
  <2> QED
    BY <1>1, <1>2, <2>1 DEF Typed
<1>4. Saved'
  BY <1>1, <1>2 DEF Saved, Clean, UnderWay
<1>5. Locked'
  BY <1>1, <1>2, TrapAssumption DEF Locked, TrapAssumption
<1>6. Patched'
  <2>1. ASSUME NEW u \in Threads, Clean(u)', thread'[u].pc \in {"access", "restore"}
        PROVE  code'[thread'[u].ret] # Original
               /\ Own(thread'[u].page, code'[thread'[u].ret])
    <3>1. CASE u = t
      BY <1>1, <1>2, <2>1, <3>1, TrapAssumption
         DEF Typed, Placed, Opened, Own, Original, Clean, UnderWay, TrapAssumption
    <3>2. CASE u # t
      BY <1>1, <1>2, <2>1, <3>2 DEF Typed, Placed, Apart, Patched, Clean, UnderWay
    <3> QED
      BY <3>1, <3>2
  <2>2. ASSUME NEW r \in Returns \ mixed, code'[r] # Original
        PROVE  \E u \in Threads : thread'[u].pc \in {"access", "restore"}
                                  /\ thread'[u].ret = r
    BY <1>1, <1>2, <2>2 DEF Typed, Patched
  <2> QED
    BY <1>1, <2>1, <2>2 DEF Patched
<1>7. Told'
  BY <1>1, <1>2 DEF Told, Clean, UnderWay, Own, Closed, Processing
<1>8. Opened'
  BY <1>1, <1>2 DEF Opened, Clean, UnderWay, Closed
<1>9. Contained'
  BY <1>1, <1>2 DEF Contained, Processing, Placed, Typed
<1>10. Known'
  BY <1>1, <1>2 DEF Known, Has, Processing, Typed
<1> QED
  BY <1>1, <1>3, <1>4, <1>5, <1>6, <1>7, <1>8, <1>9, <1>10

(* The code is restored where and as the page's entry says: a clean        *)
(* access's own, and otherwise at what is shared.                          *)
LEMMA RestoreKeeps ==
  ASSUME TrapAssumption, IInv, NEW t \in Threads, Restore(t)
  PROVE  IInv'
<1> USE DEF IInv, At
<1>1. /\ thread[t].pc = "restore" /\ thread'[t].pc \in {"unlock"}
      /\ thread'[t].page = thread[t].page /\ thread'[t].ret = thread[t].ret
      /\ thread'[t].vm = thread[t].vm /\ thread'[t].traps = thread[t].traps
      /\ thread' \in [Threads -> ThreadStates]
      /\ \A u \in Threads \ {t} : thread'[u] = thread[u]
      /\ mixed' = mixed /\ UnderWay(t) /\ Placed' /\ Apart'
  <2>1. PICK label \in Labels \ {"away"} : Goto(t, label) /\ label \in {"unlock"}
    BY DEF Restore, Labels
  <2>2. thread[t].pc = "restore" /\ mixed' = mixed
    BY DEF Restore
  <2>3. UnderWay(t)
    BY <2>2 DEF UnderWay
  <2> QED
    BY <2>1, <2>2, <2>3, GotoOK
<1>2. /\ code' = [code EXCEPT ![info[thread[t].traps.page].ret] =
                                 info[thread[t].traps.page].org]
      /\ info' = info /\ prot' = prot /\ lock' = lock
  BY <1>1 DEF Restore, Info, Slot
<1>3. Typed'
  BY <1>1, <1>2 DEF Typed, ThreadStates, Trampolines, Known, Processing, Has
<1>4. Saved'
  BY <1>1, <1>2 DEF Saved, Clean, UnderWay
<1>5. Locked'
  BY <1>1, <1>2, TrapAssumption DEF Locked, TrapAssumption
<1>6. Patched'
  <2>0. /\ thread[t].traps.page \in Pages
        /\ info[thread[t].traps.page].ret \in Returns
    BY <1>1 DEF Typed, ThreadStates, Trampolines, Known, Has, Processing
  <2>1. ASSUME NEW u \in Threads, Clean(u)', thread'[u].pc \in {"access", "restore"}
        PROVE  code'[thread'[u].ret] # Original
               /\ Own(thread'[u].page, code'[thread'[u].ret])
    <3>1. u # t /\ Clean(u) /\ thread'[u] = thread[u]
      BY <1>1, <2>1 DEF Clean, UnderWay
    <3>2. thread[u].ret # info[thread[t].traps.page].ret
      <4>1. CASE thread[t].page \in mixed
        BY <1>1, <3>1, <4>1 DEF Contained, Known, Has, Processing, Placed, Clean
      <4>2. CASE thread[t].page \notin mixed
        BY <1>1, <3>1, <4>2 DEF Told, Own, Saved, Processing, Clean, UnderWay, Apart
      <4> QED
        BY <4>1, <4>2
    <3> QED
      BY <1>2, <2>1, <3>1, <3>2 DEF Patched, Typed, Placed, Clean
  <2>2. ASSUME NEW r \in Returns \ mixed, code'[r] # Original
        PROVE  \E u \in Threads : thread'[u].pc \in {"access", "restore"}
                                  /\ thread'[u].ret = r
    <3>1. CASE thread[t].page \in mixed
      <4>1. code'[r] = code[r]
        BY <1>1, <1>2, <3>1 DEF Contained, Known, Has, Processing, Typed
      <4>2. thread[t].ret # r
        BY <1>1, <3>1 DEF Placed
      <4> QED
        BY <1>1, <2>2, <4>1, <4>2 DEF Patched
    <3>2. CASE thread[t].page \notin mixed
      <4>1. code'[thread[t].ret] = Original
        BY <1>1, <1>2, <2>0, <3>2
           DEF Told, Own, Saved, Processing, Clean, Typed, Placed
      <4>2. r # thread[t].ret
        BY <2>2, <4>1
      <4>3. code'[r] = code[r]
        BY <1>1, <1>2, <3>2, <4>2 DEF Told, Own, Saved, Processing, Clean, Typed
      <4> QED
        BY <1>1, <2>2, <4>2, <4>3 DEF Patched
    <3> QED
      BY <3>1, <3>2
  <2> QED
    BY <1>1, <2>1, <2>2 DEF Patched
<1>7. Told'
  BY <1>1, <1>2 DEF Told, Clean, UnderWay, Own, Closed, Processing
<1>8. Opened'
  BY <1>1, <1>2 DEF Opened, Clean, UnderWay, Closed
<1>9. Contained'
  <2>0. /\ thread[t].traps.page \in Pages
        /\ info[thread[t].traps.page].ret \in Returns
    BY <1>1 DEF Typed, ThreadStates, Trampolines, Known, Has, Processing
  <2>1. ASSUME NEW r \in Returns \cap mixed, code'[r] # Original
        PROVE  code'[r].page \in mixed
    <3>1. CASE code'[r] = code[r]
      BY <2>1, <3>1 DEF Contained
    <3>2. CASE code'[r] = info[thread[t].traps.page].org
      BY <2>0, <2>1, <3>2 DEF Contained, Saved
    <3> QED
      BY <1>2, <2>0, <3>1, <3>2 DEF Typed
  <2> QED
    BY <1>1, <1>2, <2>1 DEF Contained, Processing
<1>10. Known'
  <2>0. /\ thread[t].traps.page \in Pages
        /\ info[thread[t].traps.page].ret \in Returns
    BY <1>1 DEF Typed, ThreadStates, Trampolines, Known, Has, Processing
  <2>1. ASSUME NEW r \in Returns, code'[r] # Original PROVE Has(code'[r].page)
    BY <1>2, <2>0, <2>1 DEF Known, Typed
  <2> QED
    BY <1>1, <1>2, <2>1 DEF Known, Has, Processing
<1> QED
  BY <1>1, <1>3, <1>4, <1>5, <1>6, <1>7, <1>8, <1>9, <1>10

(* The lock is given back.                                                 *)
LEMMA UnlockKeeps ==
  ASSUME TrapAssumption, IInv, NEW t \in Threads, Unlock(t)
  PROVE  IInv'
<1> USE DEF IInv, At
<1>1. /\ thread[t].pc = "unlock" /\ thread'[t].pc \in {"handleWrite", "close"}
      /\ thread'[t].page = thread[t].page /\ thread'[t].ret = thread[t].ret
      /\ thread'[t].vm = thread[t].vm /\ thread'[t].traps = thread[t].traps
      /\ thread' \in [Threads -> ThreadStates]
      /\ \A u \in Threads \ {t} : thread'[u] = thread[u]
      /\ mixed' = mixed /\ UnderWay(t) /\ Placed' /\ Apart'
  <2>1. PICK label \in Labels \ {"away"} : Goto(t, label) /\ label \in {"handleWrite", "close"}
    BY DEF Unlock, Labels
  <2>2. thread[t].pc = "unlock" /\ mixed' = mixed
    BY DEF Unlock
  <2>3. UnderWay(t)
    BY <2>2 DEF UnderWay
  <2> QED
    BY <2>1, <2>2, <2>3, GotoOK
<1>2. /\ lock' = None
      /\ info' = info /\ code' = code /\ prot' = prot
  BY <1>1 DEF Unlock, LockAfter
<1>3. Typed'
  BY <1>1, <1>2 DEF Typed
<1>4. Saved'
  BY <1>1, <1>2 DEF Saved, Clean, UnderWay
<1>5. Locked'
  BY <1>1, <1>2, TrapAssumption DEF Locked, TrapAssumption
<1>6. Patched'
  BY <1>1, <1>2 DEF Patched, Clean, UnderWay, Own, Closed
<1>7. Told'
  BY <1>1, <1>2 DEF Told, Clean, UnderWay, Own, Closed, Processing
<1>8. Opened'
  BY <1>1, <1>2 DEF Opened, Clean, UnderWay, Closed
<1>9. Contained'
  BY <1>1, <1>2 DEF Contained, Processing
<1>10. Known'
  BY <1>1, <1>2 DEF Known, Has, Processing
<1> QED
  BY <1>1, <1>3, <1>4, <1>5, <1>6, <1>7, <1>8, <1>9, <1>10

(* The protocol answers a write and has given the lock back.               *)
LEMMA HandleWriteKeeps ==
  ASSUME TrapAssumption, IInv, NEW t \in Threads, HandleWrite(t)
  PROVE  IInv'
<1> USE DEF IInv, At
<1>1. /\ thread[t].pc = "handleWrite" /\ thread'[t].pc \in {"close"}
      /\ thread'[t].page = thread[t].page /\ thread'[t].ret = thread[t].ret
      /\ thread'[t].vm = thread[t].vm /\ thread'[t].traps = thread[t].traps
      /\ thread' \in [Threads -> ThreadStates]
      /\ \A u \in Threads \ {t} : thread'[u] = thread[u]
      /\ mixed' = mixed /\ UnderWay(t) /\ Placed' /\ Apart'
  <2>1. PICK label \in Labels \ {"away"} : Goto(t, label) /\ label \in {"close"}
    BY DEF HandleWrite, Labels
  <2>2. thread[t].pc = "handleWrite" /\ mixed' = mixed
    BY DEF HandleWrite
  <2>3. UnderWay(t)
    BY <2>2 DEF UnderWay
  <2> QED
    BY <2>1, <2>2, <2>3, GotoOK
<1>2. /\ lock = None
      /\ info' = info /\ code' = code /\ prot' = prot /\ lock' = lock
  BY <1>1 DEF HandleWrite
<1>3. Typed'
  BY <1>1, <1>2 DEF Typed
<1>4. Saved'
  BY <1>1, <1>2 DEF Saved, Clean, UnderWay
<1>5. Locked'
  BY <1>1, <1>2, TrapAssumption DEF Locked, TrapAssumption
<1>6. Patched'
  BY <1>1, <1>2 DEF Patched, Clean, UnderWay, Own, Closed
<1>7. Told'
  BY <1>1, <1>2 DEF Told, Clean, UnderWay, Own, Closed, Processing
<1>8. Opened'
  BY <1>1, <1>2 DEF Opened, Clean, UnderWay, Closed
<1>9. Contained'
  BY <1>1, <1>2 DEF Contained, Processing
<1>10. Known'
  BY <1>1, <1>2 DEF Known, Has, Processing
<1> QED
  BY <1>1, <1>3, <1>4, <1>5, <1>6, <1>7, <1>8, <1>9, <1>10

(* A page that was opened is closed.                                       *)
LEMMA ClosePageKeeps ==
  ASSUME TrapAssumption, IInv, NEW t \in Threads, ClosePage(t)
  PROVE  IInv'
<1> USE DEF IInv, At
<1>1. /\ thread[t].pc = "close" /\ thread'[t].pc \in {"leave"}
      /\ thread'[t].page = thread[t].page /\ thread'[t].ret = thread[t].ret
      /\ thread'[t].vm = thread[t].vm /\ thread'[t].traps = thread[t].traps
      /\ thread' \in [Threads -> ThreadStates]
      /\ \A u \in Threads \ {t} : thread'[u] = thread[u]
      /\ mixed' = mixed /\ UnderWay(t) /\ Placed' /\ Apart'
  <2>1. PICK label \in Labels \ {"away"} : Goto(t, label) /\ label \in {"leave"}
    BY DEF ClosePage, Labels
  <2>2. thread[t].pc = "close" /\ mixed' = mixed
    BY DEF ClosePage
  <2>3. UnderWay(t)
    BY <2>2 DEF UnderWay
  <2> QED
    BY <2>1, <2>2, <2>3, GotoOK
<1>2. /\ prot' = IF thread[t].traps.vm
                 THEN [prot EXCEPT ![thread[t].traps.page] = "none"] ELSE prot
      /\ info' = info /\ code' = code /\ lock' = lock
  BY <1>1 DEF ClosePage
<1>3. Typed'
  BY <1>1, <1>2 DEF Typed
<1>4. Saved'
  BY <1>1, <1>2 DEF Saved, Clean, UnderWay
<1>5. Locked'
  BY <1>1, <1>2, TrapAssumption DEF Locked, TrapAssumption
<1>6. Patched'
  BY <1>1, <1>2 DEF Patched, Clean, UnderWay, Own, Closed
<1>7. Told'
  BY <1>1, <1>2 DEF Told, Clean, UnderWay, Own, Closed, Processing
<1>8. Opened'
  <2>0. thread[t].traps.page \in Pages
    BY <1>1 DEF Typed, ThreadStates, Trampolines, Known, Processing
  <2>1. ASSUME NEW u \in Threads, Clean(u)'
        PROVE  /\ thread'[u].pc \in {"saved", "open", "handleRead", "patch", "access"} =>
                    (thread'[u].vm <=> Closed(thread'[u].page) = "none")
               /\ thread'[u].pc \in {"open", "handleRead"} => thread'[u].vm
               /\ thread'[u].pc \in {"handleRead", "patch", "access"} =>
                    prot'[thread'[u].page] # "none"
    <3>1. CASE u = t
      BY <1>1, <3>1
    <3>2. CASE u # t
      <4>1. Clean(u) /\ thread'[u] = thread[u]
        BY <1>1, <2>1, <3>2 DEF Clean, UnderWay
      <4>2. thread[u].page # thread[t].traps.page
        <5>1. CASE thread[t].page \in mixed
          BY <1>1, <4>1, <5>1 DEF Contained, Processing, Clean
        <5>2. CASE thread[t].page \notin mixed
          BY <1>1, <3>2, <4>1, <5>2 DEF Told, Own, Processing, Clean, UnderWay, Apart
        <5> QED
          BY <5>1, <5>2
      <4> QED
        BY <1>2, <4>1, <4>2 DEF Opened, Typed, Placed, Clean
    <3> QED
      BY <3>1, <3>2
  <2>2. ASSUME NEW p \in Pages \ mixed, prot'[p] # Closed(p)
        PROVE  \E u \in Threads :
                 /\ thread'[u].page = p /\ Closed(p) = "none"
                 /\ thread'[u].pc \notin {"away", "saved", "open", "leave", "back"}
    <3>1. prot'[p] \in {prot[p], "none"} /\ (p # thread[t].traps.page => prot'[p] = prot[p])
      BY <1>2, <2>0 DEF Typed
    <3>2. p # thread[t].page
      <4> SUFFICES ASSUME p = thread[t].page PROVE FALSE
        OBVIOUS
      <4>1. thread[t].traps.page = p /\ (thread[t].traps.vm <=> Closed(p) = "none")
        BY <1>1 DEF Told, Own, Processing, Clean
      <4>2. CASE Closed(p) = "none"
        BY <1>2, <2>0, <2>2, <4>1, <4>2 DEF Typed
      <4>3. CASE Closed(p) # "none"
        BY <1>2, <2>2, <4>1, <4>3 DEF Opened
      <4> QED
        BY <4>2, <4>3
    <3>3. prot'[p] = prot[p]
      <4>1. CASE thread[t].page \in mixed
        BY <1>1, <3>1, <4>1 DEF Contained, Processing
      <4>2. CASE thread[t].page \notin mixed
        BY <1>1, <3>1, <3>2, <4>2 DEF Told, Own, Processing, Clean
      <4> QED
        BY <4>1, <4>2
    <3> QED
      BY <1>1, <2>2, <3>2, <3>3 DEF Opened
  <2> QED
    BY <1>1, <2>1, <2>2 DEF Opened, Closed
<1>9. Contained'
  BY <1>1, <1>2 DEF Contained, Processing
<1>10. Known'
  BY <1>1, <1>2 DEF Known, Has, Processing
<1> QED
  BY <1>1, <1>3, <1>4, <1>5, <1>6, <1>7, <1>8, <1>9, <1>10

(* What a thread finds behind an access is a state it can be in.           *)
LEMMA BehindOK ==
  ASSUME TrapAssumption, IInv, NEW t \in Threads, UnderWay(t), NEW at \in Returns
  PROVE  Behind(t, at) \in ThreadStates
<1>1. /\ thread[t].page \in Pages /\ thread[t].ret \in Returns
      /\ code[at] \in Trampolines \cup {Original}
  BY DEF IInv, Typed, Placed
<1> QED
  BY <1>1 DEF Behind, Trapped, Away, ThreadStates, Labels

(* The access runs into what is behind it: a clean one into its own        *)
(* trampoline, and one whose page was closed again faults once more.       *)
LEMMA AccessPageKeeps ==
  ASSUME TrapAssumption, IInv, NEW t \in Threads, AccessPage(t), prot[thread[t].page] # "none"
  PROVE  IInv'
<1> USE DEF IInv, At
<1>1. /\ thread[t].pc = "access" /\ UnderWay(t) /\ mixed' = mixed
      /\ thread'[t] = Behind(t, thread[t].ret)
      /\ thread' \in [Threads -> ThreadStates]
      /\ \A u \in Threads \ {t} : thread'[u] = thread[u]
      /\ Placed' /\ Apart'
  <2>1. /\ thread[t].pc = "access" /\ UnderWay(t) /\ mixed' = mixed
        /\ thread' = [thread EXCEPT ![t] = Behind(t, thread[t].ret)]
    BY DEF AccessPage, UnderWay
  <2>2. Behind(t, thread[t].ret) \in ThreadStates
    BY <2>1, BehindOK DEF Placed
  <2>3. /\ thread'[t] = Behind(t, thread[t].ret)
        /\ thread' \in [Threads -> ThreadStates]
        /\ \A u \in Threads \ {t} : thread'[u] = thread[u]
    BY <2>1, <2>2 DEF Typed
  <2>4. \/ thread'[t].page = thread[t].page /\ thread'[t].ret = thread[t].ret
        \/ thread'[t].pc = "away"
    BY <2>3 DEF Behind, Trapped, Away
  <2> QED
    BY <2>1, <2>3, <2>4, StaysPlaced
<1>2. /\ info' = info /\ code' = code /\ prot' = prot /\ lock' = lock
      /\ thread[t].ret \in Returns
      /\ code[thread[t].ret] = Original => thread[t].page \in mixed /\ t \in mixed
                                           /\ thread'[t].pc = "away"
      /\ code[thread[t].ret] # Original =>
           /\ thread'[t].pc = "restore" /\ thread'[t].traps = code[thread[t].ret]
           /\ thread'[t].page = thread[t].page /\ thread'[t].ret = thread[t].ret
  <2>1. info' = info /\ code' = code /\ prot' = prot /\ lock' = lock
    BY DEF AccessPage
  <2>2. code[thread[t].ret] = Original => thread[t].page \in mixed /\ t \in mixed
    BY <1>1 DEF Patched, Clean, Placed
  <2> QED
    BY <1>1, <2>1, <2>2 DEF Behind, Trapped, Away, Placed
<1>3. Typed'
  BY <1>1, <1>2 DEF Typed
<1>4. Saved'
  BY <1>1, <1>2 DEF Saved, Clean, UnderWay
<1>5. Locked'
  BY <1>1, <1>2 DEF Locked, Placed
<1>6. Patched'
  <2>1. ASSUME NEW u \in Threads, Clean(u)', thread'[u].pc \in {"access", "restore"}
        PROVE  code[thread'[u].ret] # Original
               /\ Own(thread'[u].page, code[thread'[u].ret])
    BY <1>1, <1>2, <2>1 DEF Patched, Clean, UnderWay
  <2>2. ASSUME NEW r \in Returns \ mixed, code[r] # Original
        PROVE  \E u \in Threads : thread'[u].pc \in {"access", "restore"}
                                  /\ thread'[u].ret = r
    BY <1>1, <1>2, <2>2 DEF Patched
  <2> QED
    BY <1>1, <1>2, <2>1, <2>2 DEF Patched
<1>7. Told'
  <2> SUFFICES ASSUME NEW u \in Threads, Clean(u)'
               PROVE  /\ thread'[u].pc \in Processing =>
                           Own(thread'[u].page, thread'[u].traps)
                      /\ thread'[u].pc = "back" => thread'[u].back = thread'[u].ret
    BY DEF Told, Processing
  <2>1. CASE u = t
    BY <1>1, <1>2, <2>1 DEF Patched, Clean, UnderWay
  <2>2. CASE u # t
    BY <1>1, <1>2, <2>2 DEF Told, Clean, UnderWay
  <2> QED
    BY <2>1, <2>2
<1>8. Opened'
  <2>1. ASSUME NEW p \in Pages \ mixed, prot[p] # Closed(p)
        PROVE  \E u \in Threads :
                 /\ thread'[u].page = p /\ Closed(p) = "none"
                 /\ thread'[u].pc \notin {"away", "saved", "open", "leave", "back"}
    BY <1>1, <1>2, <2>1 DEF Opened
  <2> QED
    BY <1>1, <1>2, <2>1 DEF Opened, Clean, UnderWay, Closed
<1>9. Contained'
  BY <1>1, <1>2 DEF Contained, Processing, Placed, Away, Behind
<1>10. Known'
  BY <1>1, <1>2 DEF Known, Has, Processing
<1> QED
  BY <1>1, <1>3, <1>4, <1>5, <1>6, <1>7, <1>8, <1>9, <1>10

(* The address is read from the entry again.                               *)
LEMMA LeaveKeeps ==
  ASSUME TrapAssumption, IInv, NEW t \in Threads, Leave(t)
  PROVE  IInv'
<1> USE DEF IInv, At
<1>1. /\ thread[t].pc = "leave" /\ UnderWay(t) /\ mixed' = mixed
      /\ thread'[t].pc = "back" /\ thread'[t].back = info[thread[t].traps.page].ret
      /\ thread'[t].page = thread[t].page /\ thread'[t].ret = thread[t].ret
      /\ thread' \in [Threads -> ThreadStates]
      /\ \A u \in Threads \ {t} : thread'[u] = thread[u]
      /\ Placed' /\ Apart'
  <2>1. /\ thread[t].pc = "leave" /\ UnderWay(t) /\ mixed' = mixed
        /\ thread' = [thread EXCEPT ![t].pc = "back", ![t].traps = Original,
                                    ![t].back = info[thread[t].traps.page].ret]
    BY DEF Leave, Info, Slot, UnderWay
  <2>2. info[thread[t].traps.page].ret \in Returns
    BY <2>1 DEF Known, Has, Processing
  <2>3. thread[t] \in ThreadStates
    BY DEF Typed
  <2>4. [thread[t] EXCEPT !.pc = "back", !.traps = Original,
                          !.back = info[thread[t].traps.page].ret] \in ThreadStates
    BY <2>2, <2>3 DEF ThreadStates, Labels
  <2>5. /\ thread'[t] = [thread[t] EXCEPT !.pc = "back", !.traps = Original,
                           !.back = info[thread[t].traps.page].ret]
        /\ thread' \in [Threads -> ThreadStates]
        /\ \A u \in Threads \ {t} : thread'[u] = thread[u]
    BY <2>1, <2>4 DEF Typed
  <2>6. /\ thread'[t].pc = "back" /\ thread'[t].back = info[thread[t].traps.page].ret
        /\ thread'[t].page = thread[t].page /\ thread'[t].ret = thread[t].ret
    BY <2>3, <2>5 DEF ThreadStates
  <2> QED
    BY <2>1, <2>5, <2>6, StaysPlaced
<1>2. /\ info' = info /\ code' = code /\ prot' = prot /\ lock' = lock
      /\ Has(thread[t].traps.page)
  BY <1>1 DEF Leave, Known, Processing
<1>3. Typed'
  BY <1>1, <1>2 DEF Typed
<1>4. Saved'
  BY <1>1, <1>2 DEF Saved, Clean, UnderWay
<1>5. Locked'
  BY <1>1, <1>2, TrapAssumption DEF Locked, TrapAssumption
<1>6. Patched'
  BY <1>1, <1>2 DEF Patched, Clean, UnderWay, Own, Closed
<1>7. Told'
  <2>1. Clean(t) => thread'[t].back = thread[t].ret
    BY <1>1 DEF Told, Own, Saved, Processing
  <2> QED
    BY <1>1, <1>2, <2>1 DEF Told, Clean, UnderWay, Own, Closed, Processing
<1>8. Opened'
  BY <1>1, <1>2 DEF Opened, Clean, UnderWay, Closed
<1>9. Contained'
  <2>1. thread[t].page \in mixed => thread'[t].back \in mixed
    BY <1>1, <1>2 DEF Contained, Processing, Has
  <2> QED
    BY <1>1, <1>2, <2>1 DEF Contained, Processing
<1>10. Known'
  BY <1>1, <1>2 DEF Known, Has, Processing
<1> QED
  BY <1>1, <1>3, <1>4, <1>5, <1>6, <1>7, <1>8, <1>9, <1>10

(* The thread goes on, or into another trampoline at what is shared.       *)
LEMMA GoOnKeeps ==
  ASSUME TrapAssumption, IInv, NEW t \in Threads, GoOn(t)
  PROVE  IInv'
<1> USE DEF IInv, At
<1>1. /\ thread[t].pc = "back" /\ UnderWay(t) /\ mixed' = mixed
      /\ thread[t].back \in Returns
      /\ thread'[t] = Behind(t, thread[t].back)
      /\ thread' \in [Threads -> ThreadStates]
      /\ \A u \in Threads \ {t} : thread'[u] = thread[u]
      /\ Placed' /\ Apart'
  <2>1. /\ thread[t].pc = "back" /\ UnderWay(t) /\ mixed' = mixed
        /\ thread' = [thread EXCEPT ![t] = Behind(t, thread[t].back)]
    BY DEF GoOn, UnderWay
  <2>2. thread[t].back \in Returns
    BY <2>1 DEF Known
  <2>3. Behind(t, thread[t].back) \in ThreadStates
    BY <2>1, <2>2, BehindOK
  <2>4. /\ thread'[t] = Behind(t, thread[t].back)
        /\ thread' \in [Threads -> ThreadStates]
        /\ \A u \in Threads \ {t} : thread'[u] = thread[u]
    BY <2>1, <2>3 DEF Typed
  <2>5. \/ thread'[t].page = thread[t].page /\ thread'[t].ret = thread[t].ret
        \/ thread'[t].pc = "away"
    BY <2>4 DEF Behind, Trapped, Away
  <2> QED
    BY <2>1, <2>2, <2>4, <2>5, StaysPlaced
<1>2. /\ info' = info /\ code' = code /\ prot' = prot /\ lock' = lock
      /\ \/ thread'[t].pc = "away" /\ thread'[t].page = None
         \/ /\ thread[t].page \in mixed /\ t \in mixed /\ thread[t].back \in mixed
            /\ code[thread[t].back] # Original
            /\ thread'[t].pc = "restore" /\ thread'[t].traps = code[thread[t].back]
            /\ thread'[t].page = thread[t].page /\ thread'[t].ret = thread[t].ret
  <2>1. info' = info /\ code' = code /\ prot' = prot /\ lock' = lock
    BY DEF GoOn
  <2>2. ASSUME thread[t].page \notin mixed PROVE code[thread[t].back] = Original
    <3>1. Clean(t) /\ thread[t].back = thread[t].ret /\ thread[t].ret \notin mixed
      BY <1>1, <2>2 DEF Told, Clean, Placed
    <3>2. \A u \in Threads : At(u, {"access", "restore"}) => thread[u].ret # thread[t].ret
      BY <1>1, <3>1 DEF Apart, UnderWay
    <3> QED
      BY <1>1, <3>1, <3>2 DEF Patched
  <2>3. thread[t].page \in mixed => t \in mixed /\ thread[t].back \in mixed
    BY <1>1 DEF Placed, Contained
  <2> QED
    BY <1>1, <2>1, <2>2, <2>3 DEF Behind, Trapped, Away
<1>3. Typed'
  BY <1>1, <1>2 DEF Typed
<1>4. Saved'
  BY <1>1, <1>2 DEF Saved, Clean, UnderWay
<1>5. Locked'
  BY <1>1, <1>2, TrapAssumption DEF Locked, TrapAssumption
<1>6. Patched'
  BY <1>1, <1>2 DEF Patched, Clean, UnderWay, Own, Closed
<1>7. Told'
  BY <1>1, <1>2 DEF Told, Clean, UnderWay, Own, Closed, Processing
<1>8. Opened'
  BY <1>1, <1>2 DEF Opened, Clean, UnderWay, Closed
<1>9. Contained'
  <2>1. None \notin mixed
    BY TrapAssumption DEF Typed, TrapAssumption
  <2> QED
    BY <1>1, <1>2, <2>1 DEF Contained, Processing
<1>10. Known'
  BY <1>1, <1>2 DEF Known, Has, Processing
<1> QED
  BY <1>1, <1>3, <1>4, <1>5, <1>6, <1>7, <1>8, <1>9, <1>10

(* The invariant holds of every number of threads, pages and addresses.    *)
THEOREM Invariant ==
  ASSUME TrapAssumption PROVE Spec => []IInv
<1>1. Init => IInv
  BY InitOK
<1>2. IInv /\ [Next]_vars => IInv'
  <2> SUFFICES ASSUME IInv, [Next]_vars PROVE IInv'
    OBVIOUS
  <2>1. CASE UNCHANGED vars
    BY <2>1 DEF vars, IInv, Typed, Placed, Apart, Saved, Locked, Patched, Told,
                Opened, Contained, Known, Has, Own, Closed, Clean, UnderWay, At
  <2>2. ASSUME NEW t \in Threads, NEW page \in Pages, NEW ret \in Returns,
               NEW write \in BOOLEAN,
               \/ Fault(t, page, ret, write)
               \/ thread[t].pc = "access" /\ page = thread[t].page
                  /\ ret = thread[t].ret /\ page \in mixed
                  /\ Save(t, page, ret, write)
        PROVE  IInv'
    BY <2>2, SaveKeeps DEF Fault
  <2>3. ASSUME NEW t \in Threads, NEW page \in Pages, NEW ret \in Returns,
               NEW write \in BOOLEAN, Touch(t, page, ret, write)
        PROVE  IInv'
    BY <2>3, TouchKeeps
  <2>4. ASSUME NEW t \in Threads, AccessPage(t)
        PROVE  IInv'
    <3>1. CASE prot[thread[t].page] = "none"
      <4>1. /\ thread[t].pc = "access"
            /\ Save(t, thread[t].page, thread[t].ret, thread[t].write)
        BY <2>4, <3>1 DEF AccessPage
      <4>2. /\ thread[t].page \in Pages /\ thread[t].ret \in Returns
            /\ thread[t].write \in BOOLEAN
        BY <4>1 DEF IInv, Placed, UnderWay, Typed, ThreadStates
      <4>3. thread[t].page \in mixed
        BY <3>1, <4>1 DEF IInv, Opened, Clean, UnderWay, At
      <4> QED
        BY <2>2, <4>1, <4>2, <4>3
    <3>2. CASE prot[thread[t].page] # "none"
      BY <2>4, <3>2, AccessPageKeeps
    <3> QED
      BY <3>1, <3>2
  <2>5. ASSUME NEW t \in Threads,
               \/ SaveAddress(t) \/ OpenPage(t) \/ HandleRead(t) \/ Patch(t)
               \/ Restore(t) \/ Unlock(t) \/ HandleWrite(t) \/ ClosePage(t)
               \/ Leave(t) \/ GoOn(t)
        PROVE  IInv'
    BY <2>5, SaveAddressKeeps, OpenPageKeeps, HandleReadKeeps, PatchKeeps,
       RestoreKeeps, UnlockKeeps, HandleWriteKeeps, ClosePageKeeps, LeaveKeeps,
       GoOnKeeps
  <2> QED
    BY <2>1, <2>2, <2>3, <2>4, <2>5 DEF Next
<1> QED
  BY <1>1, <1>2, PTL DEF Spec

(* Every variable keeps its type, and however accesses overlap, a          *)
(* trampoline's entry has an address when ioProcessResult reads it.        *)
THEOREM TypeCorrect ==
  ASSUME TrapAssumption PROVE Spec => []TypeOK
<1>1. IInv => TypeOK
  BY DEF IInv, Typed, Known, Has, At, Info, Slot, TypeOK
<1> QED
  BY <1>1, Invariant, PTL

(* An access whose page and address were never shared goes on behind       *)
(* itself, with the code and the page as they were (the trampoline and     *)
(* ioProcessResult), whatever accesses that did share do to each other.    *)
THEOREM EveryThreadReturns ==
  ASSUME TrapAssumption PROVE Spec => []ReturnsHome
<1>1. IInv => ReturnsHome
  <2> SUFFICES ASSUME IInv, NEW t \in Threads, thread[t].pc = "back",
                      {thread[t].page, thread[t].ret} \cap mixed = {}
               PROVE  /\ thread[t].back = thread[t].ret
                      /\ code[thread[t].ret] = Original
                      /\ prot[thread[t].page] = Closed(thread[t].page)
    BY DEF ReturnsHome
  <2> USE DEF IInv, At
  <2>1. Clean(t) /\ UnderWay(t) /\ thread[t].page \in Pages /\ thread[t].ret \in Returns
    BY DEF Clean, UnderWay, Placed
  <2>2. thread[t].back = thread[t].ret
    BY <2>1 DEF Told
  <2>3. code[thread[t].ret] = Original
    BY <2>1 DEF Patched, Apart, UnderWay
  <2>4. prot[thread[t].page] = Closed(thread[t].page)
    BY <2>1 DEF Opened, Apart, UnderWay
  <2> QED
    BY <2>2, <2>3, <2>4
<1> QED
  BY <1>1, Invariant, PTL

(* No thread whose accesses were never shared asks for kernelWriteLock     *)
(* while it holds it (kernelTrap, and the protocol's handlers, which take  *)
(* it themselves).                                                         *)
THEOREM LockNeverTakenTwice ==
  ASSUME TrapAssumption PROVE Spec => []NoSelfDeadlock
<1>1. IInv => NoSelfDeadlock
  BY DEF IInv, Locked, At, NoSelfDeadlock
<1> QED
  BY <1>1, Invariant, PTL
=============================================================================
